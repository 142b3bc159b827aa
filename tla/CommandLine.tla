---------------------------- MODULE CommandLine ----------------------------
(***************************************************************************)
(* The command line: ParseCLI (internal/app/cli.go) and the choice of a    *)
(* mode (internal/app/app.go), on top of the standard library's flags.     *)
(*                                                                         *)
(* An argument is a text; which of them begin with "-" is all that is      *)
(* known of it ("-" alone and the empty argument, which flags takes for    *)
(* words, are left out).  Of the options that take a value one stands for  *)
(* each variable, "-s" for both ports; "--dry-run" for all switches.       *)
(***************************************************************************)
EXTENDS Integers, Sequences, SequencesExt, FiniteSetsExt

CONSTANTS
    Words,        \* arguments that do not begin with "-"
    Ports,        \* those that are a number
    FoundConfig   \* the file resolveDefaultConfigPath finds, Unset for none

Commands == {"shell", "run", "server", "app", "tunnel"}

\* The options that give each variable its value.
Takes == [config |-> {"-c"}, app |-> {"-a"}, port |-> {"-s"}]
TakingOptions == UNION {Takes[name] : name \in DOMAIN Takes}

ASSUME WordsAssumption ==
    /\ Ports \subseteq Words /\ Commands \cap Words = {}
    /\ (TakingOptions \cup {"--dry-run", "--"}) \cap Words = {}

-----------------------------------------------------------------------------
(* FlagSet.Parse, external: it stops at the first word or behind "--" *)

\* What a variable holds that no option has set.
Unset == ""

\* "wants" is the variable whose option has been read and whose value comes next.
NoFlags == [ok |-> TRUE, reading |-> TRUE, wants |-> "none", rest |-> <<>>, dry |-> FALSE,
            values |-> [name \in DOMAIN Takes |-> Unset]]

\* An option takes whatever comes next as its value.
ReadValue(f, value) ==
    IF f.wants = "port" /\ value \notin Ports THEN [f EXCEPT !.ok = FALSE]
    ELSE [f EXCEPT !.values[f.wants] = value, !.wants = "none"]

ReadOption(f, arg) ==
    CASE arg = "--dry-run" -> [f EXCEPT !.dry = TRUE]
      [] arg = "--" -> [f EXCEPT !.reading = FALSE]
      [] arg \in Words \cup Commands -> [f EXCEPT !.reading = FALSE, !.rest = <<arg>>]
      [] arg \in TakingOptions ->
            [f EXCEPT !.wants = CHOOSE name \in DOMAIN Takes : arg \in Takes[name]]
      [] OTHER -> [f EXCEPT !.ok = FALSE]

ReadArgument(f, arg) ==
    IF ~f.ok THEN f
    ELSE IF ~f.reading THEN [f EXCEPT !.rest = Append(@, arg)]
    ELSE IF f.wants # "none" THEN ReadValue(f, arg)
    ELSE ReadOption(f, arg)

ReadFlags(args) ==
    LET read[n \in 0..Len(args)] ==
            IF n = 0 THEN NoFlags ELSE ReadArgument(read[n - 1], args[n])
    IN read[Len(args)]

\* An option at the end that has no value is an error.
FlagsAccepted(f) == f.ok /\ f.wants = "none"

-----------------------------------------------------------------------------
Rejected == [ok |-> FALSE]

\* Mutated: the last "--" is looked for.
SeparatorLast(args) == Max({0} \cup {i \in DOMAIN args : args[i] = "--"})

\* The first "--", 0 for none; it may be meant as an option's value.
Separator(args) ==
    IF Contains(args, "--") THEN Min({i \in DOMAIN args : args[i] = "--"}) ELSE 0

\* Of the words of "app" the first is the application, unless -a has named it.
AppTarget(named, words) == IF named # Unset \/ words = <<>> THEN named ELSE words[1]
AppArgs(named, words) == IF named # Unset \/ words = <<>> THEN words ELSE Tail(words)

\* What a line is taken for, when nothing rejects it.
Taken(command, config, dry, named, given, words) ==
    LET target == AppTarget(named, words)
        path == IF config = Unset THEN FoundConfig ELSE config
    IN IF \/ command = "run" /\ given = <<>>
          \/ command = "app" /\ target = Unset
          \/ path = Unset
       THEN Rejected
       ELSE [ok |-> TRUE, command |-> command, config |-> path, dry |-> dry,
             target |-> IF command = "app" THEN target ELSE Unset,
             args |-> CASE command = "run" -> given
                        [] command = "app" -> AppArgs(named, words)
                        [] OTHER -> <<>>]

\* ParseCLI: with "run" and "app", what follows "--" is kept from the flags.
ParseOptions(command, args) ==
    LET sep == IF command \in {"run", "app"} THEN Separator(args) ELSE 0
        flags == ReadFlags(IF sep = 0 THEN args ELSE SubSeq(args, 1, sep - 1))
        given == IF sep = 0 THEN <<>> ELSE SubSeq(args, sep + 1, Len(args))
    IN IF FlagsAccepted(flags)
       THEN Taken(command, flags.values.config, flags.dry, flags.values.app, given,
                  IF given = <<>> THEN flags.rest ELSE given)
       ELSE Rejected

\* Without a command the line is one of "shell", if it begins with an option.
ParseCLI(args) ==
    IF args = <<>> \/ Head(args) \in Words THEN Rejected
    ELSE IF Head(args) \in Commands THEN ParseOptions(Head(args), Tail(args))
    ELSE ParseOptions("shell", args)

-----------------------------------------------------------------------------
(* The reference.  A line is written in pieces: an option with its value, a switch,  *)
(* a word, or the separator.                                                         *)

IsOption(piece) == piece # <<"--">> /\ piece[1] \notin Words \cup Commands

\* The arguments that the first n pieces are written with, and all of them.
Written(pieces) ==
    LET written[n \in 0..Len(pieces)] == IF n = 0 THEN <<>> ELSE written[n - 1] \o pieces[n]
    IN written
Arguments(pieces) == Written(pieces)[Len(pieces)]

\* The options at the beginning, and all arguments from the first other piece on.
LeadingOptions(pieces) ==
    Max({n \in 0..Len(pieces) : \A i \in 1..n : IsOption(pieces[i])})
Leading(pieces) == SubSeq(pieces, 1, LeadingOptions(pieces))
Trailing(pieces) ==
    LET args == Arguments(pieces)
    IN SubSeq(args, Len(Written(pieces)[LeadingOptions(pieces)]) + 1, Len(args))

\* The last value that the leading options give a variable.
ValueOf(pieces, name) ==
    LET setting == {i \in DOMAIN Leading(pieces) : pieces[i][1] \in Takes[name]}
    IN IF setting = {} THEN Unset ELSE pieces[Max(setting)][2]

\* Only options before the first other piece count, even if a switch comes later; the
\* command gets what follows the first separator, and without one an application gets
\* the words.  What is wrong in an option rejects the line, and so does "--" as the
\* value of one where a separator may stand.
LineMeaning(command, pieces) ==
    LET options == Leading(pieces)
        after == Trailing(pieces)
        separates == command \in {"run", "app"}
        sep == CHOOSE i \in 1..(Len(after) + 1) :
                    /\ i > Len(after) \/ after[i] = "--"
                    /\ \A j \in 1..(i - 1) : after[j] # "--"
        given == IF separates THEN SubSeq(after, sep + 1, Len(after)) ELSE <<>>
        Wrong(option) ==
            \/ option[1] = "-s" /\ option[2] \notin Ports
            \/ option[1] \notin TakingOptions \cup {"--dry-run"}
            \/ separates /\ Contains(option, "--")
    IN IF \E i \in DOMAIN options : Wrong(options[i]) THEN Rejected
       ELSE Taken(command, ValueOf(pieces, "config"), Contains(options, <<"--dry-run">>),
                  ValueOf(pieces, "app"), given,
                  IF given = <<>> THEN SubSeq(after, 1, sep - 1) ELSE given)
=============================================================================
