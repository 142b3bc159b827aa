----------------------------- MODULE InputFiles -----------------------------
(***************************************************************************)
(* What the user gives the program: a command line (CommandLine), a        *)
(* configuration file (ConfigFile), a rules file (RulesFile) and, in it,   *)
(* patterns for the hosts that are then asked for (DomainRules).  The      *)
(* module walks through all of them up to a size, one kind at a time, and  *)
(* compares what the program makes of them with what they mean.            *)
(***************************************************************************)
EXTENDS CommandLine, RulesFile, ConfigFile

CONSTANTS
    MaxLabels,    \* bound: labels of a name
    RulesLines,   \* lines of a rules file
    MaxRules,     \* bound: how many
    Hosts,        \* hosts asked for with such a file
    Beginnings,   \* how configuration files begin
    ConfigLines,  \* lines that follow
    MaxConfig,    \* bound: how many
    Pieces,       \* options with their values, switches and words
    MaxPieces     \* bound: how many follow a command

ASSUME BoundsAssumption ==
    /\ MaxLabels \in Nat \ {0}
    /\ MaxRules \in Nat /\ MaxConfig \in Nat /\ MaxPieces \in Nat

\* Names have a label at least, and a line that is not bad is one of three kinds.
ASSUME NamesAssumption == Hosts \subseteq Seq(Labels) \ {<<>>}
ASSUME LinesAssumption ==
    \A l \in RulesLines :
        \/ l = BadLine
        \/ \E a \in Addresses : l = IPLine(a) \/ \E bits \in 0..Width : l = CIDRLine(a, bits)
        \/ l = DomainLine(l.pattern) /\ l.pattern \in Seq(Labels) \ {<<>>}

\* The lines of a configuration file.
FileLines == ConfigLines \cup UNION {Range(b) : b \in Beginnings}

\* Those that give a list, and what is in the lists.
ListLines == {l \in FileLines : l.what = "pair" /\ l.key \in Lists}
ListItems == UNION {Range(l.value) : l \in ListLines}

\* A piece is an option with its value, or one argument.
ASSUME PiecesAssumption ==
    \A p \in Pieces : p = IF p[1] \in TakingOptions THEN <<p[1], p[2]>> ELSE <<p[1]>>

ASSUME FileLinesAssumption ==
    /\ Beginnings \subseteq Seq(FileLines)
    /\ \A l \in FileLines :
        /\ l.what = "section" => l = Header(l.key)
        /\ l.what = "pair" /\ l.key \in Numbers => l.value \in Int \cup {NotANumber}
        /\ l \in ListLines => l.value \in Seq(ListItems)

VARIABLES
    kind,      \* what the behaviour builds
    pattern,   \* DomainRule.Pattern
    host,      \* a host asked for
    rules,     \* the rules file
    begun,     \* the beginning of the configuration file
    config,    \* the lines after it
    command,   \* the first argument of a command line, Unset for none
    line       \* the pieces after it

vars == <<kind, pattern, host, rules, begun, config, command, line>>

Init ==
    /\ kind \in {"names", "rules", "config", "line"}
    /\ pattern \in IF kind = "names" THEN [1..1 -> Labels] ELSE {<<"">>}
    /\ host \in IF kind = "names" THEN [1..1 -> Labels] ELSE {<<"">>}
    /\ rules = <<>>
    /\ begun \in IF kind = "config" THEN Beginnings ELSE {<<>>}
    /\ config = <<>>
    /\ command \in IF kind = "line" THEN Commands \cup {Unset} ELSE {Unset}
    /\ line = <<>>

\* The pattern grows first, so that every pair is reached once.
LongerPattern(l) ==
    /\ kind = "names" /\ Len(host) = 1
    /\ Len(pattern) < MaxLabels
    /\ pattern' = Append(pattern, l)
    /\ UNCHANGED <<kind, host, rules, begun, config, command, line>>

LongerHost(l) ==
    /\ kind = "names"
    /\ Len(host) < MaxLabels
    /\ host' = Append(host, l)
    /\ UNCHANGED <<kind, pattern, rules, begun, config, command, line>>

MoreRules(l) ==
    /\ kind = "rules"
    /\ Len(rules) < MaxRules
    /\ rules' = Append(rules, l)
    /\ UNCHANGED <<kind, pattern, host, begun, config, command, line>>

MoreConfig(l) ==
    /\ kind = "config"
    /\ Len(config) < MaxConfig
    /\ config' = Append(config, l)
    /\ UNCHANGED <<kind, pattern, host, rules, begun, command, line>>

\* A command that comes first is the command of the line.
MoreArguments(piece) ==
    /\ kind = "line"
    /\ command = Unset /\ line = <<>> => piece[1] \notin Commands
    /\ Len(line) < MaxPieces
    /\ line' = Append(line, piece)
    /\ UNCHANGED <<kind, pattern, host, rules, begun, config, command>>

Next ==
    \/ \E l \in Labels : LongerPattern(l) \/ LongerHost(l)
    \/ \E l \in RulesLines : MoreRules(l)
    \/ \E l \in ConfigLines : MoreConfig(l)
    \/ \E piece \in Pieces : MoreArguments(piece)

Spec == Init /\ [][Next]_vars

-----------------------------------------------------------------------------
(* Properties *)

\* The recursive matcher of exclude_domain, with its backtracking over "*", accepts
\* exactly the hosts a pattern covers, in any spelling of either
\* (TestDomainRuleMatchesDelimobilWildcard).
MatchesWhatItCovers == Matches(pattern, host) <=> Excludes(pattern, host)

\* A rules file is rejected if and only if a line of it is bad, wherever it stands.
\* Otherwise an address, and a host, leaves the tunnel if and only if some line names
\* it, and every route is one the kernel accepts, also of a line like 10.1.2.3/8.
RulesFileMeansItsLines ==
    LET lines == Range(rules)
        loaded == LoadRules(rules)
        static == Range(loaded.static)
    IN /\ loaded.ok <=> BadLine \notin lines
       /\ loaded.ok =>
            /\ \A prefix \in static : Routable(prefix)
            /\ \A a \in Addresses :
                    (\E prefix \in static : Routed(prefix, a))
                        <=> \E l \in lines : NamesAddress(l, a)
            /\ \A h \in Hosts :
                    DomainRulesMatch(Range(loaded.domains), h) <=> \E l \in lines : NamesHost(l, h)

\* What stands under one header never ends up in another section or peer, however the
\* sections are ordered, repeated or mixed with unknown ones, and nothing before the
\* first header counts (the pointer currentPeer outlives its section).
ConfigSectionsKeptApart == Parse(begun \o config) = Meaning(begun \o config)

\* A configuration the program accepts is the one the device has, peer by peer, and
\* the device rejects none for the order of its lines; in tunnel mode the only endpoint
\* is the address whose route is kept out of the tunnel, whatever name the file gives.
DeviceGetsConfig ==
    LET cfg == Parse(begun \o config)
        proxied == IpcSet(ToUAPI(cfg))
        tunnelled == Resolved(cfg, TunnelEndpoint(cfg))
        device == IpcSet(ToUAPI(tunnelled))
    IN ParseAccepts(cfg) /\ UAPIAccepts(cfg) =>
        /\ proxied.ok <=> DeviceTakes(cfg)
        /\ proxied.ok => Has(proxied, cfg)
        /\ TunnelAccepts(cfg) =>
            /\ device.ok <=> DeviceTakes(tunnelled)
            /\ device.ok => /\ Has(device, tunnelled)
                            /\ {device.peers[k].endpoint : k \in Keys} \ {Empty}
                                    = {TunnelEndpoint(cfg)}

\* The program does what a command line says.  What is meant for the command behind
\* "--" is never read as an option and reaches it whole and in order, and a "--" that
\* stands for an option's value is not taken for one; only options before the first
\* other piece count, so that --dry-run after a stray word is a real run.
CommandLineUnderstood ==
    ParseCLI((IF command = Unset THEN <<>> ELSE <<command>>) \o Arguments(line)) =
        IF command # Unset THEN LineMeaning(command, line)
        ELSE IF line # <<>> /\ line[1][1] \notin Words THEN LineMeaning("shell", line)
        ELSE Rejected
=============================================================================
