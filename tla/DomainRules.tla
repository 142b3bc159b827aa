---------------------------- MODULE DomainRules ----------------------------
(***************************************************************************)
(* The matching of exclude_domain patterns against host names              *)
(* (internal/dns/rules.go).                                                *)
(*                                                                         *)
(* A name is what strings.Split makes of it at the dots: a non-empty       *)
(* sequence of labels, some of which may be empty.  "a.b." is the labels   *)
(* a, b and "", and the empty string is the one label "".                  *)
(***************************************************************************)
EXTENDS Integers, Sequences, SequencesExt

CONSTANTS
    Labels,     \* labels as written: "" and "*" are the special ones
    Lower       \* the lower-case form of each label

ASSUME LabelsAssumption == {"", "*"} \subseteq Labels
ASSUME LowerAssumption ==
    /\ Lower \in [Labels -> Labels]
    /\ \A l \in Labels : Lower[Lower[l]] = Lower[l] /\ \A s \in {"", "*"} : Lower[l] = s <=> l = s

-----------------------------------------------------------------------------
LowerCase(name) == [i \in DOMAIN name |-> Lower[name[i]]]

\* normalizeDomainPattern: lower case, without one trailing dot.
Normalize(name) ==
    IF Len(name) > 1 /\ Last(name) = "" THEN Front(LowerCase(name)) ELSE LowerCase(name)

Valid(parts) == \A i \in DOMAIN parts : parts[i] # ""

FromEnd(s, n) == s[Len(s) - n + 1]

\* matchDomainParts calls itself for what is left of both sides: how many labels at the
\* end of the host the last n parts match.  A "*" stands for one label or more, as the
\* last part of the pattern for exactly one.
Matched(parts, labels) ==
    LET matched[n \in 0..Len(parts)] ==
            IF n = 0 THEN {0}
            ELSE {m \in 1..Len(labels) :
                    IF FromEnd(parts, n) # "*"
                    THEN FromEnd(parts, n) = FromEnd(labels, m) /\ m - 1 \in matched[n - 1]
                    ELSE IF n = 1 THEN m = 1
                    ELSE \E consumed \in 1..m : m - consumed \in matched[n - 1]}
    IN matched

MatchParts(parts, labels) == Len(labels) \in Matched(parts, labels)[Len(parts)]

\* Mutated: a trailing "*" takes any number of labels.
MatchGlobOpenEnd(p, h) ==
    /\ Valid(p) /\ Valid(h)
    /\ MatchParts(p, h) \/ \E n \in 1..Len(h) : MatchParts(p, SubSeq(h, 1, n))

\* matchDomainGlob: a name with an empty label matches nothing.
MatchGlob(p, h) == Valid(p) /\ Valid(h) /\ MatchParts(p, h)

\* DomainRule.Matches.
Matches(p, h) ==
    /\ Normalize(p) # <<"">>
    /\ Normalize(h) # <<"">>
    /\ MatchGlob(Normalize(p), Normalize(h))

\* domainRulesMatch.
DomainRulesMatch(patterns, host) == \E p \in patterns : Matches(p, host)

-----------------------------------------------------------------------------
(* The reference *)

\* A pattern covers a host when the host can be cut into consecutive pieces, one per
\* part: a literal part is its piece, a "*" has at least one label, the last part
\* exactly one.
Covers(p, h) ==
    \E end \in [0..Len(p) -> 0..Len(h)] :
        /\ end[0] = 0 /\ end[Len(p)] = Len(h)
        /\ \A i \in 1..Len(p) :
            /\ end[i - 1] < end[i]
            /\ p[i] # "*" => end[i] = end[i - 1] + 1 /\ h[end[i]] = p[i]
            /\ i = Len(p) => end[i] = end[i - 1] + 1

\* A pattern excludes a host when it covers it, whatever their case and whether or
\* not they are written with a final dot; a name with an empty label, the root
\* included, neither excludes nor is excluded.
Excludes(pattern, host) ==
    LET Bare(name) == IF Last(name) = "" THEN Front(name) ELSE name
        Named(name) == Bare(name) # <<>> /\ \A i \in DOMAIN Bare(name) : Bare(name)[i] # ""
        p == LowerCase(pattern)
        h == LowerCase(host)
    IN Named(p) /\ Named(h) /\ Covers(Bare(p), Bare(h))
=============================================================================
