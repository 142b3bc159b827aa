---------------------------- MODULE AnswerRoutes ----------------------------
(***************************************************************************)
(* Which addresses of a DNS answer get a bypass route, and for how long:   *)
(* collectDNSAAnswersForQuestions, collectLinkedARecords and HandleAnswer  *)
(* (internal/dns/forwarder.go).                                            *)
(*                                                                         *)
(* The module walks through all requests and answers up to a size.  Times  *)
(* to live are counted in units in which minDomainBypassTTL is Minimum.    *)
(***************************************************************************)
EXTENDS Integers, Sequences, FiniteSets, FiniteSetsExt, Functions

CONSTANTS
    Spellings,     \* names as written in a message
    Asked,         \* those that questions are asked for
    Owners,        \* those that own records
    Canonical,     \* what normalizeDomainPattern makes of each
    Root,          \* the normalized root, the empty string
    Bypassed,      \* normalized names that some domain rule matches
    Addresses,     \* addresses of A records
    TTLs,          \* times to live of records
    Minimum,       \* minDomainBypassTTL
    MaxSize        \* bound: questions and records together

Names == {Canonical[s] : s \in Spellings}

ASSUME CanonicalAssumption == Canonical \in [Spellings -> Names]
ASSUME SpellingAssumption ==
    IsFiniteSet(Spellings) /\ Asked \subseteq Spellings /\ Owners \subseteq Spellings
ASSUME BypassedAssumption == Bypassed \subseteq Names \ {Root}
ASSUME NumbersAssumption == TTLs \subseteq Nat /\ Minimum \in Nat /\ MaxSize \in Nat

VARIABLES
    questions,  \* req.Question
    answer      \* resp.Answer

vars == <<questions, answer>>

-----------------------------------------------------------------------------
ARecord == [type : {"A"}, name : Owners, addr : Addresses, ttl : TTLs]
CNAMERecord == [type : {"CNAME"}, name : Owners, target : Spellings, ttl : TTLs]

\* aRecords[name].
ARecords(name) == {r \in Range(answer) : r.type = "A" /\ Canonical[r.name] = name}

\* cnameRecords[name], by their places in the answer: records that name or target the
\* root are dropped.
CNAMERecords(name) ==
    {i \in DOMAIN answer :
        /\ answer[i].type = "CNAME"
        /\ Canonical[answer[i].name] = name
        /\ Root \notin {name, Canonical[answer[i].target]}}

\* cnames[0].
FirstCNAME(name) == answer[Min(CNAMERecords(name))]

\* The loop of collectLinkedARecords: seenNames and current, which the code leaves by a
\* break where it is the root here.
Visit(s) ==
    IF s.current \in s.seen \cup {Root} THEN s
    ELSE [seen |-> s.seen \cup {s.current},
          current |-> IF CNAMERecords(s.current) = {} THEN Root
                      ELSE Canonical[FirstCNAME(s.current).target]]

\* So many rounds are enough: each sees another name.
Visits(query) ==
    LET visits[n \in 0..Cardinality(Names)] ==
            IF n = 0 THEN [seen |-> {}, current |-> query] ELSE Visit(visits[n - 1])
    IN visits

\* Mutated: aliases are not followed.
ChainNoAliases(query) == {query}

\* The names collectLinkedARecords has seen.
Chain(query) == Visits(query)[Cardinality(Names)].seen

LinkedARecords(query) == UNION {ARecords(n) : n \in Chain(query)}

\* The CNAME followed of each of the names.
Followed(names) == {FirstCNAME(n) : n \in {m \in names : CNAMERecords(m) # {}}}

\* Mutated: the time to live of the CNAMEs is not looked at.
UsedRecordsAOnly(query) == LinkedARecords(query)

\* The records whose times to live minTTL is the least of.
UsedRecords(query) == LinkedARecords(query) \cup Followed(Chain(query))

MinTTL(query) == Min({r.ttl : r \in UsedRecords(query)})

\* The names looked up: each bypassed name once.
Queries == {Canonical[q] : q \in Range(questions)} \cap Bypassed

\* HandleAnswer: the bypass routes asked for.
Routes(query) ==
    LET lease == Max({Minimum, MinTTL(query)})
    IN {[addr |-> r.addr, ttl |-> lease] : r \in LinkedARecords(query)}

\* handleDNS: the routes of all queries; those without addresses have none.
AllRoutes == UNION {Routes(query) : query \in Queries}

-----------------------------------------------------------------------------
Init == questions \in [1..1 -> Asked] /\ answer = <<>>

Ask(s) ==
    /\ answer = <<>>
    /\ Len(questions) < MaxSize
    /\ questions' = Append(questions, s)
    /\ UNCHANGED answer

Record(r) ==
    /\ Len(questions) + Len(answer) < MaxSize
    /\ answer' = Append(answer, r)
    /\ UNCHANGED questions

Next ==
    \/ \E s \in Asked : Ask(s)
    \/ \E r \in ARecord \cup CNAMERecord : Record(r)

Spec == Init /\ [][Next]_vars

-----------------------------------------------------------------------------
(* Properties *)

\* The names a query leads to, by the first alias of each name: the reference, the
\* least set of names that holds the query and where the aliases lead.
Targets(names) == {Canonical[r.target] : r \in Followed(names)}

Reachable(query) ==
    LET closed == {names \in SUBSET Names : query \in names /\ Targets(names) \subseteq names}
    IN {n \in Names : \A names \in closed : n \in names}

\* Exactly the addresses a bypassed question leads to are routed, whatever order the
\* records come in, through chains and loops of aliases; an address of an unrelated
\* name in the same answer never leaves the tunnel.
RoutesWhatIsAsked ==
    LET bypassed == {Canonical[q] : q \in Range(questions)} \cap Bypassed
        led == UNION {Reachable(n) : n \in bypassed}
    IN {r.addr : r \in AllRoutes} = {r.addr : r \in UNION {ARecords(n) : n \in led}}

\* The records that lead from a query to its addresses.
Leading(query) ==
    (UNION {ARecords(n) : n \in Reachable(query)}) \cup Followed(Reachable(query))

\* A route is leased for as long as every record that led to it lasts, and for ten
\* minutes at least: an alias that changes sooner than its address takes the route
\* with it.
LeaseWithinTTL ==
    \A query \in Queries : \A route \in Routes(query) :
        route.ttl = Max({Minimum, Min({r.ttl : r \in Leading(query)})})
=============================================================================
