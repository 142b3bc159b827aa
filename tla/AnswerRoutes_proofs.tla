------------------------ MODULE AnswerRoutes_proofs -------------------------
(***************************************************************************)
(* Proofs about AnswerRoutes: the names the code has seen when its loop    *)
(* ends are the least set that holds the query and follows its aliases.    *)
(***************************************************************************)
EXTENDS AnswerRoutes, Induction_proofs

\* What a request and an answer are made of.
TypeInv == questions \in Seq(Asked) /\ answer \in Seq(ARecord \cup CNAMERecord)

\* Requests and answers are sequences of names asked for and of records.
THEOREM TypeCorrect == Spec => []TypeInv
<1>1. Init => TypeInv
  <2> SUFFICES ASSUME Init PROVE TypeInv
    OBVIOUS
  <2>1. questions[1] \in Asked /\ questions = <<questions[1]>>
    BY DEF Init
  <2>2. answer \in Seq(ARecord \cup CNAMERecord)
    BY EmptySeq DEF Init
  <2>3. <<questions[1]>> \in Seq(Asked)
    BY <2>1
  <2> QED BY <2>1, <2>2, <2>3 DEF TypeInv
<1>2. TypeInv /\ [Next]_vars => TypeInv'
  <2> SUFFICES ASSUME TypeInv, [Next]_vars PROVE TypeInv'
    OBVIOUS
  <2>1. ASSUME NEW s \in Asked, Ask(s) PROVE TypeInv'
    BY <2>1, AppendProperties DEF Ask, TypeInv
  <2>2. ASSUME NEW r \in ARecord \cup CNAMERecord, Record(r) PROVE TypeInv'
    BY <2>2, AppendProperties DEF Record, TypeInv
  <2>3. CASE UNCHANGED vars
    BY <2>3 DEF vars, TypeInv
  <2> QED BY <2>1, <2>2, <2>3 DEF Next
<1> QED BY <1>1, <1>2, PTL DEF Spec

LEMMA NamesFinite == IsFiniteSet(Names)
<1>1. Canonical \in Surjection(Spellings, Names)
  BY CanonicalAssumption DEF Names, Surjection
<1> QED BY <1>1, SpellingAssumption, FS_Surjection

\* The first CNAME of a name is one of its CNAMEs, and leads to a name.
LEMMA FirstCNAMELeads ==
  ASSUME TypeInv, NEW name, CNAMERecords(name) # {}
  PROVE  Canonical[FirstCNAME(name).target] \in Names \ {Root}
<1> DEFINE places == CNAMERecords(name)
<1>1. DOMAIN answer = 1..Len(answer) /\ \A i \in 1..Len(answer) : answer[i] \in ARecord \cup CNAMERecord
  BY LenProperties, ElementOfSeq DEF TypeInv
<1>2. places \in SUBSET Nat
  BY <1>1 DEF CNAMERecords
<1>3. Min(places) \in places
  <2> HIDE DEF places
  <2>1. \E n \in places : \A m \in places : n <= m
    BY <1>2, LeastNatural DEF places
  <2> QED BY <2>1 DEF Min
<1>4. FirstCNAME(name) \in CNAMERecord /\ Canonical[FirstCNAME(name).target] # Root
  <2>1. Min(places) \in 1..Len(answer)
    BY <1>1, <1>3 DEF CNAMERecords
  <2>2. FirstCNAME(name).type = "CNAME" /\ Canonical[FirstCNAME(name).target] # Root
    BY <1>3 DEF CNAMERecords, FirstCNAME
  <2> QED BY <1>1, <2>1, <2>2 DEF FirstCNAME, ARecord
<1> QED BY <1>4, CanonicalAssumption DEF CNAMERecord

States == [seen : SUBSET Names, current : Names \cup {Root}]

LEMMA VisitType == ASSUME TypeInv, NEW s \in States PROVE Visit(s) \in States
<1>1. CNAMERecords(s.current) # {} => Canonical[FirstCNAME(s.current).target] \in Names
  BY FirstCNAMELeads
<1> DEFINE next == IF CNAMERecords(s.current) = {} THEN Root
                   ELSE Canonical[FirstCNAME(s.current).target]
<1>2. next \in Names \cup {Root}
  BY <1>1
<1> HIDE DEF next
<1>3. s.current \notin s.seen \cup {Root} => [seen |-> s.seen \cup {s.current}, current |-> next] \in States
  BY <1>2 DEF States
<1> QED BY <1>3 DEF Visit, next

\* The rounds of the loop, one by one.
LEMMA VisitsStep ==
  ASSUME TypeInv, NEW query \in Names
  PROVE  /\ Visits(query)[0] = [seen |-> {}, current |-> query]
         /\ \A n \in 1..Cardinality(Names) : Visits(query)[n] = Visit(Visits(query)[n - 1])
<1> DEFINE N == Cardinality(Names)
           base == [seen |-> {}, current |-> query]
           step == [x \in (1..N) \X States |-> Visit(x[2])]
           Met(f) == f = [n \in 0..N |-> IF n = 0 THEN base ELSE Visit(f[n - 1])]
<1>1. Visits(query) = CHOOSE f : Met(f)
  BY DEF Visits
<1>2. N \in Nat /\ base \in States
  BY NamesFinite, FS_CardinalityType DEF States
<1>3. step \in [(1..N) \X States -> States]
  BY VisitType
<1>4. \A n \in 1..N : \A s \in States : step[<<n, s>>] = Visit(s)
  OBVIOUS
<1> HIDE DEF N, base, step
<1>5. PICK f \in [0..N -> States] : Recurs(f, N, base, step)
  BY <1>2, <1>3, Recursion
<1>6. \A n \in 1..N : n - 1 \in 0..N /\ n \in 0..N /\ n # 0
  BY <1>2
<1>7. Met(f)
  <2>1. f[0] = base /\ \A n \in 1..N : f[n] = Visit(f[n - 1])
    BY <1>4, <1>5, <1>6 DEF Recurs
  <2>2. \A n \in 0..N : n = 0 \/ (n # 0 /\ n \in 1..N)
    BY <1>2
  <2> QED BY <2>1, <2>2
<1> HIDE DEF Met
<1>8. Met(Visits(query))
  BY <1>1, <1>7
<1>9. 0 \in 0..N
  BY <1>2
<1> HIDE DEF Visits
<1> QED BY <1>6, <1>8, <1>9 DEF Met, N, base

\* What holds after n rounds: the names seen and the next one are reachable, nothing is
\* left out, and each round but the idle ones has seen another name.
Seen(query, s, n) ==
    /\ s \in States
    /\ Root \notin s.seen
    /\ query \in s.seen \cup {s.current}
    /\ Targets(s.seen) \subseteq s.seen \cup {s.current}
    /\ s.seen \cup {s.current} \subseteq Reachable(query) \cup {Root}
    /\ s.current \in s.seen \cup {Root} \/ Cardinality(s.seen) = n

\* The aliases of one more name.
LEMMA TargetsOfMore ==
  ASSUME NEW names, NEW name
  PROVE  Targets(names \cup {name}) =
            Targets(names) \cup IF CNAMERecords(name) = {} THEN {}
                                ELSE {Canonical[FirstCNAME(name).target]}
BY DEF Targets, Followed

LEMMA ReachableCloses ==
  ASSUME TypeInv, NEW query, NEW name \in Reachable(query), CNAMERecords(name) # {}
  PROVE  Canonical[FirstCNAME(name).target] \in Reachable(query)
<1> DEFINE target == Canonical[FirstCNAME(name).target]
<1>1. target \in Names
  BY FirstCNAMELeads
<1>2. \A names : name \in names => target \in Targets(names)
  BY DEF Targets, Followed
<1> HIDE DEF target
<1> QED BY <1>1, <1>2 DEF Reachable, target

LEMMA SeenKept ==
  ASSUME TypeInv, NEW query \in Names \ {Root}, NEW n \in Nat, NEW s, Seen(query, s, n)
  PROVE  Seen(query, Visit(s), n + 1)
<1>1. CASE s.current \in s.seen \cup {Root}
  <2>1. Visit(s) = s
    BY <1>1 DEF Visit
  <2> QED BY <1>1, <2>1 DEF Seen
<1>2. CASE s.current \notin s.seen \cup {Root}
  <2> DEFINE current == s.current
             seen == s.seen \cup {current}
             next == IF CNAMERecords(current) = {} THEN Root
                     ELSE Canonical[FirstCNAME(current).target]
             t == Visit(s)
  <2>1. t \in States
    BY VisitType DEF Seen
  <2>2. t.seen = seen /\ t.current = next
    BY <1>2 DEF Visit
  <2>3. current \in Names /\ current \in Reachable(query) /\ s.seen \in SUBSET Names
    BY <1>2 DEF Seen, States
  <2>4. Root \notin seen /\ query \in seen
    BY <1>2 DEF Seen
  <2>5. Targets(seen) \subseteq seen \cup {next}
    BY TargetsOfMore DEF Seen
  <2>6. seen \cup {next} \subseteq Reachable(query) \cup {Root}
    <3>1. next \in Reachable(query) \cup {Root}
      BY <2>3, ReachableCloses
    <3> HIDE DEF next
    <3> QED BY <3>1 DEF Seen
  <2>7. Cardinality(seen) = n + 1
    <3>1. IsFiniteSet(s.seen)
      BY <2>3, NamesFinite, FS_Subset
    <3> QED BY <1>2, <3>1, FS_AddElement DEF Seen
  <2> HIDE DEF next, seen, t
  <2> QED BY <2>1, <2>2, <2>4, <2>5, <2>6, <2>7 DEF Seen, t
<1> QED BY <1>1, <1>2

LEMMA SeenThroughout ==
  ASSUME TypeInv, NEW query \in Names \ {Root}
  PROVE  Seen(query, Visits(query)[Cardinality(Names)], Cardinality(Names))
<1> DEFINE N == Cardinality(Names)
           visits == Visits(query)
           S == {n \in 0..N : Seen(query, visits[n], n)}
<1>1. N \in Nat
  BY NamesFinite, FS_CardinalityType
<1>2. visits[0] = [seen |-> {}, current |-> query] /\ \A n \in 1..N : visits[n] = Visit(visits[n - 1])
  BY VisitsStep
<1> HIDE DEF N, visits
<1>3. Seen(query, visits[0], 0)
  <2>1. Targets({}) = {}
    BY DEF Targets, Followed
  <2>2. query \in Reachable(query)
    BY DEF Reachable
  <2> QED BY <1>2, <2>1, <2>2, FS_EmptySet DEF Seen, States
<1>4. ASSUME NEW n \in 1..N, Seen(query, visits[n - 1], n - 1) PROVE Seen(query, visits[n], n)
  <2>1. n - 1 \in Nat /\ (n - 1) + 1 = n
    BY <1>1
  <2>2. Seen(query, Visit(visits[n - 1]), (n - 1) + 1)
    BY <1>4, <2>1, SeenKept
  <2> QED BY <1>2, <2>1, <2>2
<1>5. 0 \in S /\ \A n \in 1..N : n - 1 \in S => n \in S
  BY <1>1, <1>3, <1>4
<1> HIDE DEF S
<1>6. N \in S
  <2>1. 0..N \subseteq S
    BY <1>1, <1>5, Induction
  <2> QED BY <1>1, <2>1
<1> QED BY <1>6 DEF S, N, visits

\* When the loop has gone round as often as there are names it has ended, for want of
\* another name, and has seen all that is reachable.
LEMMA ChainIsReachable ==
  ASSUME TypeInv, NEW query \in Names \ {Root}
  PROVE  Chain(query) = Reachable(query)
<1> DEFINE N == Cardinality(Names)
           s == Visits(query)[N]
<1>1. Seen(query, s, N) /\ Chain(query) = s.seen
  BY SeenThroughout DEF Chain
<1> HIDE DEF s
<1>2. s.current \in s.seen \cup {Root}
  <2> SUFFICES ASSUME Cardinality(s.seen) = N PROVE s.current \in s.seen \cup {Root}
    BY <1>1 DEF Seen
  <2>1. s.seen = Names
    BY <1>1, NamesFinite, FS_Subset DEF Seen, States
  <2> QED BY <1>1, <2>1 DEF Seen, States
<1>3. s.seen \in SUBSET Names /\ query \in s.seen /\ s.seen \subseteq Reachable(query)
  BY <1>1, <1>2 DEF Seen, States
<1>4. Targets(s.seen) \subseteq s.seen
  <2>1. Root \notin Targets(s.seen)
    <3>1. \A n : CNAMERecords(n) # {} => Canonical[FirstCNAME(n).target] # Root
      BY FirstCNAMELeads
    <3> QED BY <3>1 DEF Targets, Followed
  <2> QED BY <1>1, <1>2, <2>1 DEF Seen
<1> QED BY <1>1, <1>3, <1>4 DEF Reachable

\* Whatever the answer: exactly the addresses a bypassed question leads to are routed,
\* also through loops of aliases.
THEOREM RoutesAreThoseAsked == Spec => []RoutesWhatIsAsked
<1>1. ASSUME TypeInv PROVE RoutesWhatIsAsked
  <2>1. \A query \in Queries : Chain(query) = Reachable(query)
    BY <1>1, BypassedAssumption, ChainIsReachable DEF Queries
  <2> DEFINE Records == UNION {LinkedARecords(query) : query \in Queries}
  <2>2. {r.addr : r \in AllRoutes} = {r.addr : r \in Records}
    <3>1. ASSUME NEW query PROVE {r.addr : r \in Routes(query)} = {r.addr : r \in LinkedARecords(query)}
      <4> DEFINE lease == Max({Minimum, MinTTL(query)})
      <4>1. Routes(query) = {[addr |-> r.addr, ttl |-> lease] : r \in LinkedARecords(query)}
        BY DEF Routes
      <4> HIDE DEF lease
      <4>2. \A r \in LinkedARecords(query) : [addr |-> r.addr, ttl |-> lease].addr = r.addr
        OBVIOUS
      <4>3. ASSUME NEW a PROVE (\E r \in Routes(query) : a = r.addr)
                                 <=> \E r \in LinkedARecords(query) : a = r.addr
        BY <4>1, <4>2
      <4> QED BY <4>3
    <3>2. {r.addr : r \in AllRoutes} = UNION {{r.addr : r \in Routes(query)} : query \in Queries}
      BY DEF AllRoutes
    <3>3. {r.addr : r \in Records} = UNION {{r.addr : r \in LinkedARecords(query)} : query \in Queries}
      OBVIOUS
    <3> QED BY <3>1, <3>2, <3>3
  <2>3. Records = UNION {ARecords(n) : n \in UNION {Reachable(query) : query \in Queries}}
    BY <2>1 DEF LinkedARecords
  <2> HIDE DEF Records
  <2> QED BY <2>2, <2>3 DEF RoutesWhatIsAsked, Queries
<1> QED BY <1>1, TypeCorrect, PTL

\* Whatever the answer: a lease lasts as long as every record that led to its route.
THEOREM LeasesAreWithinTTL == Spec => []LeaseWithinTTL
<1>1. ASSUME TypeInv PROVE LeaseWithinTTL
  <2>1. \A query \in Queries : Chain(query) = Reachable(query)
    BY <1>1, BypassedAssumption, ChainIsReachable DEF Queries
  <2>2. \A query \in Queries : UsedRecords(query) = Leading(query)
    BY <2>1 DEF UsedRecords, LinkedARecords, Leading
  <2>3. ASSUME NEW query, NEW route \in Routes(query)
        PROVE  route.ttl = Max({Minimum, MinTTL(query)})
    <3> DEFINE lease == Max({Minimum, MinTTL(query)})
    <3>1. Routes(query) = {[addr |-> r.addr, ttl |-> lease] : r \in LinkedARecords(query)}
      BY DEF Routes
    <3> HIDE DEF lease
    <3> QED BY <3>1 DEF lease
  <2> QED BY <2>2, <2>3 DEF LeaseWithinTTL, MinTTL
<1> QED BY <1>1, TypeCorrect, PTL
=============================================================================
