------------------------ MODULE BypassAnswers_proofs ------------------------
(***************************************************************************)
(* Proofs about DynamicRoutes, for every set of prefixes and callers, and  *)
(* about the handlers that BypassAnswers adds to it.                       *)
(*                                                                         *)
(* TypeOK and RouteOwnership are inductive together.  The restoration of   *)
(* the routing table needs more: until Close a prefix is pending exactly   *)
(* while one caller adds it (ReservationHeld), and from Close on nobody is *)
(* at work any more (Drained).                                             *)
(*                                                                         *)
(* With the handlers DynamicRoutes takes no step it could not take alone,  *)
(* so that its invariants hold under AnswersSpec; on them stands what an   *)
(* answer promises.                                                        *)
(***************************************************************************)
EXTENDS BypassAnswers, TLAPS

LEMMA TypeInit == Init => TypeOK
  BY PrefixesAssumption DEF Init, TypeOK, Entry, NoEntry, Callback

LEMMA ResetTimerType ==
  ASSUME NEW entry \in Entry
  PROVE  ResetTimer(entry) \in Entry /\ ResetTimer(entry).state = entry.state
<1>0. entry.generation \in Nat /\ entry.ttl \in TTLs \cup {0}
  BY DEF Entry
<1>1. entry.generation + 1 \in Nat /\ entry.ttl \in Nat
  BY <1>0, TTLAssumption
<1>2. ResetTimer(entry) \in Entry
  BY <1>1 DEF Entry, ResetTimer
<1>3. ResetTimer(entry).state = entry.state
  BY DEF Entry, ResetTimer
<1> QED BY <1>2, <1>3

LEMMA MarkType ==
  ASSUME NEW entry \in Entry
  PROVE  /\ ResetTimer([entry EXCEPT !.state = "added"]) \in Entry
         /\ ResetTimer([entry EXCEPT !.state = "added"]).state = "added"
<1> DEFINE marked == [entry EXCEPT !.state = "added"]
<1>1. marked \in Entry /\ marked.state = "added"
  BY DEF Entry
<1> HIDE DEF marked
<1> QED BY <1>1, ResetTimerType DEF marked

LEMMA TypeStep == TypeOK /\ [Next]_vars => TypeOK'
<1> SUFFICES ASSUME TypeOK, [Next]_vars PROVE TypeOK'
  OBVIOUS
<1> USE DEF TypeOK
<1>1. ASSUME NEW c \in Callers, NEW p \in Prefixes, NEW ttl \in TTLs, ReserveNew(c, p, ttl)
      PROVE  TypeOK'
  <2>1. [NoEntry EXCEPT !.state = "pending", !.ttl = ttl] \in Entry
    BY DEF NoEntry, Entry
  <2> QED BY <1>1, <2>1, PrefixesAssumption DEF ReserveNew, Move
<1>2. ASSUME NEW c \in Callers, NEW p \in Prefixes, NEW ttl \in TTLs, ReserveAgain(c, p, ttl)
      PROVE  TypeOK'
  <2> DEFINE entry == [routes[p] EXCEPT !.ttl = ttl]
  <2>1. entry \in Entry
    BY DEF Entry
  <2>2. ResetTimer(entry) \in Entry
    BY <2>1, ResetTimerType
  <2> QED BY <1>2, <2>1, <2>2 DEF ReserveAgain
<1>3. ASSUME NEW c \in Callers, CallerStep(c) PROVE TypeOK'
  <2>1. CASE StartAdd(c)
    BY <2>1 DEF StartAdd, Move
  <2>2. CASE AddSucceeds(c)
    BY <2>2 DEF AddSucceeds, Move
  <2>3. CASE AddFails(c)
    BY <2>3 DEF AddFails, Move
  <2>4. CASE AddKilled(c)
    BY <2>4 DEF AddKilled, Move
  <2>5. CASE MarkAdded(c)
    <3>1. target[c] \in Prefixes
      BY <2>5 DEF MarkAdded, Finish, Move
    <3>2. ResetTimer([routes[target[c]] EXCEPT !.state = "added"]) \in Entry
      BY <3>1, MarkType
    <3> QED BY <2>5, <3>1, <3>2 DEF MarkAdded, Finish, Move
  <2>6. CASE Forget(c)
    <3>1. NoEntry \in Entry
      BY DEF NoEntry, Entry
    <3> QED BY <2>6, <3>1 DEF Forget, Finish, Move
  <2> QED BY <1>3, <2>1, <2>2, <2>3, <2>4, <2>5, <2>6 DEF CallerStep
<1>4. CASE Tick
  <2>1. \A p \in Prefixes :
          [routes[p] EXCEPT !.timer = IF @ > 0 THEN @ - 1 ELSE 0] \in Entry
    BY DEF Entry
  <2>2. \A p \in Prefixes :
          [prefix |-> p, generation |-> routes[p].generation] \in Callback
    BY DEF Entry, Callback
  <2> QED BY <1>4, <2>1, <2>2 DEF Tick
<1>5. ASSUME NEW cb \in fired, Expire(cb) PROVE TypeOK'
  <2>1. NoEntry \in Entry
    BY DEF NoEntry, Entry
  <2>2. cb.prefix \in Prefixes
    BY DEF Callback
  <2> QED BY <1>5, <2>1, <2>2 DEF Expire
<1>6. ASSUME NEW p \in Prefixes, ExpireDelete(p) PROVE TypeOK'
  BY <1>6 DEF ExpireDelete, DeleteRoute
<1>7. CASE Cancel
  BY <1>7 DEF Cancel
<1>8. CASE TakeAdded
  BY <1>8 DEF TakeAdded, AddedPrefixes, NoEntry, Entry
<1>9. ASSUME NEW p \in Prefixes, CloseDelete(p) PROVE TypeOK'
  BY <1>9 DEF CloseDelete, DeleteRoute
<1>10. CASE CloseReturns
  BY <1>10 DEF CloseReturns
<1>11. CASE UNCHANGED vars
  BY <1>11 DEF vars
<1> QED
  BY <1>1, <1>2, <1>3, <1>4, <1>5, <1>6, <1>7, <1>8, <1>9, <1>10, <1>11 DEF Next, Reserve

(* Every reachable state is well typed. *)
THEOREM TypeCorrect == Spec => []TypeOK
  BY TypeInit, TypeStep, PTL DEF Spec

-----------------------------------------------------------------------------
(* A step changes the state of entries, and nothing else of them matters to the *)
(* invariants below.  These facts spare each proof the shape of the records.    *)

LEMMA EntryStates ==
  /\ NoEntry.state = "absent"
  /\ \A ttl \in TTLs : [NoEntry EXCEPT !.state = "pending", !.ttl = ttl].state = "pending"
  /\ \A entry \in Entry, ttl \in TTLs :
        /\ [entry EXCEPT !.ttl = ttl].state = entry.state
        /\ ResetTimer([entry EXCEPT !.ttl = ttl]).state = entry.state
<1>1. ASSUME NEW entry \in Entry, NEW ttl \in TTLs
      PROVE  /\ [entry EXCEPT !.ttl = ttl] \in Entry
             /\ [entry EXCEPT !.ttl = ttl].state = entry.state
  BY DEF Entry
<1>2. ASSUME NEW entry \in Entry, NEW ttl \in TTLs
      PROVE  ResetTimer([entry EXCEPT !.ttl = ttl]).state = entry.state
  BY <1>1, ResetTimerType
<1>3. ASSUME NEW ttl \in TTLs
      PROVE  [NoEntry EXCEPT !.state = "pending", !.ttl = ttl].state = "pending"
  BY DEF NoEntry
<1> QED BY <1>1, <1>2, <1>3 DEF NoEntry

\* The states of the entries after each kind of step.
LEMMA ReserveNewStates ==
  ASSUME TypeOK, NEW c \in Callers, NEW p \in Prefixes, NEW ttl \in TTLs,
         ReserveNew(c, p, ttl)
  PROVE  \A q \in Prefixes :
            routes'[q].state = IF q = p THEN "pending" ELSE routes[q].state
  BY EntryStates DEF ReserveNew, TypeOK

LEMMA ReserveAgainStates ==
  ASSUME TypeOK, NEW c \in Callers, NEW p \in Prefixes, NEW ttl \in TTLs,
         ReserveAgain(c, p, ttl)
  PROVE  \A q \in Prefixes : routes'[q].state = routes[q].state
<1>1. routes[p] \in Entry
  BY DEF TypeOK
<1>2. routes'[p].state = routes[p].state
  BY <1>1, EntryStates DEF ReserveAgain, TypeOK
<1> QED BY <1>2 DEF ReserveAgain, TypeOK

LEMMA MarkAddedStates ==
  ASSUME TypeOK, NEW c \in Callers, MarkAdded(c)
  PROVE  /\ target[c] \in Prefixes
         /\ \A q \in Prefixes :
              routes'[q].state = IF q = target[c] /\ routes[q].state # "absent"
                                    THEN "added" ELSE routes[q].state
<1>1. target[c] \in Prefixes
  BY DEF MarkAdded, Finish, Move, TypeOK
<1>2. routes[target[c]] \in Entry
  BY <1>1 DEF TypeOK
<1> QED BY <1>1, <1>2, MarkType DEF MarkAdded, TypeOK

LEMMA ForgetStates ==
  ASSUME TypeOK, NEW c \in Callers, Forget(c)
  PROVE  /\ target[c] \in Prefixes
         /\ \A q \in Prefixes :
              routes'[q].state = IF q = target[c] THEN "absent" ELSE routes[q].state
<1>1. target[c] \in Prefixes
  BY DEF Forget, Finish, Move, TypeOK
<1> QED BY <1>1, EntryStates DEF Forget, TypeOK

LEMMA TickStates ==
  ASSUME TypeOK, Tick
  PROVE  \A q \in Prefixes : routes'[q].state = routes[q].state
  BY DEF Tick, TypeOK, Entry

LEMMA ExpireStates ==
  ASSUME TypeOK, NEW cb \in fired, Expire(cb)
  PROVE  /\ cb.prefix \in Prefixes
         /\ \A q \in Prefixes :
              routes'[q].state = IF q = cb.prefix /\ Current(cb)
                                    THEN "absent" ELSE routes[q].state
<1>1. cb.prefix \in Prefixes
  BY DEF TypeOK, Callback
<1> QED BY <1>1, EntryStates DEF Expire, TypeOK

-----------------------------------------------------------------------------
LEMMA OwnershipInit == Init => RouteOwnership
  BY DEF Init, RouteOwnership, Owned, Installers, NoEntry

LEMMA OwnershipStep == TypeOK /\ RouteOwnership /\ [Next]_vars => RouteOwnership'
<1> SUFFICES ASSUME TypeOK, RouteOwnership, [Next]_vars PROVE RouteOwnership'
  OBVIOUS
<1> USE DEF RouteOwnership, Owned, Installers
<1>1. ASSUME NEW c \in Callers, NEW p \in Prefixes, NEW ttl \in TTLs, ReserveNew(c, p, ttl)
      PROVE  RouteOwnership'
  <2>1. \A q \in Prefixes :
          routes'[q].state = IF q = p THEN "pending" ELSE routes[q].state
    BY <1>1, ReserveNewStates
  <2>2. /\ pc' = [pc EXCEPT ![c] = "reserved"] /\ target' = [target EXCEPT ![c] = p]
        /\ routes[p].state = "absent"
        /\ UNCHANGED <<expiring, kernel, taken>>
    BY <1>1 DEF ReserveNew, Move
  <2>3. \A q \in Prefixes : Installers(q)' \subseteq Installers(q)
    BY <2>2 DEF TypeOK
  <2> QED BY <2>1, <2>2, <2>3
<1>2. ASSUME NEW c \in Callers, NEW p \in Prefixes, NEW ttl \in TTLs, ReserveAgain(c, p, ttl)
      PROVE  RouteOwnership'
  BY <1>2, ReserveAgainStates DEF ReserveAgain
<1>3. ASSUME NEW c \in Callers, CallerStep(c) PROVE RouteOwnership'
  <2>1. CASE StartAdd(c)
    BY <2>1 DEF StartAdd, Move, TypeOK
  <2>2. CASE AddSucceeds(c)
    BY <2>2 DEF AddSucceeds, Move, TypeOK
  <2>3. CASE AddFails(c)
    BY <2>3 DEF AddFails, Move, TypeOK
  <2>4. CASE AddKilled(c)
    BY <2>4 DEF AddKilled, Move, TypeOK
  <2>5. CASE MarkAdded(c)
    BY <2>5, MarkAddedStates DEF MarkAdded, Finish, Move, TypeOK
  <2>6. CASE Forget(c)
    <3>1. /\ target[c] \in Prefixes
          /\ \A q \in Prefixes :
                routes'[q].state = IF q = target[c] THEN "absent" ELSE routes[q].state
      BY <2>6, ForgetStates
    <3>2. /\ pc' = [pc EXCEPT ![c] = "idle"] /\ target' = [target EXCEPT ![c] = None]
          /\ pc[c] = "failed"
          /\ UNCHANGED <<expiring, kernel, taken>>
      BY <2>6 DEF Forget, Finish, Move
    <3>3. \A q \in Prefixes : Installers(q)' = Installers(q)
      BY <3>2, PrefixesAssumption DEF TypeOK
    <3> QED BY <3>1, <3>2, <3>3
  <2> QED BY <1>3, <2>1, <2>2, <2>3, <2>4, <2>5, <2>6 DEF CallerStep
<1>4. CASE Tick
  <2>1. \A q \in Prefixes : routes'[q].state = routes[q].state
    BY <1>4, TickStates
  <2>2. UNCHANGED <<expiring, pc, target, kernel, taken>>
    BY <1>4 DEF Tick
  <2> QED BY <2>1, <2>2
<1>5. ASSUME NEW cb \in fired, Expire(cb) PROVE RouteOwnership'
  BY <1>5, ExpireStates DEF Expire, Current
<1>6. ASSUME NEW p \in Prefixes, ExpireDelete(p) PROVE RouteOwnership'
  BY <1>6 DEF ExpireDelete, DeleteRoute, TypeOK
<1>7. CASE Cancel
  BY <1>7 DEF Cancel
<1>8. CASE TakeAdded
  BY <1>8, EntryStates DEF TakeAdded, AddedPrefixes
<1>9. ASSUME NEW p \in Prefixes, CloseDelete(p) PROVE RouteOwnership'
  BY <1>9 DEF CloseDelete, DeleteRoute, TypeOK
<1>10. CASE CloseReturns
  BY <1>10 DEF CloseReturns
<1>11. CASE UNCHANGED vars
  BY <1>11 DEF vars
<1> QED
  BY <1>1, <1>2, <1>3, <1>4, <1>5, <1>6, <1>7, <1>8, <1>9, <1>10, <1>11 DEF Next, Reserve

(* Every route the program will delete is installed, its own, and has one owner, *)
(* whatever commands fail and whether or not Close waited for the handlers.      *)
THEOREM OwnershipSafe == Spec => []RouteOwnership
<1>1. Init => TypeOK /\ RouteOwnership
  BY TypeInit, OwnershipInit
<1>2. (TypeOK /\ RouteOwnership) /\ [Next]_vars => (TypeOK /\ RouteOwnership)'
  BY TypeStep, OwnershipStep
<1> QED BY <1>1, <1>2, PTL DEF Spec

(* The program deletes only routes it owns, so a route somebody else installed *)
(* for the same prefix is never touched, nor is one ever taken for foreign.    *)
THEOREM ForeignSafe == Spec => ForeignRoutesKept
<1> DEFINE Kept == \A p \in Prefixes : (kernel[p] = "foreign") <=> (kernel'[p] = "foreign")
<1>1. TypeOK /\ RouteOwnership /\ [Next]_vars => [Kept]_vars
  <2> SUFFICES ASSUME TypeOK, RouteOwnership, Next PROVE Kept
    BY DEF vars
  <2>1. ASSUME NEW c \in Callers, CallerStep(c) PROVE Kept
    BY <2>1 DEF CallerStep, StartAdd, AddSucceeds, AddFails, AddKilled, MarkAdded, Forget, TypeOK
  <2>2. ASSUME NEW p \in Prefixes, ExpireDelete(p) PROVE Kept
    BY <2>2 DEF ExpireDelete, DeleteRoute, RouteOwnership, Owned, TypeOK
  <2>3. ASSUME NEW p \in Prefixes, CloseDelete(p) PROVE Kept
    BY <2>3 DEF CloseDelete, DeleteRoute, RouteOwnership, Owned, TypeOK
  <2>4. ASSUME UNCHANGED kernel PROVE Kept
    BY <2>4
  <2> QED
    BY <2>1, <2>2, <2>3, <2>4 DEF Next, Reserve, ReserveNew, ReserveAgain, Tick,
       Expire, Cancel, TakeAdded, CloseReturns
<1>2. Spec => [](TypeOK /\ RouteOwnership)
  BY TypeCorrect, OwnershipSafe, PTL
<1> QED BY <1>1, <1>2, PTL DEF Spec, ForeignRoutesKept

-----------------------------------------------------------------------------
(* From Close on, a drained tunnel has no handlers and an empty set. *)
Drained ==
    closer # "open" =>
        /\ \A c \in Callers : pc[c] = "idle"
        /\ \A p \in Prefixes : routes[p].state = "absent"

ReservationInv == TypeOK /\ ReservationHeld

LEMMA ReservationInit == Init => ReservationHeld
  BY PrefixesAssumption DEF Init, ReservationHeld, NoEntry

LEMMA ReservationStep == ReservationInv /\ [Next]_vars => ReservationHeld'
<1> SUFFICES ASSUME TypeOK, ReservationHeld, [Next]_vars, closer' = "open"
             PROVE  ReservationHeld'
  BY DEF ReservationInv, ReservationHeld
<1>0. closer = "open"
  BY DEF Next, vars, Reserve, ReserveNew, ReserveAgain, CallerStep, StartAdd, AddSucceeds,
     AddFails, AddKilled, MarkAdded, Forget, Tick, Expire, ExpireDelete, Cancel, TakeAdded,
     CloseDelete, CloseReturns
<1> USE <1>0 DEF ReservationHeld
<1>1. ASSUME NEW c \in Callers, NEW p \in Prefixes, NEW ttl \in TTLs, ReserveNew(c, p, ttl)
      PROVE  ReservationHeld'
  <2>1. \A q \in Prefixes :
          routes'[q].state = IF q = p THEN "pending" ELSE routes[q].state
    BY <1>1, ReserveNewStates
  <2>2. target' = [target EXCEPT ![c] = p] /\ routes[p].state = "absent"
        /\ target[c] = None /\ closer' = "open"
    BY <1>1 DEF ReserveNew, Move, TypeOK
  <2> QED BY <2>1, <2>2, PrefixesAssumption DEF TypeOK
<1>2. ASSUME NEW c \in Callers, NEW p \in Prefixes, NEW ttl \in TTLs, ReserveAgain(c, p, ttl)
      PROVE  ReservationHeld'
  <2>1. \A q \in Prefixes : routes'[q].state = routes[q].state
    BY <1>2, ReserveAgainStates
  <2> QED BY <1>2, <2>1 DEF ReserveAgain
<1>3. ASSUME NEW c \in Callers, CallerStep(c) PROVE ReservationHeld'
  <2>1. CASE UNCHANGED <<routes, target, closer>>
    BY <2>1
  <2>2. CASE MarkAdded(c)
    <3>1. /\ target[c] \in Prefixes
          /\ \A q \in Prefixes :
               routes'[q].state = IF q = target[c] /\ routes[q].state # "absent"
                                    THEN "added" ELSE routes[q].state
      BY <2>2, MarkAddedStates
    <3>2. target' = [target EXCEPT ![c] = None]
      BY <2>2 DEF MarkAdded, Finish
    <3> QED BY <3>1, <3>2, PrefixesAssumption DEF TypeOK
  <2>3. CASE Forget(c)
    <3>1. /\ target[c] \in Prefixes
          /\ \A q \in Prefixes :
                routes'[q].state = IF q = target[c] THEN "absent" ELSE routes[q].state
      BY <2>3, ForgetStates
    <3>2. target' = [target EXCEPT ![c] = None]
      BY <2>3 DEF Forget, Finish
    <3> QED BY <3>1, <3>2, PrefixesAssumption DEF TypeOK
  <2> QED
    BY <1>3, <2>1, <2>2, <2>3 DEF CallerStep, StartAdd, AddSucceeds, AddFails, AddKilled
<1>4. CASE Tick
  <2>1. \A q \in Prefixes : routes'[q].state = routes[q].state
    BY <1>4, TickStates
  <2>2. UNCHANGED target
    BY <1>4 DEF Tick
  <2> QED BY <2>1, <2>2
<1>5. ASSUME NEW cb \in fired, Expire(cb) PROVE ReservationHeld'
  <2>1. /\ cb.prefix \in Prefixes
        /\ \A q \in Prefixes :
              routes'[q].state = IF q = cb.prefix /\ Current(cb)
                                    THEN "absent" ELSE routes[q].state
    BY <1>5, ExpireStates
  <2>2. UNCHANGED target
    BY <1>5 DEF Expire
  <2> QED BY <2>1, <2>2 DEF Current
<1>6. CASE UNCHANGED <<routes, target, closer>>
  BY <1>6
<1>7. ~TakeAdded
  BY DEF TakeAdded
<1> QED
  BY <1>1, <1>2, <1>3, <1>4, <1>5, <1>6, <1>7 DEF Next, vars, Reserve, ExpireDelete, Cancel,
     CloseDelete, CloseReturns

(* Until Close, a prefix is reserved exactly while one caller is adding it. *)
THEOREM ReservationSafe == Spec => []ReservationHeld
<1>1. Init => ReservationInv
  BY TypeInit, ReservationInit DEF ReservationInv
<1>2. ReservationInv /\ [Next]_vars => ReservationInv'
  BY TypeStep, ReservationStep DEF ReservationInv
<1>3. ReservationInv => ReservationHeld
  BY DEF ReservationInv
<1> QED BY <1>1, <1>2, <1>3, PTL DEF Spec

-----------------------------------------------------------------------------
(* The conditions under which the tunnel restores the routing table: Close waits *)
(* for the handlers, and a command that reports failure has changed nothing.     *)
Reliable == ~DrainTimeout /\ Faults \subseteq {"add"}

ClosedMeansTaken == closer # "closing" => taken = {}

RestorationInv ==
    TypeOK /\ RouteOwnership /\ ReservationHeld /\ Drained /\ NoOrphanRoute /\ ClosedMeansTaken

LEMMA DrainedStep == ASSUME Reliable, TypeOK, Drained, [Next]_vars PROVE Drained'
<1> USE DEF Drained
<1>1. CASE closer = "open"
  <2>1. CASE TakeAdded
    BY <2>1, EntryStates DEF TakeAdded, Reliable
  <2>2. CASE ~TakeAdded
    BY <1>1, <2>2 DEF Next, vars, Reserve, ReserveNew, ReserveAgain, CallerStep, StartAdd,
       AddSucceeds, AddFails, AddKilled, MarkAdded, Forget, Tick, Expire, ExpireDelete,
       Cancel, CloseDelete, CloseReturns
  <2> QED BY <2>1, <2>2
<1>2. CASE closer # "open"
  <2>1. ASSUME NEW c \in Callers, CallerStep(c) PROVE FALSE
    BY <1>2, <2>1 DEF CallerStep, StartAdd, AddSucceeds, AddFails, AddKilled, MarkAdded,
       Forget, Finish, Move
  <2>2. ASSUME NEW c \in Callers, NEW p \in Prefixes, NEW ttl \in TTLs, Reserve(c, p, ttl)
        PROVE  FALSE
    BY <1>2, <2>2 DEF Reserve, ReserveNew, ReserveAgain, Reliable
  <2>3. CASE Tick
    <3>1. \A q \in Prefixes : routes'[q].state = routes[q].state
      BY <2>3, TickStates
    <3>2. UNCHANGED <<pc, closer>>
      BY <2>3 DEF Tick
    <3> QED BY <1>2, <3>1, <3>2
  <2>4. ASSUME NEW cb \in fired, Expire(cb) PROVE Drained'
    <3>1. \A q \in Prefixes : routes[q].state = "absent" => routes'[q].state = "absent"
      BY <2>4, ExpireStates
    <3>2. UNCHANGED <<pc, closer>>
      BY <2>4 DEF Expire
    <3> QED BY <1>2, <3>1, <3>2
  <2>5. ~TakeAdded
    BY <1>2 DEF TakeAdded
  <2>6. CASE UNCHANGED <<routes, pc>>
    BY <1>2, <2>6
  <2> QED
    BY <2>1, <2>2, <2>3, <2>4, <2>5, <2>6 DEF Next, vars, ExpireDelete, Cancel,
       CloseDelete, CloseReturns
<1> QED BY <1>1, <1>2

LEMMA NoOrphanStep ==
  ASSUME Reliable, RestorationInv, [Next]_vars PROVE NoOrphanRoute'
<1> USE DEF NoOrphanRoute, Owned, Installers
<1>0. TypeOK /\ RouteOwnership /\ ReservationHeld /\ Drained /\ NoOrphanRoute
  BY DEF RestorationInv
<1>1. ASSUME NEW c \in Callers, NEW p \in Prefixes, NEW ttl \in TTLs, ReserveNew(c, p, ttl)
      PROVE  NoOrphanRoute'
  <2>1. \A q \in Prefixes :
          routes'[q].state = IF q = p THEN "pending" ELSE routes[q].state
    BY <1>0, <1>1, ReserveNewStates
  <2>2. /\ pc' = [pc EXCEPT ![c] = "reserved"] /\ target' = [target EXCEPT ![c] = p]
        /\ pc[c] = "idle"
        /\ routes[p].state = "absent"
        /\ UNCHANGED <<expiring, kernel, taken>>
    BY <1>1 DEF ReserveNew, Move
  <2>3. \A q \in Prefixes : Installers(q)' = Installers(q)
    BY <1>0, <2>2 DEF TypeOK
  <2> QED BY <1>0, <2>1, <2>2, <2>3
<1>2. ASSUME NEW c \in Callers, NEW p \in Prefixes, NEW ttl \in TTLs, ReserveAgain(c, p, ttl)
      PROVE  NoOrphanRoute'
  <2>1. \A q \in Prefixes : routes'[q].state = routes[q].state
    BY <1>0, <1>2, ReserveAgainStates
  <2>2. UNCHANGED <<pc, target, expiring, kernel, taken>>
    BY <1>2 DEF ReserveAgain
  <2> QED BY <1>0, <2>1, <2>2
<1>3. ASSUME NEW c \in Callers, CallerStep(c) PROVE NoOrphanRoute'
  <2>0. closer = "open" /\ target[c] \in Prefixes /\ routes[target[c]].state = "pending"
    BY <1>0, <1>3 DEF CallerStep, StartAdd, AddSucceeds, AddFails, AddKilled, MarkAdded,
       Forget, Finish, Move, TypeOK, Drained, ReservationHeld
  <2>1. CASE StartAdd(c)
    BY <1>0, <2>1 DEF StartAdd, Move, TypeOK
  <2>2. CASE AddSucceeds(c)
    BY <1>0, <2>2, <2>0 DEF AddSucceeds, Move, TypeOK
  <2>3. CASE AddFails(c)
    BY <1>0, <2>3 DEF AddFails, Move, TypeOK
  <2>4. ~AddKilled(c)
    BY DEF AddKilled, Reliable
  <2>5. CASE MarkAdded(c)
    <3>1. \A q \in Prefixes :
             routes'[q].state = IF q = target[c] /\ routes[q].state # "absent"
                                    THEN "added" ELSE routes[q].state
      BY <1>0, <2>5, MarkAddedStates
    <3>2. /\ pc' = [pc EXCEPT ![c] = "idle"] /\ target' = [target EXCEPT ![c] = None]
          /\ UNCHANGED <<expiring, kernel, taken>>
      BY <2>5 DEF MarkAdded, Finish, Move
    <3>3. \A q \in Prefixes : q # target[c] => Installers(q)' = Installers(q)
      BY <1>0, <3>2, PrefixesAssumption DEF TypeOK
    <3> QED BY <1>0, <2>0, <3>1, <3>2, <3>3
  <2>6. CASE Forget(c)
    <3>1. \A q \in Prefixes :
             routes'[q].state = IF q = target[c] THEN "absent" ELSE routes[q].state
      BY <1>0, <2>6, ForgetStates
    <3>2. /\ pc' = [pc EXCEPT ![c] = "idle"] /\ target' = [target EXCEPT ![c] = None]
          /\ pc[c] = "failed"
          /\ UNCHANGED <<expiring, kernel, taken>>
      BY <2>6 DEF Forget, Finish, Move
    <3>3. \A q \in Prefixes : Installers(q)' = Installers(q)
      BY <1>0, <3>2, PrefixesAssumption DEF TypeOK
    <3> QED BY <1>0, <2>0, <3>1, <3>2, <3>3
  <2> QED BY <1>3, <2>1, <2>2, <2>3, <2>4, <2>5, <2>6 DEF CallerStep
<1>4. CASE Tick
  <2>1. \A q \in Prefixes : routes'[q].state = routes[q].state
    BY <1>0, <1>4, TickStates
  <2>2. UNCHANGED <<pc, target, expiring, kernel, taken>>
    BY <1>4 DEF Tick
  <2> QED BY <1>0, <2>1, <2>2
<1>5. ASSUME NEW cb \in fired, Expire(cb) PROVE NoOrphanRoute'
  <2>1. /\ cb.prefix \in Prefixes
        /\ \A q \in Prefixes :
              routes'[q].state = IF q = cb.prefix /\ Current(cb)
                                    THEN "absent" ELSE routes[q].state
    BY <1>0, <1>5, ExpireStates
  <2>2. /\ expiring' = IF Current(cb) THEN expiring \cup {cb.prefix} ELSE expiring
        /\ UNCHANGED <<pc, target, kernel, taken>>
    BY <1>5 DEF Expire
  <2> QED BY <1>0, <2>1, <2>2
<1>6. ASSUME NEW p \in Prefixes, ExpireDelete(p) PROVE NoOrphanRoute'
  BY <1>0, <1>6 DEF ExpireDelete, DeleteRoute, TypeOK, Reliable
<1>7. CASE TakeAdded
  <2>1. /\ taken' = {q \in Prefixes : routes[q].state = "added"}
        /\ UNCHANGED <<pc, target, expiring, kernel>>
        /\ closer = "open"
    BY <1>7 DEF TakeAdded, AddedPrefixes
  <2>2. taken = {}
    BY <2>1 DEF RestorationInv, ClosedMeansTaken
  <2> QED BY <1>0, <2>1, <2>2
<1>8. ASSUME NEW p \in Prefixes, CloseDelete(p) PROVE NoOrphanRoute'
  BY <1>0, <1>8 DEF CloseDelete, DeleteRoute, TypeOK, Reliable
<1>9. CASE UNCHANGED <<routes, expiring, pc, target, kernel, taken>>
  BY <1>0, <1>9
<1> QED
  BY <1>1, <1>2, <1>3, <1>4, <1>5, <1>6, <1>7, <1>8, <1>9 DEF Next, vars, Reserve, Cancel,
     CloseReturns

LEMMA RestorationInit == Init => RestorationInv
  BY TypeInit, OwnershipInit, ReservationInit
  DEF RestorationInv, Init, Drained, NoOrphanRoute, ClosedMeansTaken

LEMMA RestorationStep ==
  ASSUME Reliable, RestorationInv, [Next]_vars PROVE RestorationInv'
<1>1. TypeOK' /\ RouteOwnership' /\ ReservationHeld'
  BY TypeStep, OwnershipStep, ReservationStep DEF RestorationInv, ReservationInv
<1>2. Drained'
  BY DrainedStep DEF RestorationInv
<1>3. NoOrphanRoute'
  BY NoOrphanStep
<1>4. ClosedMeansTaken'
  BY DEF RestorationInv, ClosedMeansTaken, TypeOK, Next, vars, Reserve, ReserveNew,
     ReserveAgain, CallerStep, StartAdd, AddSucceeds, AddFails, AddKilled, MarkAdded,
     Forget, Tick, Expire, ExpireDelete, Cancel, TakeAdded, CloseDelete, CloseReturns
<1> QED BY <1>1, <1>2, <1>3, <1>4 DEF RestorationInv

LEMMA RestorationInvariant == ASSUME Reliable PROVE Spec => []RestorationInv
<1>1. RestorationInv /\ [Next]_vars => RestorationInv'
  BY RestorationStep
<1> QED BY <1>1, RestorationInit, PTL DEF Spec

(* A tunnel whose handlers are drained and whose failing commands change nothing *)
(* never loses track of a route it installed.                                    *)
THEOREM NoOrphanSafe == ASSUME Reliable PROVE Spec => []NoOrphanRoute
<1>1. RestorationInv => NoOrphanRoute
  BY DEF RestorationInv
<1> QED BY <1>1, RestorationInvariant, PTL

(* Under the same conditions, no bypass route is left when Close has returned *)
(* and the callbacks it found running have ended.                             *)
THEOREM RestoredSafe == ASSUME Reliable PROVE Spec => []RestoredAfterClose
<1>1. RestorationInv => RestoredAfterClose
  BY DEF RestorationInv, RestoredAfterClose, NoOrphanRoute, Owned, Installers, Drained,
     ClosedMeansTaken
<1> QED BY <1>1, RestorationInvariant, PTL

-----------------------------------------------------------------------------
(* Until Close, with callbacks that get s.mu before the next tick: at most one  *)
(* callback of a prefix is waiting, its entry is still there, and the timer of  *)
(* that entry is armed again if and only if the callback is stale.              *)
CallbackInv ==
    closer = "open" =>
        /\ \A p \in Prefixes : routes[p].state # "added" => routes[p].timer = 0
        /\ \A cb \in fired :
              /\ routes[cb.prefix].state = "added"
              /\ cb.generation <= routes[cb.prefix].generation
              /\ cb.generation = routes[cb.prefix].generation => routes[cb.prefix].timer = 0
        /\ \A cb, other \in fired : cb.prefix = other.prefix => cb = other

LeaseInv == TypeOK /\ ReservationHeld /\ CallbackInv

\* What re-arming does to the other fields of an entry.
LEMMA ResetTimerFields ==
  ASSUME NEW entry \in Entry
  PROVE  ResetTimer(entry).generation = entry.generation + 1
  BY DEF Entry, ResetTimer

LEMMA ReserveAgainFields ==
  ASSUME TypeOK, NEW c \in Callers, NEW p \in Prefixes, NEW ttl \in TTLs,
         ReserveAgain(c, p, ttl)
  PROVE  /\ \A q \in Prefixes : q # p => routes'[q] = routes[q]
         /\ routes[p].state = "added" => routes'[p].generation = routes[p].generation + 1
         /\ routes[p].state # "added" => routes'[p].timer = routes[p].timer
<1> DEFINE entry == [routes[p] EXCEPT !.ttl = ttl]
<1>1. /\ entry \in Entry /\ entry.state = routes[p].state
      /\ entry.generation = routes[p].generation /\ entry.timer = routes[p].timer
  BY DEF TypeOK, Entry
<1>2. routes' = [routes EXCEPT ![p] =
                  IF entry.state = "added" THEN ResetTimer(entry) ELSE entry]
  BY DEF ReserveAgain
<1> HIDE DEF entry
<1> QED BY <1>1, <1>2, ResetTimerFields DEF TypeOK

LEMMA CallbackStep ==
  ASSUME PromptTimers, LeaseInv, [Next]_vars PROVE CallbackInv'
<1> SUFFICES ASSUME closer' = "open" PROVE CallbackInv'
  BY DEF CallbackInv
<1>0. closer = "open" /\ TypeOK /\ ReservationHeld /\ CallbackInv
  BY DEF LeaseInv, Next, vars, Reserve, ReserveNew, ReserveAgain, CallerStep, StartAdd,
     AddSucceeds, AddFails, AddKilled, MarkAdded, Forget, Tick, Expire, ExpireDelete, Cancel,
     TakeAdded, CloseDelete, CloseReturns
<1>t. \A cb \in fired : cb \in Callback /\ cb.prefix \in Prefixes /\ cb.generation \in Nat
  BY <1>0 DEF TypeOK, Callback
<1>g. \A p \in Prefixes : routes[p].generation \in Nat /\ routes[p].timer \in Nat
  BY <1>0 DEF TypeOK, Entry
<1>1. ASSUME NEW c \in Callers, NEW p \in Prefixes, NEW ttl \in TTLs, ReserveNew(c, p, ttl)
      PROVE  CallbackInv'
  <2>1. /\ routes'[p].state = "pending" /\ routes'[p].timer = 0
        /\ \A q \in Prefixes : q # p => routes'[q] = routes[q]
        /\ routes[p].state = "absent" /\ fired' = fired
    BY <1>0, <1>1 DEF ReserveNew, TypeOK, NoEntry
  <2> QED BY <1>0, <1>t, <2>1 DEF CallbackInv
<1>2. ASSUME NEW c \in Callers, NEW p \in Prefixes, NEW ttl \in TTLs, ReserveAgain(c, p, ttl)
      PROVE  CallbackInv'
  <2>1. \A q \in Prefixes : routes'[q].state = routes[q].state
    BY <1>0, <1>2, ReserveAgainStates
  <2>2. fired' = fired
    BY <1>2 DEF ReserveAgain
  <2> QED BY <1>0, <1>2, <1>t, <1>g, <2>1, <2>2, ReserveAgainFields DEF CallbackInv
<1>3. ASSUME NEW c \in Callers, CallerStep(c) PROVE CallbackInv'
  <2>1. CASE UNCHANGED <<routes, fired>>
    BY <1>0, <2>1 DEF CallbackInv
  <2>2. CASE MarkAdded(c) \/ Forget(c)
    <3>1. target[c] \in Prefixes /\ routes[target[c]].state = "pending"
      BY <1>0, <2>2, MarkAddedStates, ForgetStates DEF ReservationHeld
    <3>2. /\ \A q \in Prefixes : q # target[c] => routes'[q] = routes[q]
          /\ routes'[target[c]].state # "added" => routes'[target[c]].timer = 0
          /\ fired' = fired
      <4>1. CASE MarkAdded(c)
        BY <1>0, <3>1, <4>1, MarkAddedStates DEF MarkAdded, TypeOK
      <4>2. CASE Forget(c)
        BY <1>0, <3>1, <4>2 DEF Forget, TypeOK, NoEntry
      <4> QED BY <2>2, <4>1, <4>2
    <3> QED BY <1>0, <1>t, <3>1, <3>2 DEF CallbackInv
  <2> QED
    BY <1>3, <2>1, <2>2 DEF CallerStep, StartAdd, AddSucceeds, AddFails, AddKilled
<1>4. CASE Tick
  <2>1. fired = {}
    BY <1>4 DEF Tick
  <2>2. \A q \in Prefixes :
          /\ routes'[q].state = routes[q].state
          /\ routes'[q].generation = routes[q].generation
          /\ routes[q].timer \in {0, 1} => routes'[q].timer = 0
    BY <1>0, <1>4, <1>g DEF Tick, TypeOK, Entry
  <2>3. \A cb \in fired' : \E p \in Prefixes :
          routes[p].timer = 1 /\ cb = [prefix |-> p, generation |-> routes[p].generation]
    BY <1>4, <2>1 DEF Tick
  <2> QED BY <1>0, <1>g, <2>2, <2>3 DEF CallbackInv
<1>5. ASSUME NEW cb \in fired, Expire(cb) PROVE CallbackInv'
  <2>1. /\ fired' = fired \ {cb}
        /\ routes' = IF Current(cb) THEN [routes EXCEPT ![cb.prefix] = NoEntry] ELSE routes
    BY <1>5 DEF Expire
  <2>2. CASE Current(cb)
    <3>1. /\ \A q \in Prefixes : q # cb.prefix => routes'[q] = routes[q]
          /\ routes'[cb.prefix].timer = 0
      BY <1>0, <1>t, <2>1, <2>2 DEF TypeOK, NoEntry
    <3> QED BY <1>0, <1>t, <2>1, <3>1 DEF CallbackInv
  <2>3. CASE ~Current(cb)
    BY <1>0, <2>1, <2>3 DEF CallbackInv
  <2> QED BY <2>2, <2>3
<1>6. CASE UNCHANGED <<routes, fired>>
  BY <1>0, <1>6 DEF CallbackInv
<1>7. ~TakeAdded
  BY DEF TakeAdded
<1> QED
  BY <1>1, <1>2, <1>3, <1>4, <1>5, <1>6, <1>7 DEF Next, vars, Reserve, ExpireDelete, Cancel,
     CloseDelete, CloseReturns

LEMMA LeaseInit == Init => LeaseInv
  BY TypeInit, ReservationInit DEF LeaseInv, Init, CallbackInv, NoEntry

LEMMA LeaseStep == PromptTimers /\ LeaseInv /\ [Next]_vars => LeaseInv'
  BY TypeStep, ReservationStep, CallbackStep DEF LeaseInv, ReservationInv

\* What a step may not do to an entry, as LeaseHonoured says it.
Honoured ==
    \A p \in Prefixes :
        /\ closer = "open" /\ closer' = "open"
        /\ routes[p].state = "added" /\ routes'[p].state # "added"
        => routes[p].timer = 0

LEMMA HonouredStep == LeaseInv /\ Next => Honoured
<1> SUFFICES ASSUME LeaseInv, Next, NEW p \in Prefixes, closer = "open", closer' = "open",
                    routes[p].state = "added", routes'[p].state # "added"
             PROVE  routes[p].timer = 0
  BY DEF Honoured
<1>0. TypeOK /\ ReservationHeld /\ CallbackInv
  BY DEF LeaseInv
<1>1. ASSUME NEW c \in Callers, CallerStep(c) PROVE FALSE
  <2>1. CASE MarkAdded(c)
    BY <1>0, <2>1, MarkAddedStates
  <2>2. CASE Forget(c)
    BY <1>0, <2>2, ForgetStates DEF ReservationHeld
  <2> QED
    BY <1>1, <2>1, <2>2 DEF CallerStep, StartAdd, AddSucceeds, AddFails, AddKilled
<1>2. ASSUME NEW c \in Callers, NEW q \in Prefixes, NEW ttl \in TTLs, Reserve(c, q, ttl)
      PROVE  FALSE
  <2>1. CASE ReserveNew(c, q, ttl)
    BY <1>0, <2>1 DEF ReserveNew, TypeOK
  <2>2. CASE ReserveAgain(c, q, ttl)
    BY <1>0, <2>2, ReserveAgainStates
  <2> QED BY <1>2, <2>1, <2>2 DEF Reserve
<1>3. ~Tick
  BY <1>0, TickStates
<1>4. ASSUME NEW cb \in fired, Expire(cb) PROVE routes[p].timer = 0
  <2>1. p = cb.prefix /\ Current(cb)
    BY <1>0, <1>4, ExpireStates
  <2> QED BY <1>0, <2>1 DEF Current, CallbackInv
<1>5. ~TakeAdded
  BY DEF TakeAdded
<1> QED
  BY <1>1, <1>2, <1>3, <1>4, <1>5 DEF Next, ExpireDelete, Cancel, CloseDelete, CloseReturns

(* While callbacks are prompt against the lifetimes, a refreshed route is never *)
(* expired by a callback from before its refresh.                               *)
THEOREM LeaseSafe == ASSUME PromptTimers PROVE Spec => LeaseHonoured
<1>1. LeaseInv /\ [Next]_vars => LeaseInv'
  BY LeaseStep
<1>2. LeaseInv /\ [Next]_vars => [Honoured]_vars
  BY HonouredStep
<1> QED BY <1>1, <1>2, LeaseInit, PTL DEF Spec, LeaseHonoured, Honoured

-----------------------------------------------------------------------------
(* The handlers *)

\* Types of the handlers' variables.  A handler inside AddBypassRoute is at the
\* address it asks a route for, and one that serves nobody has been told nothing.
HandlerInv ==
    /\ serving \in [Callers -> {"idle", "routing", "answered", "refused"}]
    /\ left \in [Callers -> Seq(Prefixes)]
    /\ told \in [Callers -> SUBSET Prefixes]
    /\ gone \in [Callers -> SUBSET Prefixes]
    /\ \A c \in Callers :
          /\ pc[c] # "idle" =>
                serving[c] = "routing" /\ left[c] # <<>> /\ Head(left[c]) = target[c]
          /\ serving[c] = "idle" => told[c] = {}

\* A Close that waits for the handlers finds none, and no new one gets a configuration.
ClosedMeansServed ==
    closer # "open" => ctx = "cancelled" /\ \A c \in Callers : serving[c] = "idle"

\* What is behind an address a client was told: an entry, whose command may still run.
ToldHasEntry ==
    \A c \in Callers : \A p \in told[c] \ Static :
        routes[p].state # "absent" \/ p \in gone[c]

RoutesInv == TypeOK /\ RouteOwnership /\ ReservationHeld

BackingInv == RoutesInv /\ HandlerInv /\ ClosedMeansServed /\ ToldHasEntry

-----------------------------------------------------------------------------
(* A step of the handlers is, for the routes, a step of DynamicRoutes.          *)

LEMMA AnswersInitImplements == AnswersInit => Init
  BY DEF AnswersInit

LEMMA HeadAsked ==
  ASSUME HandlerInv, NEW c \in Callers, left[c] # <<>>
  PROVE  Head(left[c]) \in Prefixes /\ Tail(left[c]) \in Seq(Prefixes)
  BY DEF HandlerInv

LEMMA AnswersStepImplements == HandlerInv /\ [AnswersNext]_allVars => [Next]_vars
<1> SUFFICES ASSUME HandlerInv, AnswersNext PROVE Next \/ UNCHANGED vars
  BY DEF allVars, vars
<1>1. ASSUME NEW c \in Callers, HandlerStep(c) PROVE Next \/ UNCHANGED vars
  <2>1. ASSUME NEW ttl \in TTLs, AskNew(c, ttl) PROVE Next
    BY <2>1, HeadAsked DEF AskNew, AtNext, Next, Reserve
  <2>2. ASSUME NEW ttl \in TTLs, AskAgain(c, ttl) PROVE Next
    BY <2>2, HeadAsked DEF AskAgain, AtNext, Next, Reserve
  <2>3. CASE RouteAdded(c) \/ RouteRefused(c) \/ CommandStep(c)
    BY <2>3 DEF RouteAdded, RouteRefused, CommandStep, Next, CallerStep
  <2>4. CASE SkipStatic(c) \/ Release(c) \/ HandlerReturns(c)
    BY <2>4 DEF SkipStatic, Release, HandlerReturns
  <2> QED BY <1>1, <2>1, <2>2, <2>3, <2>4 DEF HandlerStep
<1>2. ASSUME NEW c \in Callers, NEW a \in Answers, Receive(c, a) PROVE UNCHANGED vars
  BY <1>2 DEF Receive
<1>3. ASSUME NEW cb \in fired, LeaseEnds(cb) PROVE Next
  BY <1>3 DEF LeaseEnds, Next
<1>4. CASE Tick \/ Cancel \/ CloseReturns \/ CloseRoutes
  BY <1>4 DEF CloseRoutes, Next
<1>5. ASSUME NEW p \in Prefixes, ExpireDelete(p) \/ CloseDelete(p) PROVE Next
  BY <1>5 DEF Next
<1> QED BY <1>1, <1>2, <1>3, <1>4, <1>5 DEF AnswersNext

-----------------------------------------------------------------------------
(* The handlers                                                                 *)

LEMMA HandlerInit == AnswersInit => HandlerInv
  BY DEF AnswersInit, Init, HandlerInv

\* Outside the handlers' own steps their variables and the callers' stay put.
LEMMA HandlerStepInv ==
  ASSUME TypeOK, HandlerInv, [AnswersNext]_allVars PROVE HandlerInv'
<1> USE DEF HandlerInv
<1>1. ASSUME NEW c \in Callers, NEW a \in Answers, Receive(c, a) PROVE HandlerInv'
  BY <1>1, AnswersAssumption DEF Receive, vars
<1>2. ASSUME NEW c \in Callers, SkipStatic(c) PROVE HandlerInv'
  BY <1>2, HeadAsked DEF SkipStatic, AtNext, Accept, vars
<1>3. ASSUME NEW c \in Callers, NEW ttl \in TTLs, AskNew(c, ttl) PROVE HandlerInv'
  BY <1>3 DEF AskNew, AtNext, ReserveNew, Move, handlerVars, TypeOK
<1>4. ASSUME NEW c \in Callers, NEW ttl \in TTLs, AskAgain(c, ttl) PROVE HandlerInv'
  BY <1>4, HeadAsked DEF AskAgain, AtNext, ReserveAgain, Accept
<1>5. ASSUME NEW c \in Callers, RouteAdded(c) PROVE HandlerInv'
  <2>1. /\ pc[c] = "installed" /\ pc' = [pc EXCEPT ![c] = "idle"]
        /\ target' = [target EXCEPT ![c] = None]
    BY <1>5 DEF RouteAdded, MarkAdded, Finish, Move
  <2> QED BY <1>5, <2>1, HeadAsked DEF RouteAdded, Accept, TypeOK
<1>6. ASSUME NEW c \in Callers, RouteRefused(c) PROVE HandlerInv'
  <2>1. /\ pc[c] = "failed" /\ pc' = [pc EXCEPT ![c] = "idle"]
        /\ target' = [target EXCEPT ![c] = None]
    BY <1>6 DEF RouteRefused, Forget, Finish, Move
  <2> QED BY <1>6, <2>1 DEF RouteRefused, GiveUp, TypeOK
<1>7. ASSUME NEW c \in Callers, Release(c) \/ HandlerReturns(c) PROVE HandlerInv'
  <2>1. CASE Release(c)
    BY <2>1 DEF Release, vars
  <2>2. CASE HandlerReturns(c)
    <3>1. pc[c] = "idle" /\ <<>> \in Seq(Prefixes)
      BY <2>2 DEF HandlerReturns, TypeOK
    <3> QED BY <2>2, <3>1 DEF HandlerReturns, vars
  <2> QED BY <1>7, <2>1, <2>2
<1>8. ASSUME NEW c \in Callers, CommandStep(c), UNCHANGED handlerVars PROVE HandlerInv'
  BY <1>8 DEF CommandStep, StartAdd, AddSucceeds, AddFails, AddKilled, Move, handlerVars, TypeOK
<1>9. ASSUME NEW cb \in fired, LeaseEnds(cb) PROVE HandlerInv'
  BY <1>9 DEF LeaseEnds, Expire, GiveUp
<1>10. CASE UNCHANGED <<pc, target, handlerVars>>
  BY <1>10 DEF handlerVars
<1> QED
  BY <1>1, <1>2, <1>3, <1>4, <1>5, <1>6, <1>7, <1>8, <1>9, <1>10
  DEF AnswersNext, HandlerStep, allVars, vars, Tick, Cancel, CloseReturns, ExpireDelete,
      CloseDelete, CloseRoutes, TakeAdded

(* The program with its handlers refines the dynamic routes alone: no handler   *)
(* makes the route set, its timers or its Close do what DynamicRoutes does not. *)
THEOREM AnswersImplementRoutes == AnswersSpec => Init /\ [][Next]_vars
<1>1. AnswersInit => TypeOK /\ HandlerInv
  BY AnswersInitImplements, TypeInit, HandlerInit
<1>2. TypeOK /\ HandlerInv /\ [AnswersNext]_allVars => (TypeOK /\ HandlerInv)'
  BY TypeStep, AnswersStepImplements, HandlerStepInv
<1> QED BY <1>1, <1>2, AnswersInitImplements, AnswersStepImplements, PTL DEF AnswersSpec

(* Until Close, every prefix a handler is adding is pending, by that handler    *)
(* alone, although handlers and timers come in any order.                       *)
THEOREM AnswersReservationSafe == AnswersSpec => []ReservationHeld
<1>1. Init => ReservationInv
  BY TypeInit, ReservationInit DEF ReservationInv
<1>2. ReservationInv /\ [Next]_vars => ReservationInv'
  BY TypeStep, ReservationStep DEF ReservationInv
<1>3. ReservationInv => ReservationHeld
  BY DEF ReservationInv
<1> QED BY <1>1, <1>2, <1>3, AnswersImplementRoutes, PTL

(* While handlers add routes on behalf of answers, none they added is ever      *)
(* without an owner.                                                            *)
THEOREM AnswersNoOrphanSafe == ASSUME Reliable PROVE AnswersSpec => []NoOrphanRoute
<1>1. RestorationInv /\ [Next]_vars => RestorationInv'
  BY RestorationStep
<1>2. RestorationInv => NoOrphanRoute
  BY DEF RestorationInv
<1> QED BY <1>1, <1>2, RestorationInit, AnswersImplementRoutes, PTL

(* A later answer's refresh is not undone by a callback from before it.         *)
THEOREM AnswersLeaseSafe == ASSUME PromptTimers PROVE AnswersSpec => LeaseHonoured
<1>1. LeaseInv /\ [Next]_vars => LeaseInv'
  BY LeaseStep
<1>2. LeaseInv /\ [Next]_vars => [Honoured]_vars
  BY HonouredStep
<1> QED BY <1>1, <1>2, LeaseInit, AnswersImplementRoutes, PTL DEF LeaseHonoured, Honoured

-----------------------------------------------------------------------------
(* What an answer promises                                                      *)

LEMMA BackingInit == AnswersInit => BackingInv
<1>1. AnswersInit => RoutesInv
  BY AnswersInitImplements, TypeInit, OwnershipInit, ReservationInit DEF RoutesInv
<1>2. AnswersInit => ClosedMeansServed /\ ToldHasEntry
  BY DEF AnswersInit, Init, ClosedMeansServed, ToldHasEntry
<1> QED BY <1>1, <1>2, HandlerInit DEF BackingInv

LEMMA RoutesStep ==
  ASSUME RoutesInv, HandlerInv, [AnswersNext]_allVars PROVE RoutesInv'
  BY AnswersStepImplements, TypeStep, OwnershipStep, ReservationStep DEF RoutesInv, ReservationInv

\* After Close no handler moves: those that served have returned.
LEMMA ServedStep ==
  ASSUME ~DrainTimeout, HandlerInv, ClosedMeansServed, [AnswersNext]_allVars
  PROVE  ClosedMeansServed'
<1> USE DEF ClosedMeansServed
<1>1. ASSUME NEW c \in Callers, HandlerStep(c) PROVE closer = "open" /\ closer' = "open"
  BY <1>1 DEF HandlerInv, HandlerStep, SkipStatic, AskNew, AskAgain, AtNext, RouteAdded,
     RouteRefused, Release, HandlerReturns, CommandStep, ReserveNew, ReserveAgain, MarkAdded,
     Forget, Finish, StartAdd, AddSucceeds, AddFails, AddKilled, Move, vars
<1>2. ASSUME NEW c \in Callers, NEW a \in Answers, Receive(c, a)
      PROVE  closer = "open" /\ closer' = "open"
  BY <1>2 DEF Receive, vars
<1>3. ASSUME NEW cb \in fired, LeaseEnds(cb) PROVE UNCHANGED <<closer, ctx, serving>>
  BY <1>3 DEF LeaseEnds, Expire
<1>4. CASE CloseRoutes
  BY <1>4 DEF CloseRoutes, TakeAdded, handlerVars
<1>5. CASE UNCHANGED <<closer, ctx, serving>>
  BY <1>5
<1>6. CASE CloseReturns /\ UNCHANGED handlerVars
  BY <1>6 DEF CloseReturns, handlerVars
<1>7. CASE Cancel /\ UNCHANGED handlerVars
  BY <1>7 DEF Cancel, handlerVars
<1> QED
  BY <1>1, <1>2, <1>3, <1>4, <1>5, <1>6, <1>7
  DEF AnswersNext, allVars, vars, handlerVars, Tick, ExpireDelete, CloseDelete

LEMMA ToldStep ==
  ASSUME ~DrainTimeout, BackingInv, [AnswersNext]_allVars PROVE ToldHasEntry'
<1> USE DEF ToldHasEntry
<1>0. TypeOK /\ ReservationHeld /\ HandlerInv /\ ClosedMeansServed /\ ToldHasEntry
  BY DEF BackingInv, RoutesInv
<1>t. /\ told \in [Callers -> SUBSET Prefixes]
      /\ gone \in [Callers -> SUBSET Prefixes]
  BY <1>0 DEF HandlerInv
<1>1. ASSUME NEW c \in Callers, NEW ttl \in TTLs, AskNew(c, ttl) PROVE ToldHasEntry'
  <2>1. \A q \in Prefixes : routes[q].state # "absent" => routes'[q].state # "absent"
    BY <1>0, <1>1, HeadAsked, ReserveNewStates DEF AskNew, AtNext
  <2>2. UNCHANGED <<told, gone>>
    BY <1>1 DEF AskNew, handlerVars
  <2> QED BY <1>0, <1>t, <2>1, <2>2
<1>2. ASSUME NEW c \in Callers, NEW ttl \in TTLs, AskAgain(c, ttl) PROVE ToldHasEntry'
  <2>1. /\ Head(left[c]) \in Prefixes /\ routes[Head(left[c])].state # "absent"
        /\ \A q \in Prefixes : routes'[q].state = routes[q].state
    BY <1>0, <1>2, HeadAsked, ReserveAgainStates DEF AskAgain, AtNext, ReserveAgain
  <2>2. /\ told' = [told EXCEPT ![c] = @ \cup {Head(left[c])}]
        /\ gone' = gone
    BY <1>2 DEF AskAgain, Accept
  <2> QED BY <1>0, <1>t, <2>1, <2>2
<1>3. ASSUME NEW c \in Callers, RouteAdded(c) PROVE ToldHasEntry'
  <2>1. closer = "open" /\ Head(left[c]) = target[c] /\ target[c] \in Prefixes
    BY <1>0, <1>3, MarkAddedStates
    DEF RouteAdded, MarkAdded, Finish, Move, HandlerInv, ClosedMeansServed
  <2>2. /\ routes[target[c]].state # "absent"
        /\ \A q \in Prefixes : routes[q].state # "absent" => routes'[q].state # "absent"
    BY <1>0, <1>3, <2>1, MarkAddedStates DEF RouteAdded, ReservationHeld
  <2>3. /\ told' = [told EXCEPT ![c] = @ \cup {target[c]}]
        /\ gone' = gone
    BY <1>3, <2>1 DEF RouteAdded, Accept
  <2> QED BY <1>0, <1>t, <2>1, <2>2, <2>3
<1>4. ASSUME NEW c \in Callers, RouteRefused(c) PROVE ToldHasEntry'
  <2>1. /\ target[c] \in Prefixes
        /\ \A q \in Prefixes : q # target[c] => routes'[q].state = routes[q].state
    BY <1>0, <1>4, ForgetStates DEF RouteRefused
  <2>2. /\ gone' = [d \in Callers |-> gone[d] \cup ({target[c]} \cap told[d])]
        /\ told' = told
    BY <1>4 DEF RouteRefused, GiveUp
  <2> QED BY <1>0, <1>t, <2>1, <2>2
<1>5. ASSUME NEW c \in Callers, SkipStatic(c) PROVE ToldHasEntry'
  BY <1>0, <1>5, <1>t DEF SkipStatic, Accept, vars
<1>6. ASSUME NEW c \in Callers, HandlerReturns(c) PROVE ToldHasEntry'
  BY <1>0, <1>6, <1>t DEF HandlerReturns, vars
<1>7. ASSUME NEW cb \in fired, LeaseEnds(cb) PROVE ToldHasEntry'
  <2>1. /\ cb.prefix \in Prefixes
        /\ \A q \in Prefixes :
              routes'[q].state = IF q = cb.prefix /\ Current(cb)
                                    THEN "absent" ELSE routes[q].state
    BY <1>0, <1>7, ExpireStates DEF LeaseEnds
  <2>2. /\ told' = told
        /\ Current(cb) => gone' = [d \in Callers |-> gone[d] \cup ({cb.prefix} \cap told[d])]
        /\ ~Current(cb) => gone' = gone
    BY <1>7 DEF LeaseEnds, GiveUp
  <2> QED BY <1>0, <1>t, <2>1, <2>2
<1>8. CASE CloseRoutes
  BY <1>0, <1>8 DEF CloseRoutes, HandlerInv, handlerVars
<1>9. CASE Tick /\ UNCHANGED handlerVars
  BY <1>0, <1>t, <1>9, TickStates DEF handlerVars
<1>10. CASE UNCHANGED <<routes, told, gone>>
  BY <1>0, <1>t, <1>10
<1> QED
  BY <1>1, <1>2, <1>3, <1>4, <1>5, <1>6, <1>7, <1>8, <1>9, <1>10
  DEF AnswersNext, HandlerStep, Receive, Release, CommandStep, StartAdd, AddSucceeds, AddFails,
      AddKilled, Cancel, CloseReturns, ExpireDelete, CloseDelete, allVars, vars, handlerVars

LEMMA BackingInvariant == ASSUME ~DrainTimeout PROVE AnswersSpec => []BackingInv
<1>1. BackingInv /\ [AnswersNext]_allVars => BackingInv'
  BY RoutesStep, HandlerStepInv, ServedStep, ToldStep DEF BackingInv, RoutesInv
<1> QED BY <1>1, BackingInit, PTL DEF AnswersSpec

(* With a Close that waits for the handlers, an address a client was told leaves *)
(* the tunnel, is being routed by another handler, or has been given up since:   *)
(* whatever the commands do, and whoever asked for the route first.              *)
THEOREM AnswerSafe == ASSUME ~DrainTimeout PROVE AnswersSpec => []AnswerBacked
<1>1. BackingInv => AnswerBacked
  <2> SUFFICES ASSUME BackingInv, NEW c \in Callers, NEW p \in told[c] \ Static, p \notin gone[c]
               PROVE  kernel[p] = "bypass" \/ \E d \in Callers : target[d] = p
    BY DEF AnswerBacked
  <2>1. p \in Prefixes /\ closer = "open" /\ routes[p].state # "absent"
    BY DEF BackingInv, HandlerInv, ClosedMeansServed, ToldHasEntry
  <2>2. routes[p].state \in {"absent", "pending", "added"}
    BY <2>1 DEF BackingInv, RoutesInv, TypeOK, Entry
  <2>3. CASE routes[p].state = "added"
    BY <2>1, <2>3 DEF BackingInv, RoutesInv, RouteOwnership, Owned
  <2>4. CASE routes[p].state = "pending"
    BY <2>1, <2>4 DEF BackingInv, RoutesInv, ReservationHeld
  <2> QED BY <2>1, <2>2, <2>3, <2>4
<1> QED BY <1>1, BackingInvariant, PTL
=============================================================================
