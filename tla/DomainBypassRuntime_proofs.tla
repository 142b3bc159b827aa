--------------------- MODULE DomainBypassRuntime_proofs ---------------------
(***************************************************************************)
(* Theorems about DomainBypassRuntime.  What Start, Close and the handlers *)
(* promise whatever their order follows from the invariant IInv; that no   *)
(* server is left listening needs the order in which the tunnel calls      *)
(* them, and OrderInv.                                                     *)
(***************************************************************************)
EXTENDS DomainBypassRuntime, TLAPS

\* A server runs only once its Start has published it, ends with its socket closed
\* unless it was never activated, and what it returned goes into "done".
ServerInv ==
    \A s \in Starters :
        /\ starting[s] \in {"idle", "listening"} => serve[s] = "none"
        /\ serve[s] \in {"draining", "ended"} => outcome[s] # "none"
        /\ serve[s] = "ended" => socket[s] = "closed" \/ started[s] = "new"
        /\ done[s] # "empty" => serve[s] = "ended"
        /\ done[s] = "nil" => outcome[s] = "nil"

\* A Start releases what it took on every way out; only a server that was never
\* activated may have left it an open socket.
ReleaseInv ==
    \A s \in Starters :
        /\ starting[s] = "idle" => socket[s] = "none" /\ \A c \in Calls : own[c] # s
        /\ starting[s] \in {"draining", "failed"} => socket[s] # "open" \/ NeverActivated(s)
        /\ registered = s => starting[s] \in {"selecting", "cancelling", "ok"}

\* A Close that has shut its server down, and one that has returned nil.
ShutInv ==
    \A c \in Calls :
        /\ closing[c] = "finishing" => serve[own[c]] = "ended"
        /\ closing[c] = "ok" /\ own[c] # None =>
                serve[own[c]] = "ended" /\ outcome[own[c]] = "nil"

\* A handler keeps its server from ending, and an answer waits for its routes.
HandlingInv ==
    \A h \in Handlers :
        /\ request[h].server # None => serve[request[h].server] \in {"serving", "draining"}
        /\ handling[h] = "adding" => request[h].unrouted = request[h].left
        /\ handling[h] = "answered" => request[h].unrouted = 0

IInv == TypeOK /\ ServerInv /\ ReleaseInv /\ ShutInv /\ HandlingInv

-----------------------------------------------------------------------------
(* Of the steps below each lemma names those that can disturb what it is about;  *)
(* the others leave the variables it reads alone.                                *)

LEMMA InvInit == Init => IInv
  BY NamesAssumption, AddressesAssumption
  DEF Init, IInv, TypeOK, ServerInv, ReleaseInv, ShutInv, HandlingInv, Calls, Request, NoRequest

LEMMA ServerStepInv ==
  ASSUME TypeOK, ServerInv, HandlingInv, [Next]_vars PROVE ServerInv'
<1> USE DEF TypeOK, ServerInv, HandlingInv
<1>1. ASSUME NEW s \in Starters, Rejected(s) \/ Listen(s) \/ AlreadyStarted(s) \/ Publish(s)
      PROVE  ServerInv'
  BY <1>1 DEF Rejected, Listen, AlreadyStarted, Publish, GoStart, CloseSocket, serverVars,
     GoServe
<1>2. ASSUME NEW s \in Starters, StartReady(s) \/ StartServerEnded(s) \/ StartCancelled(s)
      PROVE  ServerInv'
  BY <1>2 DEF StartReady, StartServerEnded, StartCancelled, GoStart, serverVars, CancelRun
<1>3. ASSUME NEW s \in Starters, Unregister(s) \/ Release(s) \/ StartGivesUp(s)
      PROVE  ServerInv'
  BY <1>3 DEF Unregister, Release, StartGivesUp, GoStart, CloseSocket, serverVars, CancelRun
<1>4. ASSUME NEW s \in Starters, Activate(s) \/ ActivateFails(s) \/ Notify(s) \/ LeaveLoop(s)
      PROVE  ServerInv'
  BY <1>4 DEF Activate, ActivateFails, Notify, LeaveLoop, startVars, GoServe
<1>5. ASSUME NEW s \in Starters, ServerEnds(s)
      PROVE  ServerInv'
  BY <1>5 DEF ServerEnds, CloseSocket, startVars, GoServe
<1>6. ASSUME NEW c \in Calls, Shutdown(c) \/ ShutdownEnds(c) \/ Finish(c)
      PROVE  ServerInv'
  BY <1>6 DEF Shutdown, ShutdownEnds, Finish, CloseSocket, startVars, GoClose
<1>7. CASE UNCHANGED <<starting, socket, started, serve, outcome, done>>
  BY <1>7
<1> HIDE DEF TypeOK, ServerInv, HandlingInv
<1> QED
  BY <1>1, <1>2, <1>3, <1>4, <1>5, <1>6, <1>7 DEF Next, StartStep, CloseStep, HandlerStep,
     vars, startVars, serverVars, TakeServer, CancelParent, Watch, CallClose,
     CancelHandlers, ShutdownRefused, Receive, CopyConfig, ExchangeFails, Exchange,
     AddRoute, AddRouteFails, Answer, Return

LEMMA ReleaseStepInv ==
  ASSUME TypeOK, ServerInv, ReleaseInv, [Next]_vars PROVE ReleaseInv'
<1> USE DEF TypeOK, ServerInv, ReleaseInv, NeverActivated
<1>1. ASSUME NEW s \in Starters, Rejected(s) \/ Listen(s) \/ AlreadyStarted(s) \/ Publish(s)
      PROVE  ReleaseInv'
  BY <1>1 DEF Rejected, Listen, AlreadyStarted, Publish, GoStart,
     CloseSocket, serverVars, closeVars, GoServe
<1>2. ASSUME NEW s \in Starters, StartReady(s) \/ StartServerEnded(s) \/ StartCancelled(s)
      PROVE  ReleaseInv'
  BY <1>2, NamesAssumption DEF StartReady, StartServerEnded, StartCancelled, GoStart,
     serverVars, closeVars, CancelRun, ClearIfServer
<1>3. ASSUME NEW s \in Starters, Unregister(s) \/ Release(s) \/ StartGivesUp(s)
      PROVE  ReleaseInv'
  BY <1>3, NamesAssumption DEF Unregister, Release, StartGivesUp, GoStart, CloseSocket,
     serverVars, closeVars, CancelRun, ClearIfServer
<1>4. ASSUME NEW s \in Starters, Activate(s) \/ ActivateFails(s) \/ Notify(s) \/ LeaveLoop(s)
      PROVE  ReleaseInv'
  BY <1>4 DEF Activate, ActivateFails, Notify, LeaveLoop, startVars, closeVars, GoServe
<1>5. ASSUME NEW s \in Starters, ServerEnds(s)
      PROVE  ReleaseInv'
  BY <1>5 DEF ServerEnds, CloseSocket, startVars, closeVars, GoServe
<1>6. ASSUME NEW c \in Closers, CallClose(c)
      PROVE  ReleaseInv'
  BY <1>6, NamesAssumption DEF CallClose, startVars, serverVars, TakeServer
<1>7. ASSUME NEW s \in Starters, Watch(s)
      PROVE  ReleaseInv'
  BY <1>7, NamesAssumption DEF Watch, startVars, serverVars, TakeServer
<1>8. ASSUME NEW c \in Calls, Shutdown(c) \/ ShutdownEnds(c)
      PROVE  ReleaseInv'
  BY <1>8 DEF Shutdown, ShutdownEnds, CloseSocket, startVars, GoClose
<1>9. CASE UNCHANGED <<registered, starting, socket, started, serve, own>>
  BY <1>9
<1> HIDE DEF TypeOK, ServerInv, ReleaseInv, NeverActivated
<1> QED
  BY <1>1, <1>2, <1>3, <1>4, <1>5, <1>6, <1>7, <1>8, <1>9 DEF Next, StartStep, CloseStep,
     HandlerStep, vars, startVars, serverVars, closeVars, CancelParent, CancelHandlers,
     ShutdownRefused, Finish, Receive, CopyConfig, ExchangeFails, Exchange, AddRoute,
     AddRouteFails, Answer, Return

LEMMA ShutStepInv ==
  ASSUME TypeOK, ServerInv, ShutInv, [Next]_vars PROVE ShutInv'
<1> USE DEF TypeOK, ServerInv, ShutInv
<1>1. ASSUME NEW s \in Starters, StartReady(s)
      PROVE  ShutInv'
  BY <1>1 DEF StartReady, GoClose, serverVars, Calls, GoStart
<1>2. ASSUME NEW s \in Starters, Publish(s)
      PROVE  ShutInv'
  BY <1>2 DEF Publish, closeVars, GoStart, GoServe, closeVars
<1>3. ASSUME NEW s \in Starters,
             Activate(s) \/ ActivateFails(s) \/ Notify(s) \/ LeaveLoop(s) \/ ServerEnds(s)
      PROVE  ShutInv'
  BY <1>3 DEF Activate, ActivateFails, Notify, LeaveLoop, ServerEnds, closeVars, GoServe
<1>4. ASSUME NEW c \in Closers, CallClose(c)
      PROVE  ShutInv'
  BY <1>4 DEF CallClose, serverVars, Calls, TakeServer, serverVars
<1>5. ASSUME NEW s \in Starters, Watch(s)
      PROVE  ShutInv'
  BY <1>5 DEF Watch, serverVars, Calls, TakeServer, serverVars
<1>6. ASSUME NEW c \in Calls, CancelHandlers(c) \/ Shutdown(c) \/ ShutdownRefused(c)
      PROVE  ShutInv'
  BY <1>6 DEF CancelHandlers, Shutdown, ShutdownRefused, GoClose,
     serverVars, serverVars
<1>7. ASSUME NEW c \in Calls, ShutdownEnds(c) \/ Finish(c)
      PROVE  ShutInv'
  BY <1>7 DEF ShutdownEnds, Finish, GoClose
<1>8. CASE UNCHANGED <<serve, outcome, closing, own>>
  BY <1>8
<1> HIDE DEF TypeOK, ServerInv, ShutInv
<1> QED
  BY <1>1, <1>2, <1>3, <1>4, <1>5, <1>6, <1>7, <1>8 DEF Next, StartStep, CloseStep,
     HandlerStep, vars, serverVars, closeVars, Rejected, Listen, AlreadyStarted,
     StartServerEnded, StartCancelled, Unregister, Release, StartGivesUp, CancelParent,
     Receive, CopyConfig, ExchangeFails, Exchange, AddRoute, AddRouteFails, Answer, Return

LEMMA HandlingStepInv ==
  ASSUME TypeOK, ServerInv, HandlingInv, [Next]_vars PROVE HandlingInv'
<1> USE DEF TypeOK, ServerInv, HandlingInv
<1>1. ASSUME NEW s \in Starters, Publish(s)
      PROVE  HandlingInv'
  BY <1>1 DEF Publish, GoServe, handlerVars, Request, GoStart
<1>2. ASSUME NEW s \in Starters, Activate(s) \/ ActivateFails(s)
      PROVE  HandlingInv'
  BY <1>2 DEF Activate, ActivateFails, GoServe, handlerVars, Request
<1>3. ASSUME NEW s \in Starters, Notify(s) \/ LeaveLoop(s)
      PROVE  HandlingInv'
  BY <1>3 DEF Notify, LeaveLoop, GoServe, handlerVars, Request
<1>4. ASSUME NEW s \in Starters, ServerEnds(s)
      PROVE  HandlingInv'
  BY <1>4 DEF ServerEnds, GoServe, handlerVars, Request, AtWork
<1>5. ASSUME NEW s \in Starters, NEW h \in Handlers, Receive(h, s)
      PROVE  HandlingInv'
  BY <1>5 DEF Receive, GoHandle, Request, serverVars
<1>6. ASSUME NEW h \in Handlers, CopyConfig(h) \/ ExchangeFails(h)
      PROVE  HandlingInv'
  BY <1>6 DEF CopyConfig, ExchangeFails, GoHandle, Request, serverVars, Request
<1>7. ASSUME NEW h \in Handlers, Exchange(h)
      PROVE  HandlingInv'
  BY <1>7 DEF Exchange, GoHandle, Request, serverVars, Request
<1>8. ASSUME NEW h \in Handlers, AddRoute(h) \/ AddRouteFails(h) \/ Answer(h)
      PROVE  HandlingInv'
  BY <1>8 DEF AddRoute, AddRouteFails, Answer, GoHandle, Request, serverVars, Request
<1>9. ASSUME NEW h \in Handlers, Return(h)
      PROVE  HandlingInv'
  BY <1>9 DEF Return, Request, serverVars, NoRequest
<1>10. CASE UNCHANGED <<serve, handling, request>>
  BY <1>10
<1> HIDE DEF TypeOK, ServerInv, HandlingInv
<1> QED
  BY <1>1, <1>2, <1>3, <1>4, <1>5, <1>6, <1>7, <1>8, <1>9, <1>10 DEF Next, StartStep,
     CloseStep, HandlerStep, vars, serverVars, handlerVars, TakeServer, Rejected, Listen,
     AlreadyStarted, StartReady, StartServerEnded, StartCancelled, Unregister, Release,
     StartGivesUp, CancelParent, Watch, CallClose, CancelHandlers, Shutdown,
     ShutdownRefused, ShutdownEnds, Finish

-----------------------------------------------------------------------------
(* Type correctness, a group of variables at a time                              *)

StartTypes ==
    /\ registered \in Starters \cup {None}
    /\ starting \in [Starters -> {"idle", "listening", "selecting", "cancelling", "releasing",
                                  "draining", "ok", "failed"}]
    /\ parent \in [Starters -> {"live", "cancelled"}]
    /\ ctx \in [Starters -> {"live", "cancelled"}]

ServerTypes ==
    /\ socket \in [Starters -> {"none", "open", "closed"}]
    /\ started \in [Starters -> {"new", "started", "stopped"}]
    /\ serve \in [Starters -> {"none", "spawned", "activated", "serving", "draining", "ended"}]
    /\ ready \in [Starters -> BOOLEAN]
    /\ outcome \in [Starters -> {"none", "nil", "error"}]
    /\ done \in [Starters -> {"empty", "nil", "error", "taken"}]

CloseTypes ==
    /\ closing \in [Calls -> {"idle", "watching", "took", "cancelled", "shutting", "finishing",
                              "ok", "failed"}]
    /\ own \in [Calls -> Starters \cup {None}]
    /\ \A c \in Calls : closing[c] \notin {"idle", "watching", "ok"} => own[c] # None

HandlerTypes ==
    /\ handling \in [Handlers -> {"idle", "received", "asking", "adding", "answered", "refused"}]
    /\ request \in [Handlers -> Request]

LEMMA TypeParts == TypeOK <=> StartTypes /\ ServerTypes /\ CloseTypes /\ HandlerTypes
  BY DEF TypeOK, StartTypes, ServerTypes, CloseTypes, HandlerTypes

LEMMA StartTypesStep ==
  ASSUME StartTypes, CloseTypes, [Next]_vars PROVE StartTypes'
<1> USE DEF StartTypes, CloseTypes
<1>1. ASSUME NEW s \in Starters, Rejected(s) \/ Listen(s) \/ AlreadyStarted(s) \/ Publish(s)
      PROVE  StartTypes'
  BY <1>1 DEF Rejected, Listen, AlreadyStarted, Publish, GoStart
<1>2. ASSUME NEW s \in Starters, StartReady(s) \/ StartServerEnded(s) \/ StartCancelled(s)
      PROVE  StartTypes'
  BY <1>2 DEF StartReady, StartServerEnded, StartCancelled, GoStart,
     GoClose, CancelRun, ClearIfServer
<1>3. ASSUME NEW s \in Starters, Unregister(s) \/ Release(s) \/ StartGivesUp(s) \/
             CancelParent(s)
      PROVE  StartTypes'
  BY <1>3 DEF Unregister, Release, StartGivesUp, CancelParent, GoStart,
     CancelRun, ClearIfServer
<1>4. ASSUME NEW c \in Closers, CallClose(c)
      PROVE  StartTypes'
  BY <1>4 DEF CallClose, TakeServer, startVars
<1>5. ASSUME NEW s \in Starters, Watch(s)
      PROVE  StartTypes'
  BY <1>5 DEF Watch, TakeServer, startVars
<1>6. ASSUME NEW c \in Calls, CancelHandlers(c)
      PROVE  StartTypes'
  BY <1>6 DEF CancelHandlers, GoClose, CancelRun
<1>7. CASE UNCHANGED <<registered, startVars>>
  BY <1>7 DEF startVars
<1> HIDE DEF StartTypes, CloseTypes
<1> QED
  BY <1>1, <1>2, <1>3, <1>4, <1>5, <1>6, <1>7 DEF Next, StartStep, CloseStep, HandlerStep,
     vars, startVars, Activate, ActivateFails, Notify, LeaveLoop, ServerEnds, Shutdown,
     ShutdownRefused, ShutdownEnds, Finish, Receive, CopyConfig, ExchangeFails, Exchange, AddRoute,
     AddRouteFails, Answer, Return

LEMMA ServerTypesStep ==
  ASSUME ServerTypes, CloseTypes, ServerInv, [Next]_vars PROVE ServerTypes'
<1> USE DEF ServerTypes, CloseTypes, ServerInv
<1>1. ASSUME NEW s \in Starters, Listen(s) \/ AlreadyStarted(s) \/ Publish(s)
      PROVE  ServerTypes'
  BY <1>1 DEF Listen, AlreadyStarted, Publish, GoStart, GoServe,
     CloseSocket
<1>2. ASSUME NEW s \in Starters, StartServerEnded(s) \/ Release(s) \/ StartGivesUp(s)
      PROVE  ServerTypes'
  BY <1>2 DEF StartServerEnded, Release, StartGivesUp, GoStart, CloseSocket
<1>3. ASSUME NEW s \in Starters, Activate(s) \/ ActivateFails(s)
      PROVE  ServerTypes'
  BY <1>3 DEF Activate, ActivateFails, GoServe
<1>4. ASSUME NEW s \in Starters, Notify(s)
      PROVE  ServerTypes'
  BY <1>4 DEF Notify, GoServe
<1>5. ASSUME NEW s \in Starters, LeaveLoop(s)
      PROVE  ServerTypes'
  BY <1>5 DEF LeaveLoop, GoServe
<1>6. ASSUME NEW s \in Starters, ServerEnds(s)
      PROVE  ServerTypes'
  BY <1>6 DEF ServerEnds, GoServe, CloseSocket
<1>7. ASSUME NEW c \in Calls, Shutdown(c) \/ ShutdownEnds(c) \/ Finish(c)
      PROVE  ServerTypes'
  BY <1>7 DEF Shutdown, ShutdownEnds, Finish, GoClose, CloseSocket
<1>8. CASE UNCHANGED <<serverVars>>
  BY <1>8 DEF serverVars
<1> HIDE DEF ServerTypes, CloseTypes, ServerInv
<1> QED
  BY <1>1, <1>2, <1>3, <1>4, <1>5, <1>6, <1>7, <1>8 DEF Next, StartStep, CloseStep,
     HandlerStep, vars, serverVars, TakeServer, Rejected, StartReady, StartCancelled,
     Unregister, CancelParent, Watch, CallClose, CancelHandlers, ShutdownRefused, Receive,
     CopyConfig, ExchangeFails, Exchange, AddRoute, AddRouteFails, Answer, Return

LEMMA CloseTypesStep ==
  ASSUME CloseTypes, StartTypes, [Next]_vars PROVE CloseTypes'
<1> USE DEF CloseTypes, StartTypes
<1>1. ASSUME NEW s \in Starters, StartReady(s)
      PROVE  CloseTypes'
  BY <1>1 DEF StartReady, GoClose, Calls
<1>2. ASSUME NEW c \in Closers, CallClose(c)
      PROVE  CloseTypes'
  BY <1>2 DEF CallClose, TakeServer, Calls
<1>3. ASSUME NEW s \in Starters, Watch(s)
      PROVE  CloseTypes'
  BY <1>3 DEF Watch, TakeServer, Calls
<1>4. ASSUME NEW c \in Calls, CancelHandlers(c) \/ Shutdown(c) \/ ShutdownRefused(c)
      PROVE  CloseTypes'
  BY <1>4 DEF CancelHandlers, Shutdown, ShutdownRefused, GoClose
<1>5. ASSUME NEW c \in Calls, ShutdownEnds(c) \/ Finish(c)
      PROVE  CloseTypes'
  BY <1>5 DEF ShutdownEnds, Finish, GoClose
<1>6. CASE UNCHANGED <<closeVars>>
  BY <1>6 DEF closeVars
<1> HIDE DEF CloseTypes, StartTypes
<1> QED
  BY <1>1, <1>2, <1>3, <1>4, <1>5, <1>6 DEF Next, StartStep, CloseStep, HandlerStep, vars,
     closeVars, Rejected, Listen, AlreadyStarted, Publish, StartServerEnded, StartCancelled,
     Unregister, Release, StartGivesUp, CancelParent, Activate, ActivateFails, Notify, LeaveLoop,
     ServerEnds, Receive, CopyConfig, ExchangeFails, Exchange, AddRoute, AddRouteFails,
     Answer, Return

LEMMA ExchangeType ==
  ASSUME NEW r \in Request, NEW n \in 0..MaxAddresses
  PROVE  [r EXCEPT !.unrouted = n, !.left = n] \in Request
<1> DEFINE half == [r EXCEPT !.unrouted = n]
<1>1. half \in Request
  BY DEF Request
<1> HIDE DEF half
<1>2. [half EXCEPT !.left = n] \in Request
  BY <1>1 DEF Request
<1> QED BY <1>2 DEF half

LEMMA HandlerTypesStep ==
  ASSUME HandlerTypes, StartTypes, HandlingInv, [Next]_vars PROVE HandlerTypes'
<1> USE DEF HandlerTypes, StartTypes, HandlingInv
<1>1. ASSUME NEW s \in Starters, NEW h \in Handlers, Receive(h, s)
      PROVE  HandlerTypes'
  BY <1>1 DEF Receive, GoHandle, Request, NoRequest
<1>2. ASSUME NEW h \in Handlers, CopyConfig(h) \/ ExchangeFails(h)
      PROVE  HandlerTypes'
  <2>1. CASE CopyConfig(h)
    BY <2>1 DEF CopyConfig, GoHandle, Request, NoRequest
  <2>2. CASE ExchangeFails(h)
    BY <2>2 DEF ExchangeFails, GoHandle, Request, NoRequest
  <2> QED BY <1>2, <2>1, <2>2
<1>3. ASSUME NEW h \in Handlers, Exchange(h)
      PROVE  HandlerTypes'
  <2>1. PICK n \in 0..MaxAddresses :
          request' = [request EXCEPT ![h].unrouted = n, ![h].left = n]
    BY <1>3 DEF Exchange
  <2>2. [request[h] EXCEPT !.unrouted = n, !.left = n] \in Request
    BY <2>1, ExchangeType
  <2>3. request' = [request EXCEPT ![h] = [request[h] EXCEPT !.unrouted = n, !.left = n]]
    BY <2>1
  <2> QED BY <1>3, <2>2, <2>3 DEF Exchange, GoHandle
<1>4. ASSUME NEW h \in Handlers, AddRoute(h)
      PROVE  HandlerTypes'
  BY <1>4 DEF AddRoute, Request, NoRequest
<1>5. ASSUME NEW h \in Handlers, AddRouteFails(h) \/ Answer(h)
      PROVE  HandlerTypes'
  BY <1>5 DEF AddRouteFails, Answer, GoHandle,
     Request, NoRequest
<1>6. ASSUME NEW h \in Handlers, Return(h)
      PROVE  HandlerTypes'
  BY <1>6, NamesAssumption, AddressesAssumption DEF Return, Request, NoRequest
<1>7. CASE UNCHANGED <<handlerVars>>
  BY <1>7 DEF handlerVars
<1> HIDE DEF HandlerTypes, StartTypes, HandlingInv
<1> QED
  BY <1>1, <1>2, <1>3, <1>4, <1>5, <1>6, <1>7 DEF Next, StartStep, CloseStep, HandlerStep,
     vars, handlerVars, TakeServer, Rejected, Listen, AlreadyStarted, Publish, StartReady,
     StartServerEnded, StartCancelled, Unregister, Release, StartGivesUp, CancelParent,
     Activate, ActivateFails, Notify, LeaveLoop, ServerEnds, Watch, CallClose,
     CancelHandlers, Shutdown, ShutdownRefused, ShutdownEnds, Finish


-----------------------------------------------------------------------------
(* What Start, Close and the handlers promise in any order                       *)

LEMMA InvStep == IInv /\ [Next]_vars => IInv'
<1> SUFFICES ASSUME IInv, [Next]_vars PROVE IInv'
  OBVIOUS
<1>1. TypeOK /\ ServerInv /\ ReleaseInv /\ ShutInv /\ HandlingInv
  BY DEF IInv
<1>2. TypeOK'
  <2>1. StartTypes' /\ ServerTypes' /\ CloseTypes' /\ HandlerTypes'
    BY <1>1, TypeParts, StartTypesStep, ServerTypesStep, CloseTypesStep, HandlerTypesStep
  <2> QED BY <2>1 DEF TypeOK, StartTypes, ServerTypes, CloseTypes, HandlerTypes
<1>3. ServerInv' /\ ReleaseInv' /\ ShutInv' /\ HandlingInv'
  BY <1>1, ServerStepInv, ReleaseStepInv, ShutStepInv, HandlingStepInv
<1> QED BY <1>2, <1>3 DEF IInv

LEMMA Invariant == Spec => []IInv
  BY InvInit, InvStep, PTL DEF Spec

(* The variables keep their types, and a Close past its first step has a server. *)
THEOREM TypeCorrect == Spec => []TypeOK
<1>1. IInv => TypeOK
  BY DEF IInv
<1> QED BY <1>1, Invariant, PTL

(* A Start that failed, for whatever reason and whatever Close does meanwhile,   *)
(* leaves neither its listener open nor its server registered, but for the       *)
(* socket of a server that could not be activated.                               *)
THEOREM FailedStartSafe == Spec => []FailedStartReleases
<1>1. IInv => FailedStartReleases
  BY DEF IInv, ReleaseInv, FailedStartReleases, NeverActivated
<1> QED BY <1>1, Invariant, PTL

(* The Close that took a server and returned nil has outlived its handlers.      *)
THEOREM CloseDrainsSafe == Spec => []CloseDrains
<1>1. IInv => CloseDrains
  <2> SUFFICES ASSUME IInv, NEW c \in Calls, closing[c] = "ok", own[c] # None
               PROVE  AtWork(own[c]) = {} /\ serve[own[c]] = "ended"
    BY DEF CloseDrains
  <2>1. serve[own[c]] = "ended"
    BY DEF IInv, ShutInv
  <2>2. \A h \in Handlers : request[h].server # own[c]
    BY <2>1 DEF IInv, HandlingInv
  <2> QED BY <2>1, <2>2 DEF AtWork
<1> QED BY <1>1, Invariant, PTL

(* A Close that returned nil has seen its server end without an error.           *)
THEOREM FailureReportedSafe == Spec => []FailureReported
<1>1. IInv => FailureReported
  BY DEF IInv, ShutInv, FailureReported
<1> QED BY <1>1, Invariant, PTL

(* No answer for a bypassed domain is passed on with an address that has no      *)
(* route, wherever Close falls between the steps of the handler.                 *)
THEOREM AnswerRoutedSafe == Spec => []AnswerRouted
<1>1. IInv => AnswerRouted
  BY DEF IInv, HandlingInv, AnswerRouted
<1> QED BY <1>1, Invariant, PTL

-----------------------------------------------------------------------------
(* What they promise when Close is called between Starts only: a server stays    *)
(* registered from its publication until somebody takes it, which happens once   *)
(* and only when it has been started, so that no shutdown is refused.            *)

CloseCalled == \E c \in Closers : closing[c] # "idle"

\* No Start goes on once Close has been called.
AfterClose == CloseCalled => registered = None /\ \A s \in Starters : ~InStart(s)

\* A server whose Start has returned is started.
HasStarted ==
    \A s \in Starters :
        /\ serve[s] \in {"none", "spawned"} => started[s] = "new"
        /\ serve[s] \in {"activated", "serving"} \/ ready[s] => started[s] # "new"
        /\ starting[s] = "ok" => started[s] # "new"

\* Whoever counts on a registration finds it, and its server untouched.
StillRegistered ==
    \A s \in Starters :
        /\ starting[s] \in {"selecting", "cancelling"} => registered = s
        /\ registered = s => started[s] # "stopped" /\ \A c \in Calls : own[c] # s
        /\ closing[s] = "watching" => starting[s] = "ok" /\ (registered = s \/ CloseCalled)

\* A server is taken by one Close, which can stop it.
TakenOnce ==
    \A c \in Calls : own[c] # None =>
        /\ starting[own[c]] = "ok"
        /\ closing[c] \notin {"idle", "watching"}
        /\ closing[c] \in {"took", "cancelled"} => started[own[c]] = "started"
        /\ closing[c] \in {"finishing", "ok", "failed"} => socket[own[c]] # "open"
        /\ \A d \in Calls : own[d] = own[c] => c = d

OrderInv == AfterClose /\ HasStarted /\ StillRegistered /\ TakenOnce

OrderedInv == IInv /\ OrderInv /\ NoOrphanServer

LEMMA AfterCloseStep ==
  ASSUME IInv, OrderInv, ~Overlap, [Next]_vars PROVE AfterClose'
<1> USE DEF IInv, OrderInv, TypeOK, AfterClose
<1>1. ASSUME NEW s \in Starters, Rejected(s) \/ Listen(s) \/ AlreadyStarted(s) \/ Publish(s)
      PROVE  AfterClose'
  BY <1>1 DEF Rejected, Listen, AlreadyStarted, Publish, GoStart, GoServe,
     CloseSocket, closeVars, MayStart, InStart, CloseCalled
<1>2. ASSUME NEW s \in Starters, StartReady(s) \/ StartServerEnded(s) \/ StartCancelled(s)
      PROVE  AfterClose'
  BY <1>2, NamesAssumption DEF StartReady, StartServerEnded, StartCancelled, GoStart,
     GoClose, CancelRun, ClearIfServer, closeVars, InStart, Calls, CloseCalled
<1>3. ASSUME NEW s \in Starters, Unregister(s) \/ Release(s) \/ StartGivesUp(s)
      PROVE  AfterClose'
  BY <1>3 DEF Unregister, Release, StartGivesUp, GoStart, CloseSocket,
     CancelRun, ClearIfServer, closeVars, InStart, CloseCalled
<1>4. ASSUME NEW c \in Closers, CallClose(c)
      PROVE  AfterClose'
  BY <1>4 DEF CallClose, TakeServer, startVars, MayClose, InStart, Calls,
     CloseCalled
<1>5. ASSUME NEW s \in Starters, Watch(s)
      PROVE  AfterClose'
  BY <1>5 DEF Watch, TakeServer, startVars, InStart, Calls, CloseCalled
<1>6. ASSUME NEW c \in Calls, CancelHandlers(c) \/ Shutdown(c) \/ ShutdownRefused(c) \/
             ShutdownEnds(c) \/ Finish(c)
      PROVE  AfterClose'
  BY <1>6 DEF CancelHandlers, Shutdown, ShutdownRefused, ShutdownEnds,
     Finish, GoClose, CloseSocket, CancelRun, startVars, InStart, Calls, CloseCalled
<1>7. CASE UNCHANGED <<registered, starting, closing>>
  BY <1>7 DEF CloseCalled, InStart
<1> HIDE DEF IInv, OrderInv, TypeOK, AfterClose
<1> QED
  BY <1>1, <1>2, <1>3, <1>4, <1>5, <1>6, <1>7 DEF Next, StartStep, CloseStep, HandlerStep,
     vars, startVars, closeVars, CancelParent, Activate, ActivateFails, Notify, LeaveLoop,
     ServerEnds, Receive, CopyConfig, ExchangeFails, Exchange, AddRoute, AddRouteFails, Answer, Return

LEMMA HasStartedStep ==
  ASSUME IInv, OrderInv, ~Overlap, [Next]_vars PROVE HasStarted'
<1> USE DEF IInv, OrderInv, TypeOK, HasStarted, ServerInv
<1>1. ASSUME NEW s \in Starters, Rejected(s) \/ Listen(s) \/ AlreadyStarted(s) \/ Publish(s)
      PROVE  HasStarted'
  BY <1>1 DEF Rejected, Listen, AlreadyStarted, Publish, GoStart, GoServe,
     CloseSocket, serverVars, MayStart
<1>2. ASSUME NEW s \in Starters, StartReady(s) \/ StartServerEnded(s) \/ StartCancelled(s)
      PROVE  HasStarted'
  BY <1>2 DEF StartReady, StartServerEnded, StartCancelled, GoStart,
     GoClose, CancelRun, ClearIfServer, serverVars
<1>3. ASSUME NEW s \in Starters, Unregister(s) \/ Release(s) \/ StartGivesUp(s)
      PROVE  HasStarted'
  BY <1>3 DEF Unregister, Release, StartGivesUp, GoStart, CloseSocket,
     CancelRun, ClearIfServer, serverVars
<1>4. ASSUME NEW s \in Starters, Activate(s) \/ ActivateFails(s)
      PROVE  HasStarted'
  BY <1>4 DEF Activate, ActivateFails, GoServe, startVars
<1>5. ASSUME NEW s \in Starters, Notify(s)
      PROVE  HasStarted'
  BY <1>5 DEF Notify, GoServe, startVars
<1>6. ASSUME NEW s \in Starters, LeaveLoop(s)
      PROVE  HasStarted'
  BY <1>6 DEF LeaveLoop, GoServe, startVars
<1>7. ASSUME NEW s \in Starters, ServerEnds(s)
      PROVE  HasStarted'
  BY <1>7 DEF ServerEnds, GoServe, CloseSocket, startVars
<1>8. ASSUME NEW c \in Calls, Shutdown(c)
      PROVE  HasStarted'
  BY <1>8 DEF Shutdown, GoClose, startVars
<1>9. CASE UNCHANGED <<starting, started, serve, ready>>
  BY <1>9
<1> HIDE DEF IInv, OrderInv, TypeOK, HasStarted, ServerInv
<1> QED
  BY <1>1, <1>2, <1>3, <1>4, <1>5, <1>6, <1>7, <1>8, <1>9 DEF Next, StartStep, CloseStep,
     HandlerStep, vars, startVars, serverVars, TakeServer, CancelParent, Watch, CallClose,
     CancelHandlers, ShutdownRefused, ShutdownEnds, Finish, Receive, CopyConfig,
     ExchangeFails, Exchange, AddRoute, AddRouteFails, Answer, Return

LEMMA StillRegisteredStep ==
  ASSUME IInv, OrderInv, ~Overlap, [Next]_vars PROVE StillRegistered'
<1> USE DEF IInv, OrderInv, TypeOK, ServerInv, ReleaseInv, AfterClose, HasStarted,
       StillRegistered, TakenOnce
<1>1. ASSUME NEW s \in Starters, Rejected(s) \/ Listen(s)
      PROVE  StillRegistered'
  BY <1>1 DEF Rejected, Listen, GoStart, serverVars, closeVars, MayStart,
     InStart, CloseCalled
<1>2. ASSUME NEW s \in Starters, AlreadyStarted(s)
      PROVE  StillRegistered'
  BY <1>2 DEF AlreadyStarted, GoStart, CloseSocket, closeVars, InStart,
     CloseCalled
<1>3. ASSUME NEW s \in Starters, Publish(s)
      PROVE  StillRegistered'
  BY <1>3, NamesAssumption DEF Publish, GoStart, GoServe, closeVars, InStart, CloseCalled
<1>4. ASSUME NEW s \in Starters, StartReady(s)
      PROVE  StillRegistered'
  BY <1>4 DEF StartReady, GoStart, GoClose, serverVars, InStart, Calls,
     CloseCalled
<1>5. ASSUME NEW s \in Starters, StartServerEnded(s)
      PROVE  StillRegistered'
  BY <1>5, NamesAssumption DEF StartServerEnded, GoStart, CancelRun, ClearIfServer,
     closeVars, InStart, CloseCalled
<1>6. ASSUME NEW s \in Starters, StartCancelled(s)
      PROVE  StillRegistered'
  BY <1>6 DEF StartCancelled, GoStart, serverVars, closeVars, InStart,
     CloseCalled
<1>7. ASSUME NEW s \in Starters, Unregister(s)
      PROVE  StillRegistered'
  BY <1>7, NamesAssumption DEF Unregister, GoStart, ClearIfServer, serverVars, closeVars,
     InStart, CloseCalled
<1>8. ASSUME NEW s \in Starters, Release(s) \/ StartGivesUp(s)
      PROVE  StillRegistered'
  BY <1>8 DEF Release, StartGivesUp, GoStart, CloseSocket, CancelRun,
     closeVars, InStart, CloseCalled
<1>9. ASSUME NEW s \in Starters, Activate(s) \/ ActivateFails(s)
      PROVE  StillRegistered'
  BY <1>9 DEF Activate, ActivateFails, GoServe, startVars, closeVars, InStart, CloseCalled
<1>10. ASSUME NEW c \in Closers, CallClose(c)
      PROVE  StillRegistered'
  BY <1>10, NamesAssumption DEF CallClose, TakeServer, startVars, serverVars, MayClose,
     InStart, Calls, CloseCalled
<1>11. ASSUME NEW s \in Starters, Watch(s)
      PROVE  StillRegistered'
  BY <1>11, NamesAssumption DEF Watch, TakeServer, startVars, serverVars, InStart, Calls,
     CloseCalled
<1>12. ASSUME NEW c \in Calls, Shutdown(c)
      PROVE  StillRegistered'
  BY <1>12 DEF Shutdown, GoClose, startVars, InStart, CloseCalled
<1>13. ASSUME NEW c \in Calls, CancelHandlers(c) \/ ShutdownRefused(c) \/ ShutdownEnds(c) \/
             Finish(c)
      PROVE  StillRegistered'
  BY <1>13 DEF CancelHandlers, ShutdownRefused, ShutdownEnds, Finish,
     GoClose, CloseSocket, CancelRun, startVars, serverVars, InStart, Calls, CloseCalled
<1>14. CASE UNCHANGED <<registered, starting, started, closing, own>>
  BY <1>14 DEF CloseCalled, InStart
<1> HIDE DEF IInv, OrderInv, TypeOK, ServerInv, ReleaseInv, AfterClose, HasStarted,
       StillRegistered, TakenOnce
<1> QED
  BY <1>1, <1>2, <1>3, <1>4, <1>5, <1>6, <1>7, <1>8, <1>9, <1>10, <1>11, <1>12, <1>13, <1>14
     DEF Next, StartStep, CloseStep, HandlerStep, vars, startVars, serverVars, closeVars,
     CancelParent, Notify, LeaveLoop, ServerEnds, Receive, CopyConfig, ExchangeFails,
     Exchange, AddRoute, AddRouteFails, Answer, Return

LEMMA TakenOnceStep ==
  ASSUME IInv, OrderInv, ~Overlap, [Next]_vars PROVE TakenOnce'
<1> USE DEF IInv, OrderInv, TypeOK, ReleaseInv, AfterClose, HasStarted,
       StillRegistered, TakenOnce
<1>1. ASSUME NEW s \in Starters, Rejected(s) \/ Listen(s) \/ AlreadyStarted(s) \/ Publish(s)
      PROVE  TakenOnce'
  BY <1>1 DEF Rejected, Listen, AlreadyStarted, Publish, GoStart, GoServe,
     CloseSocket, serverVars, closeVars, MayStart, InStart, CloseCalled
<1>2. ASSUME NEW s \in Starters, StartReady(s) \/ StartServerEnded(s) \/ StartCancelled(s)
      PROVE  TakenOnce'
  BY <1>2 DEF StartReady, StartServerEnded, StartCancelled, GoStart,
     GoClose, CancelRun, ClearIfServer, serverVars, closeVars, InStart, Calls, CloseCalled
<1>3. ASSUME NEW s \in Starters, Unregister(s) \/ Release(s) \/ StartGivesUp(s)
      PROVE  TakenOnce'
  BY <1>3 DEF Unregister, Release, StartGivesUp, GoStart, CloseSocket,
     CancelRun, ClearIfServer, serverVars, closeVars, InStart, CloseCalled
<1>4. ASSUME NEW s \in Starters, Activate(s) \/ ActivateFails(s)
      PROVE  TakenOnce'
  BY <1>4 DEF Activate, ActivateFails, GoServe, startVars, closeVars, InStart, CloseCalled
<1>5. ASSUME NEW s \in Starters, ServerEnds(s)
      PROVE  TakenOnce'
  BY <1>5 DEF ServerEnds, GoServe, CloseSocket, startVars, closeVars,
     InStart, CloseCalled
<1>6. ASSUME NEW c \in Closers, CallClose(c)
      PROVE  TakenOnce'
  BY <1>6 DEF CallClose, TakeServer, startVars, serverVars, MayClose,
     InStart, Calls, CloseCalled
<1>7. ASSUME NEW s \in Starters, Watch(s)
      PROVE  TakenOnce'
  BY <1>7 DEF Watch, TakeServer, startVars, serverVars, InStart, Calls,
     CloseCalled
<1>8. ASSUME NEW c \in Calls, CancelHandlers(c)
      PROVE  TakenOnce'
  BY <1>8 DEF CancelHandlers, GoClose, CancelRun, serverVars, InStart,
     Calls, CloseCalled
<1>9. ASSUME NEW c \in Calls, Shutdown(c)
      PROVE  TakenOnce'
  BY <1>9 DEF Shutdown, GoClose, startVars, InStart, CloseCalled
<1>10. ASSUME NEW c \in Calls, ShutdownRefused(c)
      PROVE  TakenOnce'
  BY <1>10 DEF ShutdownRefused, GoClose, startVars, serverVars, InStart,
     CloseCalled
<1>11. ASSUME NEW c \in Calls, ShutdownEnds(c)
      PROVE  TakenOnce'
  BY <1>11 DEF ShutdownEnds, GoClose, CloseSocket, startVars, InStart,
     CloseCalled
<1>12. ASSUME NEW c \in Calls, Finish(c)
      PROVE  TakenOnce'
  BY <1>12 DEF Finish, GoClose, startVars, InStart, CloseCalled
<1>13. CASE UNCHANGED <<starting, started, socket, closing, own>>
  BY <1>13 DEF CloseCalled, InStart
<1> HIDE DEF IInv, OrderInv, TypeOK, ReleaseInv, AfterClose, HasStarted,
       StillRegistered, TakenOnce
<1> QED
  BY <1>1, <1>2, <1>3, <1>4, <1>5, <1>6, <1>7, <1>8, <1>9, <1>10, <1>11, <1>12, <1>13 DEF
     Next, StartStep, CloseStep, HandlerStep, vars, startVars, serverVars, closeVars,
     CancelParent, Notify, LeaveLoop, Receive, CopyConfig, ExchangeFails, Exchange,
     AddRoute, AddRouteFails, Answer, Return

LEMMA NoOrphanStep ==
  ASSUME OrderedInv, ~Overlap, [Next]_vars PROVE NoOrphanServer'
<1> USE DEF OrderedInv, IInv, OrderInv, TypeOK, ServerInv, ReleaseInv, AfterClose,
       StillRegistered, TakenOnce, NoOrphanServer, NeverActivated
<1>1. ASSUME NEW s \in Starters, Rejected(s) \/ Listen(s) \/ AlreadyStarted(s) \/ Publish(s)
      PROVE  NoOrphanServer'
  BY <1>1, NamesAssumption DEF Rejected, Listen, AlreadyStarted, Publish, GoStart, GoServe,
     CloseSocket, serverVars, closeVars, MayStart, InStart, CloseCalled
<1>2. ASSUME NEW s \in Starters, StartReady(s)
      PROVE  NoOrphanServer'
  BY <1>2 DEF StartReady, GoStart, GoClose, serverVars, InStart, Calls,
     CloseCalled
<1>3. ASSUME NEW s \in Starters, StartServerEnded(s)
      PROVE  NoOrphanServer'
  BY <1>3 DEF StartServerEnded, GoStart, CancelRun, ClearIfServer,
     closeVars, InStart, CloseCalled
<1>4. ASSUME NEW s \in Starters, StartCancelled(s)
      PROVE  NoOrphanServer'
  BY <1>4 DEF StartCancelled, GoStart, serverVars, closeVars, InStart,
     CloseCalled
<1>5. ASSUME NEW s \in Starters, Unregister(s) \/ Release(s) \/ StartGivesUp(s)
      PROVE  NoOrphanServer'
  BY <1>5 DEF Unregister, Release, StartGivesUp, GoStart, CloseSocket,
     CancelRun, ClearIfServer, serverVars, closeVars, InStart, CloseCalled
<1>6. ASSUME NEW s \in Starters, Activate(s) \/ ActivateFails(s) \/ Notify(s) \/ LeaveLoop(s)
      PROVE  NoOrphanServer'
  BY <1>6 DEF Activate, ActivateFails, Notify, LeaveLoop, GoServe, startVars, closeVars,
     InStart, CloseCalled
<1>7. ASSUME NEW s \in Starters, ServerEnds(s)
      PROVE  NoOrphanServer'
  BY <1>7 DEF ServerEnds, GoServe, CloseSocket, startVars, closeVars,
     InStart, CloseCalled
<1>8. ASSUME NEW c \in Closers, CallClose(c)
      PROVE  NoOrphanServer'
  BY <1>8 DEF CallClose, TakeServer, startVars, serverVars, MayClose,
     InStart, Calls, CloseCalled
<1>9. ASSUME NEW s \in Starters, Watch(s)
      PROVE  NoOrphanServer'
  BY <1>9 DEF Watch, TakeServer, startVars, serverVars, InStart, Calls,
     CloseCalled
<1>10. ASSUME NEW c \in Calls, CancelHandlers(c)
      PROVE  NoOrphanServer'
  BY <1>10 DEF CancelHandlers, GoClose, CancelRun, serverVars, InStart,
     Calls, CloseCalled
<1>11. ASSUME NEW c \in Calls, Shutdown(c)
      PROVE  NoOrphanServer'
  BY <1>11 DEF Shutdown, GoClose, startVars, InStart, CloseCalled
<1>12. ASSUME NEW c \in Calls, ShutdownRefused(c)
      PROVE  NoOrphanServer'
  BY <1>12 DEF ShutdownRefused, GoClose, startVars, serverVars, InStart,
     CloseCalled
<1>13. ASSUME NEW c \in Calls, ShutdownEnds(c)
      PROVE  NoOrphanServer'
  BY <1>13 DEF ShutdownEnds, GoClose, CloseSocket, startVars, InStart,
     CloseCalled
<1>14. ASSUME NEW c \in Calls, Finish(c)
      PROVE  NoOrphanServer'
  BY <1>14 DEF Finish, GoClose, startVars, InStart, CloseCalled
<1>15. CASE UNCHANGED <<registered, starting, socket, started, serve, closing, own>>
  BY <1>15 DEF CloseCalled, InStart
<1> HIDE DEF OrderedInv, IInv, OrderInv, TypeOK, ServerInv, ReleaseInv, AfterClose,
       StillRegistered, TakenOnce, NoOrphanServer, NeverActivated
<1> QED
  BY <1>1, <1>2, <1>3, <1>4, <1>5, <1>6, <1>7, <1>8, <1>9, <1>10, <1>11, <1>12, <1>13,
     <1>14, <1>15 DEF Next, StartStep, CloseStep, HandlerStep, vars, startVars, serverVars,
     closeVars, CancelParent, Receive, CopyConfig, ExchangeFails, Exchange, AddRoute,
     AddRouteFails, Answer, Return

LEMMA OrderedInit == Init => OrderedInv
<1>1. Init => IInv
  BY InvInit
<1>2. Init => NoOrphanServer
  BY DEF Init, NoOrphanServer
<1>3. Init => AfterClose /\ HasStarted /\ StillRegistered /\ TakenOnce
  BY NamesAssumption
  DEF Init, AfterClose, CloseCalled, InStart, HasStarted, StillRegistered, TakenOnce, Calls
<1> QED BY <1>1, <1>2, <1>3 DEF OrderedInv, OrderInv

LEMMA OrderedStep == ~Overlap /\ OrderedInv /\ [Next]_vars => OrderedInv'
<1> SUFFICES ASSUME ~Overlap, OrderedInv, [Next]_vars PROVE OrderedInv'
  OBVIOUS
<1>1. IInv /\ OrderInv
  BY DEF OrderedInv
<1>2. IInv'
  BY <1>1, InvStep
<1>3. OrderInv'
  BY <1>1, AfterCloseStep, HasStartedStep, StillRegisteredStep, TakenOnceStep DEF OrderInv
<1> QED BY <1>2, <1>3, NoOrphanStep DEF OrderedInv

(* When Close is called between Starts only, as the tunnel does, no server is    *)
(* left listening that neither a registration, nor its Start, nor a Close at     *)
(* work can stop: whatever fails, and whenever contexts are cancelled.  A socket *)
(* that was never activated is no such server.                                   *)
THEOREM NoOrphanSafe == ASSUME ~Overlap PROVE Spec => []NoOrphanServer
<1>1. OrderedInv /\ [Next]_vars => OrderedInv'
  BY OrderedStep
<1>2. OrderedInv => NoOrphanServer
  BY DEF OrderedInv
<1> QED BY <1>1, <1>2, OrderedInit, PTL DEF Spec
=============================================================================
