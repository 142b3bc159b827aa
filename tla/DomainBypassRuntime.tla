------------------------ MODULE DomainBypassRuntime ------------------------
(***************************************************************************)
(* The DNS forwarder of the tunnel: DNSDomainBypassRuntime                 *)
(* (internal/dns/forwarder.go) on top of a server of the miekg/dns         *)
(* library.                                                                *)
(*                                                                         *)
(* Start publishes a server under r.mu and waits for it outside the lock;  *)
(* a watcher goroutine closes the runtime when the context is cancelled;   *)
(* Close takes the server away under r.mu and shuts it down outside;       *)
(* handlers copy the configuration under r.mu and work on without it.      *)
(*                                                                         *)
(* A server is named after the Start that made it, and so is its watcher.  *)
(* The fields server, done, cancel, addr, config and ctx of the runtime    *)
(* are set and cleared together: "registered" stands for all six.          *)
(***************************************************************************)
EXTENDS Integers

CONSTANTS
    Starters,      \* calls of Start
    Closers,       \* calls of Close
    Handlers,      \* requests served at the same time
    None,          \* nil: no server, no configuration
    MaxAddresses,  \* bound: addresses in an answer for a bypassed domain
    Cancellable,   \* the Starts whose context may be cancelled
    Faults,        \* what may go wrong: "listen", "activate", "die"
    Overlap        \* calls of Start and Close come in any order

ASSUME NamesAssumption == None \notin Starters /\ Starters \cap Closers = {}
ASSUME AddressesAssumption == MaxAddresses \in Nat
ASSUME CancellableAssumption == Cancellable \subseteq Starters
ASSUME FaultsAssumption == Faults \subseteq {"listen", "activate", "die"}
ASSUME OverlapAssumption == Overlap \in BOOLEAN

VARIABLES
    registered,  \* r.server, and with it r.done, r.cancel, r.config and r.ctx
    starting,    \* where each Start is
    parent,      \* the context a Start was given
    ctx,         \* the runCtx derived from it
    socket,      \* the packet connection of each server
    started,     \* server.started
    serve,       \* where the goroutine in ActivateAndServe is
    ready,       \* whether the channel "ready" is closed
    outcome,     \* what ActivateAndServe is about to return
    done,        \* the channel "done", of capacity 1
    closing,     \* where each Close is, those of the watchers included
    own,         \* the server a Close has taken
    handling,    \* where each handler is
    request      \* what it knows

startVars == <<starting, parent, ctx>>
serverVars == <<socket, started, serve, ready, outcome, done>>
closeVars == <<closing, own>>
handlerVars == <<handling, request>>
vars == <<registered, startVars, serverVars, closeVars, handlerVars>>

-----------------------------------------------------------------------------
Calls == Closers \cup Starters

NoRequest == [server |-> None, config |-> None, left |-> 0, unrouted |-> 0]

Init ==
    /\ registered = None
    /\ starting = [s \in Starters |-> "idle"]
    /\ parent = [s \in Starters |-> "live"]
    /\ ctx = [s \in Starters |-> "live"]
    /\ socket = [s \in Starters |-> "none"]
    /\ started = [s \in Starters |-> "new"]
    /\ serve = [s \in Starters |-> "none"]
    /\ ready = [s \in Starters |-> FALSE]
    /\ outcome = [s \in Starters |-> "none"]
    /\ done = [s \in Starters |-> "empty"]
    /\ closing = [c \in Calls |-> "idle"]
    /\ own = [c \in Calls |-> None]
    /\ handling = [h \in Handlers |-> "idle"]
    /\ request = [h \in Handlers |-> NoRequest]

InStart(s) == starting[s] \notin {"idle", "ok", "failed"}

\* Handlers of a server that its WaitGroup still counts.
AtWork(s) == {h \in Handlers : request[h].server = s}

GoStart(s, from, to) == starting[s] = from /\ starting' = [starting EXCEPT ![s] = to]
GoServe(s, from, to) == serve[s] = from /\ serve' = [serve EXCEPT ![s] = to]
GoClose(c, from, to) == closing[c] = from /\ closing' = [closing EXCEPT ![c] = to]
GoHandle(h, from, to) == handling[h] = from /\ handling' = [handling EXCEPT ![h] = to]

CloseSocket(s) == socket' = [socket EXCEPT ![s] = "closed"]
CancelRun(s) == ctx' = [ctx EXCEPT ![s] = "cancelled"]

\* clearIfServerLocked: another server's registration is left alone.
ClearIfServer(s) == registered' = IF registered = s THEN None ELSE registered

-----------------------------------------------------------------------------
(* Start *)

\* The tunnel calls Close after Start has returned, and no Start after a Close.
MayStart == Overlap \/ \A c \in Closers : closing[c] = "idle"
MayClose == Overlap \/ \A s \in Starters : ~InStart(s)

\* No upstream, or nothing to listen on.
Rejected(s) ==
    /\ "listen" \in Faults
    /\ MayStart
    /\ GoStart(s, "idle", "failed")
    /\ UNCHANGED <<registered, parent, ctx, serverVars, closeVars, handlerVars>>

Listen(s) ==
    /\ MayStart
    /\ GoStart(s, "idle", "listening")
    /\ socket' = [socket EXCEPT ![s] = "open"]
    /\ UNCHANGED <<registered, parent, ctx, started, serve, ready, outcome, done, closeVars,
                   handlerVars>>

\* The runtime has a server: the new listener is closed again.
AlreadyStarted(s) ==
    /\ registered # None
    /\ GoStart(s, "listening", "failed")
    /\ CloseSocket(s)
    /\ UNCHANGED <<registered, parent, ctx, started, serve, ready, outcome, done, closeVars,
                   handlerVars>>

\* The server is registered under r.mu and its goroutine is started.
Publish(s) ==
    /\ registered = None
    /\ GoStart(s, "listening", "selecting")
    /\ registered' = s
    /\ ctx' = [ctx EXCEPT ![s] = parent[s]]
    /\ GoServe(s, "none", "spawned")
    /\ UNCHANGED <<parent, socket, started, ready, outcome, done, closeVars, handlerVars>>

\* Mutated: nobody watches the context.
StartReadyUnwatched(s) ==
    /\ ready[s]
    /\ GoStart(s, "selecting", IF parent[s] = "live" THEN "ok" ELSE "cancelling")
    /\ UNCHANGED <<registered, parent, ctx, serverVars, closeVars, handlerVars>>

\* The select finds "ready" closed: Start succeeds and leaves a watcher behind,
\* unless its context has been cancelled meanwhile.
StartReady(s) ==
    /\ ready[s]
    /\ IF parent[s] = "live"
       THEN GoStart(s, "selecting", "ok") /\ GoClose(s, "idle", "watching")
       ELSE GoStart(s, "selecting", "cancelling") /\ UNCHANGED closing
    /\ UNCHANGED <<registered, parent, ctx, serverVars, own, handlerVars>>

\* The select finds that the server has ended.
StartServerEnded(s) ==
    /\ done[s] \in {"nil", "error"}
    /\ GoStart(s, "selecting", "failed")
    /\ done' = [done EXCEPT ![s] = "taken"]
    /\ ClearIfServer(s)
    /\ CancelRun(s)
    /\ UNCHANGED <<parent, socket, started, serve, ready, outcome, closeVars, handlerVars>>

\* The select finds the context cancelled.
StartCancelled(s) ==
    /\ parent[s] = "cancelled"
    /\ GoStart(s, "selecting", "cancelling")
    /\ UNCHANGED <<registered, parent, ctx, serverVars, closeVars, handlerVars>>

\* cancelStartup, under r.mu.
Unregister(s) ==
    /\ GoStart(s, "cancelling", "releasing")
    /\ ClearIfServer(s)
    /\ UNCHANGED <<parent, ctx, serverVars, closeVars, handlerVars>>

\* Mutated: the listener is left to the server's goroutine.
ReleaseKeepsSocket(s) ==
    /\ GoStart(s, "releasing", "draining")
    /\ CancelRun(s)
    /\ UNCHANGED <<registered, parent, serverVars, closeVars, handlerVars>>

\* cancelStartup: cancel, and close the listener under the server.
Release(s) ==
    /\ GoStart(s, "releasing", "draining")
    /\ CancelRun(s)
    /\ CloseSocket(s)
    /\ UNCHANGED <<registered, parent, started, serve, ready, outcome, done, closeVars,
                   handlerVars>>

\* cancelStartup returns an error when the server has ended, or after a second.
StartGivesUp(s) ==
    /\ GoStart(s, "draining", "failed")
    /\ done' = [done EXCEPT ![s] = IF @ = "empty" THEN @ ELSE "taken"]
    /\ UNCHANGED <<registered, parent, ctx, socket, started, serve, ready, outcome, closeVars,
                   handlerVars>>

\* The caller of Start cancels the context it gave.
CancelParent(s) ==
    /\ s \in Cancellable
    /\ parent[s] = "live"
    /\ parent' = [parent EXCEPT ![s] = "cancelled"]
    /\ CancelRun(s)
    /\ UNCHANGED <<registered, starting, serverVars, closeVars, handlerVars>>

StartStep(s) ==
    \/ AlreadyStarted(s) \/ Publish(s)
    \/ StartReady(s) \/ StartServerEnded(s) \/ StartCancelled(s)
    \/ Unregister(s) \/ Release(s) \/ StartGivesUp(s)

-----------------------------------------------------------------------------
(* The server's goroutine *)

\* ActivateAndServe sets the options of the socket.
Activate(s) ==
    /\ socket[s] = "open"
    /\ GoServe(s, "spawned", "activated")
    /\ started' = [started EXCEPT ![s] = "started"]
    /\ UNCHANGED <<registered, startVars, socket, ready, outcome, done, closeVars, handlerVars>>

\* Those of a closed socket cannot be set, and those of an open one may not be.
ActivateFails(s) ==
    /\ socket[s] = "closed" \/ "activate" \in Faults
    /\ GoServe(s, "spawned", "draining")
    /\ outcome' = [outcome EXCEPT ![s] = "error"]
    /\ UNCHANGED <<registered, startVars, socket, started, ready, done, closeVars, handlerVars>>

\* NotifyStartedFunc closes "ready".
Notify(s) ==
    /\ GoServe(s, "activated", "serving")
    /\ ready' = [ready EXCEPT ![s] = TRUE]
    /\ UNCHANGED <<registered, startVars, socket, started, outcome, done, closeVars, handlerVars>>

\* The loop ends: quietly after a shutdown, with an error when the socket is closed
\* under it or fails.
LeaveLoop(s) ==
    /\ started[s] = "stopped" \/ socket[s] = "closed" \/ "die" \in Faults
    /\ GoServe(s, "serving", "draining")
    /\ outcome' = [outcome EXCEPT ![s] = IF started[s] = "stopped" THEN "nil" ELSE "error"]
    /\ UNCHANGED <<registered, startVars, socket, started, ready, done, closeVars, handlerVars>>

\* Its handlers have returned: ActivateAndServe returns and closes the socket, but not
\* one it could not activate.
ServerEnds(s) ==
    /\ AtWork(s) = {}
    /\ GoServe(s, "draining", "ended")
    /\ IF started[s] = "new" THEN UNCHANGED socket ELSE CloseSocket(s)
    /\ done' = [done EXCEPT ![s] = outcome[s]]
    /\ UNCHANGED <<registered, startVars, started, ready, outcome, closeVars, handlerVars>>

ServerStep(s) ==
    \/ Activate(s) \/ ActivateFails(s) \/ Notify(s)
    \/ (started[s] = "stopped" \/ socket[s] = "closed") /\ LeaveLoop(s)
    \/ ServerEnds(s)

-----------------------------------------------------------------------------
(* Close *)

\* Close under r.mu: takes the server, if any, and clears the runtime.
TakeServer(c) ==
    /\ own' = [own EXCEPT ![c] = registered]
    /\ closing' = [closing EXCEPT ![c] = IF registered = None THEN "ok" ELSE "took"]
    /\ registered' = None
    /\ UNCHANGED <<startVars, serverVars, handlerVars>>

CallClose(c) ==
    /\ closing[c] = "idle"
    /\ MayClose
    /\ TakeServer(c)

\* The watcher of s finds runCtx done and closes whatever is registered.
Watch(s) ==
    /\ closing[s] = "watching"
    /\ ctx[s] = "cancelled"
    /\ TakeServer(s)

CancelHandlers(c) ==
    /\ GoClose(c, "took", "cancelled")
    /\ CancelRun(own[c])
    /\ UNCHANGED <<registered, starting, parent, serverVars, own, handlerVars>>

\* ShutdownContext marks the server stopped, which ends its loop.
Shutdown(c) ==
    /\ GoClose(c, "cancelled", "shutting")
    /\ started[own[c]] = "started"
    /\ started' = [started EXCEPT ![own[c]] = "stopped"]
    /\ UNCHANGED <<registered, startVars, socket, serve, ready, outcome, done, own, handlerVars>>

\* ShutdownContext refuses a server that is not started; Close returns its error.
ShutdownRefused(c) ==
    /\ GoClose(c, "cancelled", "failed")
    /\ started[own[c]] # "started"
    /\ UNCHANGED <<registered, startVars, serverVars, own, handlerVars>>

\* Mutated: the shutdown does not wait for the handlers.
ShutdownEndsAtOnce(c) ==
    /\ GoClose(c, "shutting", "ok")
    /\ CloseSocket(own[c])
    /\ UNCHANGED <<registered, startVars, started, serve, ready, outcome, done, own, handlerVars>>

\* Mutated: the shutdown has no time limit.
ShutdownUnlimited(c) ==
    /\ GoClose(c, "shutting", "finishing")
    /\ serve[own[c]] = "ended"
    /\ CloseSocket(own[c])
    /\ UNCHANGED <<registered, startVars, started, serve, ready, outcome, done, own, handlerVars>>

\* ShutdownContext waits for the handlers, a second at most, and closes the socket.
ShutdownEnds(c) ==
    /\ \/ GoClose(c, "shutting", "finishing") /\ serve[own[c]] = "ended"
       \/ GoClose(c, "shutting", "failed")
    /\ CloseSocket(own[c])
    /\ UNCHANGED <<registered, startVars, started, serve, ready, outcome, done, own, handlerVars>>

\* Mutated: what the server returned is not looked at.
FinishUnchecked(c) ==
    /\ GoClose(c, "finishing", "ok")
    /\ done' = [done EXCEPT ![own[c]] = IF @ = "empty" THEN @ ELSE "taken"]
    /\ UNCHANGED <<registered, startVars, socket, started, serve, ready, outcome, own, handlerVars>>

\* Close reads "done", a second at most, and returns the server's error.
Finish(c) ==
    /\ \/ GoClose(c, "finishing", "ok") /\ done[own[c]] = "nil"
       \/ GoClose(c, "finishing", "failed") /\ done[own[c]] # "nil"
    /\ done' = [done EXCEPT ![own[c]] = IF @ = "empty" THEN @ ELSE "taken"]
    /\ UNCHANGED <<registered, startVars, socket, started, serve, ready, outcome, own, handlerVars>>

CloseStep(c) ==
    \/ CancelHandlers(c) \/ Shutdown(c) \/ ShutdownRefused(c) \/ ShutdownEnds(c)
    \/ Finish(c)

-----------------------------------------------------------------------------
(* handleDNS *)

\* The server hands a request to a new goroutine.
Receive(h, s) ==
    /\ serve[s] = "serving"
    /\ socket[s] = "open"
    /\ GoHandle(h, "idle", "received")
    /\ request' = [request EXCEPT ![h].server = s]
    /\ UNCHANGED <<registered, startVars, serverVars, closeVars>>

\* The copy of r.config and r.ctx, under r.mu.
CopyConfig(h) ==
    /\ GoHandle(h, "received", "asking")
    /\ request' = [request EXCEPT ![h].config = registered]
    /\ UNCHANGED <<registered, startVars, serverVars, closeVars>>

\* Exchange fails, as it does with the empty upstream of a closed runtime.
ExchangeFails(h) ==
    /\ GoHandle(h, "asking", "refused")
    /\ UNCHANGED <<registered, startVars, serverVars, closeVars, request>>

\* Mutated: the rules are read again after the exchange.
ExchangeRereads(h) ==
    /\ request[h].config # None
    /\ GoHandle(h, "asking", "adding")
    /\ \E n \in 0..MaxAddresses :
        request' = [request EXCEPT ![h].unrouted = n,
                                   ![h].left = IF registered = None THEN 0 ELSE n]
    /\ UNCHANGED <<registered, startVars, serverVars, closeVars>>

\* The upstream answers; so many of its addresses belong to bypassed domains.
Exchange(h) ==
    /\ request[h].config # None
    /\ GoHandle(h, "asking", "adding")
    /\ \E n \in 0..MaxAddresses :
        request' = [request EXCEPT ![h].unrouted = n, ![h].left = n]
    /\ UNCHANGED <<registered, startVars, serverVars, closeVars>>

\* HandleAnswer: AddBypassRoute accepts the next address.
AddRoute(h) ==
    /\ handling[h] = "adding"
    /\ request[h].left > 0
    /\ request' = [request EXCEPT ![h].left = @ - 1, ![h].unrouted = @ - 1]
    /\ UNCHANGED <<registered, startVars, serverVars, closeVars, handling>>

\* AddBypassRoute fails (the command, or the cancelled context): SERVFAIL.
AddRouteFails(h) ==
    /\ request[h].left > 0
    /\ GoHandle(h, "adding", "refused")
    /\ UNCHANGED <<registered, startVars, serverVars, closeVars, request>>

\* Every address is routed: the upstream's answer is passed on.
Answer(h) ==
    /\ request[h].left = 0
    /\ GoHandle(h, "adding", "answered")
    /\ UNCHANGED <<registered, startVars, serverVars, closeVars, request>>

\* The handler returns.
Return(h) ==
    /\ handling[h] \in {"answered", "refused"}
    /\ handling' = [handling EXCEPT ![h] = "idle"]
    /\ request' = [request EXCEPT ![h] = NoRequest]
    /\ UNCHANGED <<registered, startVars, serverVars, closeVars>>

HandlerStep(h) ==
    \/ CopyConfig(h) \/ ExchangeFails(h) \/ Exchange(h)
    \/ AddRoute(h) \/ AddRouteFails(h) \/ Answer(h) \/ Return(h)

-----------------------------------------------------------------------------
Next ==
    \/ \E s \in Starters :
        \/ Rejected(s) \/ Listen(s) \/ StartStep(s) \/ CancelParent(s)
        \/ Activate(s) \/ ActivateFails(s) \/ Notify(s) \/ LeaveLoop(s) \/ ServerEnds(s)
        \/ Watch(s)
    \/ \E c \in Closers : CallClose(c)
    \/ \E c \in Calls : CloseStep(c)
    \/ \E h \in Handlers :
        \/ \E s \in Starters : Receive(h, s)
        \/ HandlerStep(h)

\* Start, Close, the watchers and the servers go on.  Nothing is assumed of the
\* handlers, whose commands and upstream may hang.
Fairness ==
    /\ \A s \in Starters : WF_vars(StartStep(s)) /\ WF_vars(ServerStep(s)) /\ WF_vars(Watch(s))
    /\ \A c \in Calls : WF_vars(CloseStep(c))

Spec == Init /\ [][Next]_vars /\ Fairness

-----------------------------------------------------------------------------
(* Properties *)

Request == [server : Starters \cup {None}, config : Starters \cup {None},
            left : 0..MaxAddresses, unrouted : 0..MaxAddresses]

\* Types; a Close past its first step has a server.
TypeOK ==
    /\ registered \in Starters \cup {None}
    /\ starting \in [Starters -> {"idle", "listening", "selecting", "cancelling", "releasing",
                                  "draining", "ok", "failed"}]
    /\ parent \in [Starters -> {"live", "cancelled"}]
    /\ ctx \in [Starters -> {"live", "cancelled"}]
    /\ socket \in [Starters -> {"none", "open", "closed"}]
    /\ started \in [Starters -> {"new", "started", "stopped"}]
    /\ serve \in [Starters -> {"none", "spawned", "activated", "serving", "draining", "ended"}]
    /\ ready \in [Starters -> BOOLEAN]
    /\ outcome \in [Starters -> {"none", "nil", "error"}]
    /\ done \in [Starters -> {"empty", "nil", "error", "taken"}]
    /\ closing \in [Calls -> {"idle", "watching", "took", "cancelled", "shutting", "finishing",
                              "ok", "failed"}]
    /\ own \in [Calls -> Starters \cup {None}]
    /\ \A c \in Calls : closing[c] \notin {"idle", "watching", "ok"} => own[c] # None
    /\ handling \in [Handlers -> {"idle", "received", "asking", "adding", "answered", "refused"}]
    /\ request \in [Handlers -> Request]

\* The server has ended without having been activated.  Where that was not because
\* its socket had been closed, nobody closes the socket: neither the library, which
\* only does so behind its loop, nor the branch of Start that finds the error.
NeverActivated(s) == serve[s] = "ended" /\ started[s] = "new"

\* A listening server can still be stopped: it is registered, or its Start or a
\* Close that took it is still at work.  Otherwise it would hold port 53 and answer
\* the host's queries for as long as the process lives.  A socket that could not be
\* activated is the exception; nothing is answered there.
NoOrphanServer ==
    \A s \in Starters : socket[s] = "open" /\ ~NeverActivated(s) =>
        \/ registered = s
        \/ InStart(s)
        \/ \E c \in Calls : own[c] = s /\ closing[c] \notin {"ok", "failed"}

\* A Start that failed leaves nothing behind: no listener and no registration,
\* whichever of ready, done and the context its select saw first; only the socket of
\* a server that could not be activated stays open.
FailedStartReleases ==
    \A s \in Starters : starting[s] = "failed" =>
        /\ socket[s] # "open" \/ NeverActivated(s)
        /\ registered # s

\* The Close that took a server and returned nil has waited for its handlers: none of
\* them can add a bypass route any more when the next rollback takes the routes.
CloseDrains ==
    \A c \in Calls : closing[c] = "ok" /\ own[c] # None =>
        AtWork(own[c]) = {} /\ serve[own[c]] = "ended"

\* A server that died unnoticed is reported by the Close that stops it.
FailureReported ==
    \A c \in Calls : closing[c] = "ok" /\ own[c] # None => outcome[own[c]] = "nil"

\* An answer for a bypassed domain is passed on only when every address in it has
\* been accepted by AddBypassRoute, although Close may clear the configuration at
\* any point of the handler.
AnswerRouted ==
    \A h \in Handlers : handling[h] = "answered" => request[h].unrouted = 0

\* Close returns although its server's handlers may hang: both waits are limited.
CloseReturns ==
    \A c \in Calls : closing[c] \notin {"idle", "watching"} ~> closing[c] \in {"ok", "failed"}

\* Cancelling the context stops the server, before and after Start has returned,
\* unless it could not be activated.
CancelStops ==
    \A s \in Starters : parent[s] = "cancelled" ~> socket[s] # "open" \/ NeverActivated(s)
=============================================================================
