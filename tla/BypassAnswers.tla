---------------------------- MODULE BypassAnswers ----------------------------
(***************************************************************************)
(* The DNS handlers and the dynamic bypass routes together: what a client  *)
(* may assume of an answer it got.  handleDNS and HandleAnswer             *)
(* (internal/dns/forwarder.go) ask for a route for every address of an     *)
(* answer, through the wrapper that leaves out statically routed ones      *)
(* (internal/tunnel/service.go), and release the answer when the last      *)
(* request has been accepted.                                              *)
(*                                                                         *)
(* Every step of this module that touches the routes is a step of          *)
(* DynamicRoutes, whose theorems hold here too.  The handlers are its      *)
(* Callers.  A lifetime is chosen with each request for a route, although  *)
(* the addresses of one name share theirs.                                 *)
(***************************************************************************)
EXTENDS DynamicRoutes, Sequences

CONSTANTS
    Static,   \* prefixes some static rule contains
    Answers   \* the addresses an upstream's answer leads to, in order

ASSUME StaticAssumption == Static \subseteq Prefixes
ASSUME AnswersAssumption == \A a \in Answers : a \in Seq(Prefixes)

VARIABLES
    serving,  \* where each handler is
    left,     \* the addresses it has still to ask a route for
    told,     \* those whose request AddBypassRoute has accepted
    gone      \* history: those of "told" given up since, by a timer or another's failure

handlerVars == <<serving, left, told, gone>>
allVars == <<vars, handlerVars>>

-----------------------------------------------------------------------------
AnswersInit ==
    /\ Init
    /\ serving = [c \in Callers |-> "idle"]
    /\ left = [c \in Callers |-> <<>>]
    /\ told = [c \in Callers |-> {}]
    /\ gone = [c \in Callers |-> {}]

\* AddBypassRoute returns nil to the loop of HandleAnswer.
Accept(c) ==
    /\ left' = [left EXCEPT ![c] = Tail(@)]
    /\ told' = [told EXCEPT ![c] = @ \cup {Head(left[c])}]
    /\ UNCHANGED <<serving, gone>>

\* The route of p has been given up; whoever was told of it does not learn of it.
GiveUp(p) == gone' = [c \in Callers |-> gone[c] \cup ({p} \cap told[c])]

\* The handler is at its next address and not inside AddBypassRoute.
AtNext(c) == serving[c] = "routing" /\ pc[c] = "idle" /\ left[c] # <<>>

\* The upstream has answered; the runtime still has its configuration.
Receive(c, addresses) ==
    /\ serving[c] = "idle"
    /\ ctx = "live"
    /\ serving' = [serving EXCEPT ![c] = "routing"]
    /\ left' = [left EXCEPT ![c] = addresses]
    /\ UNCHANGED <<vars, told, gone>>

\* staticAwareDynamicBypassRoutes returns nil for what a static rule contains.
SkipStatic(c) ==
    /\ AtNext(c)
    /\ Head(left[c]) \in Static
    /\ Accept(c)
    /\ UNCHANGED vars

\* Nobody has asked for the route before: this handler adds it.
AskNew(c, ttl) ==
    /\ AtNext(c)
    /\ Head(left[c]) \notin Static
    /\ ReserveNew(c, Head(left[c]), ttl)
    /\ UNCHANGED handlerVars

\* Somebody has: AddBypassRoute returns nil at once.
AskAgain(c, ttl) ==
    /\ AtNext(c)
    /\ Head(left[c]) \notin Static
    /\ ReserveAgain(c, Head(left[c]), ttl)
    /\ Accept(c)

\* The command has installed the route.
RouteAdded(c) == MarkAdded(c) /\ Accept(c)

\* Mutated: a failed add leaves its reservation behind.
RouteRefusedKeepingReservation(c) ==
    /\ ForgetNothing(c)
    /\ serving' = [serving EXCEPT ![c] = "refused"]
    /\ GiveUp(target[c])
    /\ UNCHANGED <<left, told>>

\* The command has failed, as it does for the endpoint's address: SERVFAIL, and
\* the remaining addresses are not asked for.
RouteRefused(c) ==
    /\ Forget(c)
    /\ serving' = [serving EXCEPT ![c] = "refused"]
    /\ GiveUp(target[c])
    /\ UNCHANGED <<left, told>>

\* Every address has been accepted: the answer goes to the client.
Release(c) ==
    /\ serving[c] = "routing"
    /\ left[c] = <<>>
    /\ serving' = [serving EXCEPT ![c] = "answered"]
    /\ UNCHANGED <<vars, left, told, gone>>

\* The handler's goroutine ends.
HandlerReturns(c) ==
    /\ serving[c] \in {"answered", "refused"}
    /\ serving' = [serving EXCEPT ![c] = "idle"]
    /\ left' = [left EXCEPT ![c] = <<>>]
    /\ told' = [told EXCEPT ![c] = {}]
    /\ gone' = [gone EXCEPT ![c] = {}]
    /\ UNCHANGED vars

\* The timer's callback gives a route up, unless it is stale.
LeaseEnds(cb) ==
    /\ Expire(cb)
    /\ IF Current(cb) THEN GiveUp(cb.prefix) ELSE UNCHANGED gone
    /\ UNCHANGED <<serving, left, told>>

\* The runtime's Close has returned, its handlers with it unless they hang.
CloseRoutes ==
    /\ DrainTimeout \/ \A c \in Callers : serving[c] = "idle"
    /\ TakeAdded
    /\ UNCHANGED handlerVars

\* The steps inside a command, and those of time and of Close.
CommandStep(c) == StartAdd(c) \/ AddSucceeds(c) \/ AddFails(c) \/ AddKilled(c)

HandlerStep(c) ==
    \/ SkipStatic(c) \/ RouteAdded(c) \/ RouteRefused(c) \/ Release(c) \/ HandlerReturns(c)
    \/ \E ttl \in TTLs : AskNew(c, ttl) \/ AskAgain(c, ttl)
    \/ CommandStep(c) /\ UNCHANGED handlerVars

AnswersNext ==
    \/ \E c \in Callers, a \in Answers : Receive(c, a)
    \/ \E c \in Callers : HandlerStep(c)
    \/ \E cb \in fired : LeaseEnds(cb)
    \/ (Tick \/ Cancel \/ CloseReturns) /\ UNCHANGED handlerVars
    \/ \E p \in Prefixes : (ExpireDelete(p) \/ CloseDelete(p)) /\ UNCHANGED handlerVars
    \/ CloseRoutes

\* As in DynamicRoutes: goroutines and commands go on and time passes.
AnswersFairness ==
    /\ \A c \in Callers : WF_allVars(HandlerStep(c))
    /\ WF_allVars(Tick /\ UNCHANGED handlerVars)
    /\ \A p \in Prefixes, g \in 1..MaxGeneration :
            WF_allVars(LeaseEnds([prefix |-> p, generation |-> g]))
    /\ \A p \in Prefixes :
            /\ WF_allVars(ExpireDelete(p) /\ UNCHANGED handlerVars)
            /\ WF_allVars(CloseDelete(p) /\ UNCHANGED handlerVars)
    /\ WF_allVars(CloseReturns /\ UNCHANGED handlerVars)

AnswersSpec == AnswersInit /\ [][AnswersNext]_allVars /\ AnswersFairness

-----------------------------------------------------------------------------
(* Properties *)

\* An address a client has been told leaves the tunnel does so, or another handler
\* is adding its route at this moment; unless that handler's add has failed since, or
\* the lease has ended.  So an answer may come before its route, but a failed add
\* never makes later answers for the address skip it (reserve returns false to
\* everyone but the first).
AnswerBacked ==
    \A c \in Callers : \A p \in told[c] \ Static :
        \/ kernel[p] = "bypass"
        \/ \E d \in Callers : target[d] = p
        \/ p \in gone[c]
=============================================================================
