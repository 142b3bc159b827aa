--------------------------- MODULE DynamicRoutes ---------------------------
(***************************************************************************)
(* The dynamic bypass routes of the tunnel: dynamicRouteSet                *)
(* (internal/routing/builders.go) and the platform type around it          *)
(* (LinuxDynamicBypassRoutes, DarwinDynamicBypassRoutes, which are the     *)
(* same program with another command line).                                *)
(*                                                                         *)
(* DNS handlers call AddBypassRoute concurrently; each entry carries a     *)
(* time.AfterFunc timer whose callback deletes the route again; Close      *)
(* deletes what is left.  The mutex s.mu covers the map only: every "ip    *)
(* route" command runs outside it, and that is where the steps of this     *)
(* module interleave.                                                      *)
(*                                                                         *)
(* Time is counted in ticks of some minutes.  A timer is its remaining     *)
(* ticks, so that no behaviour is cut off by a horizon.                    *)
(***************************************************************************)
EXTENDS Integers, FiniteSets

CONSTANTS
    Prefixes,        \* the /32 prefixes answers resolve to
    Callers,         \* goroutines handling DNS requests
    None,            \* "no prefix": the target of an idle caller
    TTLs,            \* route lifetimes asked for, in ticks
    Foreign,         \* prefixes routed by somebody else before the tunnel is up
    MaxGeneration,   \* bound: refreshes of one entry the model follows
    Faults,          \* which commands may go wrong: "add", "del", "kill"
    PromptTimers,    \* a fired callback gets s.mu before the next tick
    DrainTimeout     \* Close may run although a handler is still at work

ASSUME PrefixesAssumption == None \notin Prefixes /\ Foreign \subseteq Prefixes
ASSUME TTLAssumption == \A ttl \in TTLs : ttl \in Nat /\ ttl > 0
ASSUME GenerationAssumption == MaxGeneration \in Nat \ {0}
ASSUME FaultsAssumption == Faults \subseteq {"add", "del", "kill"}
ASSUME SwitchAssumption == PromptTimers \in BOOLEAN /\ DrainTimeout \in BOOLEAN

VARIABLES
    routes,    \* dynamicRouteSet.routes: one entry per prefix
    fired,     \* callbacks that left the timer and wait for s.mu
    expiring,  \* prefixes whose callback is running its delete command
    pc,        \* where each caller is in AddBypassRoute
    target,    \* the prefix each caller is adding
    kernel,    \* the routing table
    ctx,       \* the runtime context the add commands run under
    closer,    \* progress of Close
    taken      \* prefixes Close has still to delete

vars == <<routes, fired, expiring, pc, target, kernel, ctx, closer, taken>>

-----------------------------------------------------------------------------
(* State *)

\* A prefix without an entry.  A nil map and an empty one behave alike in every
\* operation, so both are "all absent".
NoEntry == [state |-> "absent", ttl |-> 0, timer |-> 0, generation |-> 0]

\* dynamicRouteEntry; timer is the ticks left, 0 when none is armed.
Entry == [state : {"absent", "pending", "added"}, ttl : TTLs \cup {0},
          timer : Nat, generation : Nat]

Callback == [prefix : Prefixes, generation : Nat]

Init ==
    /\ routes = [p \in Prefixes |-> NoEntry]
    /\ fired = {}
    /\ expiring = {}
    /\ pc = [c \in Callers |-> "idle"]
    /\ target = [c \in Callers |-> None]
    /\ kernel = [p \in Prefixes |-> IF p \in Foreign THEN "foreign" ELSE "absent"]
    /\ ctx = "live"
    /\ closer = "open"
    /\ taken = {}

\* Mutated: the generation moves on but no timer is armed.
KeepTimer(entry) == [entry EXCEPT !.generation = @ + 1]

\* resetTimerLocked: stops the armed timer, starts a new generation and arms a
\* timer for the entry's ttl.  A callback already in "fired" cannot be stopped.
ResetTimer(entry) ==
    [entry EXCEPT !.generation = @ + 1, !.timer = entry.ttl]

Move(c, from, to) == pc[c] = from /\ pc' = [pc EXCEPT ![c] = to]

\* Mutated: the returning caller keeps its target.
FinishKeepingTarget(c, from) == Move(c, from, "idle") /\ UNCHANGED target

Finish(c, from) == Move(c, from, "idle") /\ target' = [target EXCEPT ![c] = None]

-----------------------------------------------------------------------------
(* AddBypassRoute *)

\* reserve finds no entry: the caller owns the prefix and will add the route.
ReserveNew(c, p, ttl) ==
    /\ closer = "open" \/ DrainTimeout
    /\ Move(c, "idle", "reserved")
    /\ routes[p].state = "absent"
    /\ routes' = [routes EXCEPT ![p] = [NoEntry EXCEPT !.state = "pending", !.ttl = ttl]]
    /\ target' = [target EXCEPT ![c] = p]
    /\ UNCHANGED <<fired, expiring, kernel, ctx, closer, taken>>

\* reserve finds an entry: ttl is overwritten, the timer of an added entry is
\* reset, and AddBypassRoute returns nil at once, the add command of a pending
\* entry still running.
ReserveAgain(c, p, ttl) ==
    /\ closer = "open" \/ DrainTimeout
    /\ pc[c] = "idle"
    /\ routes[p].state # "absent"
    /\ routes[p].generation < MaxGeneration
    /\ LET entry == [routes[p] EXCEPT !.ttl = ttl] IN
        routes' = [routes EXCEPT ![p] =
            IF entry.state = "added" THEN ResetTimer(entry) ELSE entry]
    /\ UNCHANGED <<fired, expiring, pc, target, kernel, ctx, closer, taken>>

Reserve(c, p, ttl) == ReserveNew(c, p, ttl) \/ ReserveAgain(c, p, ttl)

\* Runner.Run starts "ip route add", unless its context is already cancelled.
StartAdd(c) ==
    /\ Move(c, "reserved", IF ctx = "live" THEN "running" ELSE "failed")
    /\ UNCHANGED <<routes, fired, expiring, target, kernel, ctx, closer, taken>>

\* The command installs the route and exits with status 0.
AddSucceeds(c) ==
    /\ Move(c, "running", "installed")
    /\ kernel[target[c]] = "absent"
    /\ kernel' = [kernel EXCEPT ![target[c]] = "bypass"]
    /\ UNCHANGED <<routes, fired, expiring, target, ctx, closer, taken>>

\* Mutated: the error of the command is not looked at.
AddFailsUnnoticed(c) ==
    /\ Move(c, "running", "installed")
    /\ kernel[target[c]] # "absent"
    /\ UNCHANGED <<routes, fired, expiring, target, kernel, ctx, closer, taken>>

\* The command fails and changes nothing: the kernel has a route for the prefix,
\* the command is refused, or it is killed before it reached the kernel.
AddFails(c) ==
    /\ Move(c, "running", "failed")
    /\ \/ kernel[target[c]] # "absent"
       \/ "add" \in Faults
       \/ ctx = "cancelled"
    /\ UNCHANGED <<routes, fired, expiring, target, kernel, ctx, closer, taken>>

\* The context is cancelled after the kernel took the route and before the
\* command exited: Run reports an error for a route that is installed.
AddKilled(c) ==
    /\ "kill" \in Faults
    /\ ctx = "cancelled"
    /\ Move(c, "running", "failed")
    /\ kernel[target[c]] = "absent"
    /\ kernel' = [kernel EXCEPT ![target[c]] = "bypass"]
    /\ UNCHANGED <<routes, fired, expiring, target, ctx, closer, taken>>

\* markAdded: silently returns when the entry is gone (Close took the map).
MarkAdded(c) ==
    /\ Finish(c, "installed")
    /\ LET p == target[c] IN
        routes' = [routes EXCEPT ![p] =
            IF @.state = "absent" THEN @ ELSE ResetTimer([@ EXCEPT !.state = "added"])]
    /\ UNCHANGED <<fired, expiring, kernel, ctx, closer, taken>>

\* Mutated: a failed add leaves its reservation behind.
ForgetNothing(c) ==
    /\ Finish(c, "failed")
    /\ UNCHANGED <<routes, fired, expiring, kernel, ctx, closer, taken>>

\* forget: stops the timer and deletes whatever entry the prefix has.
Forget(c) ==
    /\ Finish(c, "failed")
    /\ routes' = [routes EXCEPT ![target[c]] = NoEntry]
    /\ UNCHANGED <<fired, expiring, kernel, ctx, closer, taken>>

-----------------------------------------------------------------------------
(* Timers *)

\* Time passes.  A timer with one tick left fires: its callback starts.
Tick ==
    /\ PromptTimers => fired = {}
    /\ \E p \in Prefixes : routes[p].timer > 0
    /\ routes' = [p \in Prefixes |->
            [routes[p] EXCEPT !.timer = IF @ > 0 THEN @ - 1 ELSE 0]]
    /\ fired' = fired \cup
            {[prefix |-> p, generation |-> routes[p].generation] :
                p \in {q \in Prefixes : routes[q].timer = 1}}
    /\ UNCHANGED <<expiring, pc, target, kernel, ctx, closer, taken>>

\* Mutated: any callback of an added entry counts as its latest.
CurrentAnyGeneration(cb) == routes[cb.prefix].state = "added"

\* The entry a callback may expire: added, and not refreshed since.
Current(cb) ==
    /\ routes[cb.prefix].state = "added"
    /\ routes[cb.prefix].generation = cb.generation

\* expire under s.mu: returns when the callback is stale, otherwise forgets the
\* entry and goes on to the delete command.
Expire(cb) ==
    /\ cb \in fired
    /\ fired' = fired \ {cb}
    /\ routes' = IF Current(cb) THEN [routes EXCEPT ![cb.prefix] = NoEntry] ELSE routes
    /\ expiring' = IF Current(cb) THEN expiring \cup {cb.prefix} ELSE expiring
    /\ UNCHANGED <<pc, target, kernel, ctx, closer, taken>>

\* "ip route del": removes whatever route the prefix has, or fails.
DeleteRoute(p) ==
    \/ /\ kernel' = [kernel EXCEPT ![p] = "absent"]
    \/ /\ "del" \in Faults
       /\ UNCHANGED kernel

\* The delete command of an expired entry; its error is dropped.
ExpireDelete(p) ==
    /\ p \in expiring
    /\ expiring' = expiring \ {p}
    /\ DeleteRoute(p)
    /\ UNCHANGED <<routes, fired, pc, target, ctx, closer, taken>>

-----------------------------------------------------------------------------
(* Shutdown *)

\* DNSDomainBypassRuntime.Close cancels the context of the handlers.
Cancel ==
    /\ ctx = "live"
    /\ ctx' = "cancelled"
    /\ UNCHANGED <<routes, fired, expiring, pc, target, kernel, closer, taken>>

\* Mutated: pending entries are taken as well.
KnownPrefixes == {p \in Prefixes : routes[p].state # "absent"}

\* Mutated: an entry whose timer has fired is left to its callback.
ArmedPrefixes == {p \in Prefixes : routes[p].timer > 0}

AddedPrefixes == {p \in Prefixes : routes[p].state = "added"}

\* takeAdded: stops every timer, keeps the added prefixes for deletion and drops
\* the map, pending entries included.  The runtime has been closed before; it
\* waits at most a second for its handlers.
TakeAdded ==
    /\ closer = "open"
    /\ ctx = "cancelled"
    /\ DrainTimeout \/ \A c \in Callers : pc[c] = "idle"
    /\ closer' = "closing"
    /\ taken' = AddedPrefixes
    /\ routes' = [p \in Prefixes |-> NoEntry]
    /\ UNCHANGED <<fired, expiring, pc, target, kernel, ctx>>

CloseDelete(p) ==
    /\ p \in taken
    /\ taken' = taken \ {p}
    /\ DeleteRoute(p)
    /\ UNCHANGED <<routes, fired, expiring, pc, target, ctx, closer>>

CloseReturns ==
    /\ closer = "closing"
    /\ taken = {}
    /\ closer' = "closed"
    /\ UNCHANGED <<routes, fired, expiring, pc, target, kernel, ctx, taken>>

-----------------------------------------------------------------------------
CallerStep(c) ==
    \/ StartAdd(c)
    \/ AddSucceeds(c)
    \/ AddFails(c)
    \/ AddKilled(c)
    \/ MarkAdded(c)
    \/ Forget(c)

Next ==
    \/ \E c \in Callers, p \in Prefixes, ttl \in TTLs : Reserve(c, p, ttl)
    \/ \E c \in Callers : CallerStep(c)
    \/ Tick
    \/ \E cb \in fired : Expire(cb)
    \/ \E p \in Prefixes : ExpireDelete(p)
    \/ Cancel
    \/ TakeAdded
    \/ \E p \in Prefixes : CloseDelete(p)
    \/ CloseReturns

\* A goroutine that has started goes on, commands end, time passes; nobody has to
\* ask for a route or to close the tunnel.
Fairness ==
    /\ \A c \in Callers : WF_vars(CallerStep(c))
    /\ WF_vars(Tick)
    /\ \A p \in Prefixes, g \in 1..MaxGeneration :
            WF_vars(Expire([prefix |-> p, generation |-> g]))
    /\ \A p \in Prefixes : WF_vars(ExpireDelete(p)) /\ WF_vars(CloseDelete(p))
    /\ WF_vars(CloseReturns)

Spec == Init /\ [][Next]_vars /\ Fairness

-----------------------------------------------------------------------------
(* Properties *)

\* Every variable keeps its type, and exactly the callers inside AddBypassRoute
\* have a target.
TypeOK ==
    /\ routes \in [Prefixes -> Entry]
    /\ fired \subseteq Callback
    /\ expiring \subseteq Prefixes
    /\ pc \in [Callers -> {"idle", "reserved", "running", "installed", "failed"}]
    /\ target \in [Callers -> Prefixes \cup {None}]
    /\ \A c \in Callers : target[c] = None <=> pc[c] = "idle"
    /\ kernel \in [Prefixes -> {"absent", "foreign", "bypass"}]
    /\ ctx \in {"live", "cancelled"}
    /\ closer \in {"open", "closing", "closed"}
    /\ taken \subseteq Prefixes

\* The callers that installed a route for p and have not yet recorded it.
Installers(p) == {c \in Callers : pc[c] = "installed" /\ target[c] = p}

Owned(p) ==
    \/ routes[p].state = "added"
    \/ p \in expiring
    \/ p \in taken
    \/ Installers(p) # {}

\* A route the program believes it has to delete is installed and is the
\* program's own, and exactly one party will delete it: the set's entry, an
\* expiry callback, Close, or the caller about to record it.  Two owners would
\* delete a route twice, the second time a route someone else added meanwhile
\* (AddBypassRoute, expire and Close run their commands outside s.mu).
RouteOwnership ==
    \A p \in Prefixes :
        /\ Owned(p) => kernel[p] = "bypass"
        /\ routes[p].state = "added" => p \notin expiring \cup taken
        /\ p \notin expiring \cap taken
        /\ \A c \in Installers(p) :
                /\ routes[p].state # "added"
                /\ p \notin expiring \cup taken
                /\ Installers(p) = {c}

\* Until Close, a prefix is pending exactly while one caller is adding it: no two
\* add commands for a prefix run at once (reserve), and no prefix stays reserved
\* by nobody, which would make every later answer for it skip its route.
ReservationHeld ==
    closer = "open" =>
        \A p \in Prefixes :
            /\ routes[p].state = "pending" <=> \E c \in Callers : target[c] = p
            /\ \A c, d \in Callers : target[c] = p /\ target[d] = p => c = d

\* No installed bypass route is ever without an owner, so none outlives the
\* tunnel.  Needs a drained Close and commands that report what they did:
\* DynamicRoutesKilled.cfg shows what a killed command leaves behind.
NoOrphanRoute == \A p \in Prefixes : kernel[p] = "bypass" => Owned(p)

\* When Close has returned and nobody is left at work, no bypass route remains:
\* takeAdded, the callbacks and the callers together undo every add.
RestoredAfterClose ==
    (closer = "closed" /\ fired = {} /\ expiring = {} /\ \A c \in Callers : pc[c] = "idle")
        => \A p \in Prefixes : kernel[p] # "bypass"

\* Routes the program did not add (the endpoint's, a static one) are never
\* touched, although "ip route del" names only a prefix.
ForeignRoutesKept ==
    [][\A p \in Prefixes : (kernel[p] = "foreign") <=> (kernel'[p] = "foreign")]_vars

\* Until Close takes the set over, an added entry leaves it only when the timer of
\* its latest refresh has run out: a callback that fired before the refresh and
\* got s.mu after it must not expire the route (the generation in expire).
LeaseHonoured ==
    [][\A p \in Prefixes :
            /\ closer = "open" /\ closer' = "open"
            /\ routes[p].state = "added" /\ routes'[p].state # "added"
            => routes[p].timer = 0]_vars

\* Every reservation is resolved, whatever the command does, so a failed add can
\* be tried again by the next answer.
PendingResolves ==
    \A p \in Prefixes : routes[p].state = "pending" ~> routes[p].state # "pending"

\* A bypass route nobody asks for any more is removed again in the end, by its
\* timer or by Close, whichever callbacks a refresh left behind.
RouteEventuallyGone ==
    \A p \in Prefixes :
        \/ []<>(kernel[p] # "bypass")
        \/ []<><<\E c \in Callers, ttl \in TTLs : ReserveAgain(c, p, ttl)>>_vars
=============================================================================
