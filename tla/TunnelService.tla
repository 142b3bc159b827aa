--------------------------- MODULE TunnelService ---------------------------
(***************************************************************************)
(* One host on which "awg-proxy tunnel" is run, ended, killed and run      *)
(* again: RunWithDeps (internal/tunnel/service.go) with the route manager, *)
(* the DNS manager and the device it drives, and the routing table and the *)
(* resolver settings it leaves to the next run.                            *)
(*                                                                         *)
(* A service is a place that names DNS servers: on Darwin each enabled     *)
(* network service, on Linux the one file resolv.conf.                     *)
(*                                                                         *)
(* Every setup step that fails returns, and the deferred CleanupStack.Run  *)
(* undoes what was registered, the latest first.  A signal is caught only  *)
(* inside waitForSignal: before and after it, SIGINT and SIGTERM end the   *)
(* process where it stands.  The entries and timers behind dynamic bypass  *)
(* routes are modelled in DynamicRoutes; here each route is held by its    *)
(* entry, by the callback that deletes it, or by nobody.                   *)
(***************************************************************************)
EXTENDS Integers, Sequences, FiniteSets, SequencesExt

CONSTANTS
    Endpoint,    \* destination: the peer's address, /32
    Low, High,   \* destinations: 0.0.0.0/1 and 128.0.0.0/1
    Excluded,    \* destinations static rules may name
    Resolved,    \* destinations answers for bypassed domains resolve to
    Services,    \* the places that name DNS servers
    Options,     \* the command lines and configurations runs are started with
    Faults,      \* what may go wrong: "setup", "undo", "add", "signal", "kill", "die"
    MaxRuns      \* bound: runs the model follows

Tunnelled == {Low, High}
Destinations == {Endpoint} \cup Tunnelled \cup Excluded \cup Resolved

ASSUME DestinationAssumption ==
    /\ Endpoint \notin Tunnelled /\ Low # High
    /\ Tunnelled \cap (Excluded \cup Resolved) = {}
ASSUME ServicesAssumption == Services # {}
ASSUME OptionsAssumption ==
    Options \subseteq [dryRun : BOOLEAN, noDNS : BOOLEAN, servers : Nat,
                       domains : BOOLEAN, literal : BOOLEAN, statics : Seq(Excluded)]
ASSUME FaultsAssumption == Faults \subseteq {"setup", "undo", "add", "signal", "kill", "die"}
ASSUME MaxRunsAssumption == MaxRuns \in Nat

VARIABLES
    process,   \* the process: "down", "setup", "waiting", "cleanup" or how it ended
    stage,     \* the next step of RunWithDeps
    opts,      \* the options of the current run
    todo,      \* destinations Apply has still to add, in order
    stack,     \* CleanupStack.actions
    failed,    \* rollbacks of this run that reported an error
    table,     \* the routing table: who has a route for a destination
    bypass,    \* each dynamic bypass route: "none", "added", "expiring" or "lost"
    device,    \* the TUN device: "none", "created" or "up"
    runtime,   \* the DNS forwarder: "off", "serving" or "dead"
    resolv,    \* what each service names: "none", "system", "tunnel" or "local"
    unset,     \* services the DNS manager has still to set
    original,  \* what it read before it set them
    found,     \* the table and the services as this run found them
    runs       \* runs started so far

run == <<process, stage, opts, todo, stack, failed>>
host == <<table, bypass, device, runtime, resolv>>
vars == <<run, host, unset, original, found, runs>>

-----------------------------------------------------------------------------
(* Helpers *)

Alive == process \in {"setup", "waiting", "cleanup"}

CloseDevice == [undo |-> "device", dest |-> Endpoint]
DeleteRoute(d) == [undo |-> "route", dest |-> d]
CloseDynamic == [undo |-> "dynamic", dest |-> Endpoint]
StopRuntime == [undo |-> "runtime", dest |-> Endpoint]
RestoreDNS == [undo |-> "dns", dest |-> Endpoint]

\* The part of RestoreDNS that concerns one service.
RestoreService(s) == [undo |-> "service", dest |-> s]

\* A step at stage s of a run that is being set up.
At(s) == process = "setup" /\ stage = s

\* CleanupStack.Add, which RunWithDeps calls only before it runs the cleanup.
Register(action) == stack' = Append(stack, action)

\* Returning from RunWithDeps starts the deferred cleanup.
Return == process' = "cleanup" /\ UNCHANGED <<stage, opts, todo, stack, failed>>

\* The dynamic bypass routes that have an entry: those Close takes.
Bypassed == {d \in Resolved : bypass[d] = "added"}

\* Those that have none, but a callback at work or nobody at all.
Unowned == {d \in Resolved : bypass[d] \in {"expiring", "lost"}}

\* Routes of an interface go with it.
WithoutDevice ==
    [d \in Destinations |->
        IF d \in Tunnelled /\ table[d] = "ours" THEN "absent" ELSE table[d]]

\* A dry run has recorders in place of everything that changes the host.
Effect(change, rest) == IF opts.dryRun THEN rest ELSE change

\* Mutated: the tunnel routes come first.
PlanTunnelFirst(o) == <<Low, High, Endpoint>> \o o.statics

\* BuildTunnelPlan and the order in which Apply adds it.
Plan(o) == <<Endpoint>> \o o.statics \o <<Low, High>>

\* What follows the routes, and what follows the forwarder.
DNSStage == IF opts.noDNS THEN "wait" ELSE "dns"
StageAfterRoutes == IF opts.domains THEN "dynamic" ELSE DNSStage

-----------------------------------------------------------------------------
Init ==
    /\ process = "down"
    /\ stage = "wait"
    /\ opts \in Options
    /\ todo = <<>>
    /\ stack = <<>>
    /\ failed = {}
    /\ table \in [Destinations -> {"absent", "foreign"}]
    /\ bypass = [d \in Resolved |-> "none"]
    /\ device = "none"
    /\ runtime = "off"
    /\ resolv \in [Services -> {"none", "system"}]
    /\ unset = {}
    /\ original = resolv
    /\ found = [table |-> table, resolv |-> resolv]
    /\ runs = 0

\* A new process: it knows nothing of the routes an earlier one left.
Start(o) ==
    /\ ~Alive
    /\ runs < MaxRuns
    /\ runs' = runs + 1
    /\ process' = "setup"
    /\ stage' = "preflight"
    /\ opts' = o
    /\ todo' = Plan(o)
    /\ stack' = <<>>
    /\ failed' = {}
    /\ table' = [d \in Destinations |-> IF table[d] = "ours" THEN "left" ELSE table[d]]
    /\ bypass' = [d \in Resolved |-> "none"]
    /\ unset' = {}
    /\ found' = [table |-> table', resolv |-> resolv]
    /\ UNCHANGED <<device, runtime, resolv, original>>

\* Mutated: domain rules are accepted together with --no-dns.
AcceptableWithoutDNS ==
    /\ opts.noDNS \/ opts.servers > 0
    /\ opts.literal \/ \E s \in Services : resolv[s] # "local"

\* The checks before any change: DNS servers unless --no-dns, no domain rules
\* with --no-dns, and an endpoint that resolves (a name does not, while all
\* there is to ask is the forwarder of a dead run).
Acceptable ==
    /\ opts.noDNS \/ opts.servers > 0
    /\ ~(opts.noDNS /\ opts.domains)
    /\ opts.literal \/ \E s \in Services : resolv[s] # "local"

PreflightPasses ==
    /\ At("preflight")
    /\ Acceptable
    /\ stage' = "create"
    /\ UNCHANGED <<process, opts, todo, stack, failed, host, unset, original, found, runs>>

\* Rejected, or a config, rules file or lookup that fails: nothing to clean up.
PreflightFails ==
    /\ At("preflight")
    /\ ~Acceptable \/ "setup" \in Faults
    /\ process' = "exited"
    /\ UNCHANGED <<stage, opts, todo, stack, failed, host, unset, original, found, runs>>
-----------------------------------------------------------------------------
(* Setup *)

\* Any later step that fails without having changed the host: the device cannot
\* be created or configured, the UAPI is refused, there is no default route, a
\* route command is refused, the forwarder cannot listen, resolv.conf cannot be
\* read or written.  A dry run fails only on the UAPI.
StageFails ==
    /\ "setup" \in Faults
    /\ process = "setup"
    /\ stage \notin {"preflight", "wait"}
    /\ opts.dryRun => stage = "up"
    /\ Return
    /\ UNCHANGED <<host, unset, original, found, runs>>

CreateDevice ==
    /\ At("create")
    /\ stage' = "configure"
    /\ device' = Effect("created", device)
    /\ Register(CloseDevice)
    /\ UNCHANGED <<process, opts, todo, failed, table, bypass, runtime, resolv,
                   unset, original, found, runs>>

\* The address and the MTU: they vanish with the device.
ConfigureInterface ==
    /\ At("configure")
    /\ stage' = "up"
    /\ UNCHANGED <<process, opts, todo, stack, failed, host, unset, original, found, runs>>

\* BuildResolvedUAPI and dev.Up.
DeviceUp ==
    /\ At("up")
    /\ stage' = "discover"
    /\ device' = Effect("up", device)
    /\ UNCHANGED <<process, opts, todo, stack, failed, table, bypass, runtime, resolv, unset,
                   original, found, runs>>

DiscoverDefaultRoute ==
    /\ At("discover")
    /\ stage' = "routes"
    /\ UNCHANGED <<process, opts, todo, stack, failed, host, unset, original, found, runs>>

\* Mutated: the rollback is registered although the command failed.
AddRouteRegistersFirst ==
    /\ At("routes")
    /\ todo # <<>>
    /\ Register(DeleteRoute(Head(todo)))
    /\ IF opts.dryRun \/ table[Head(todo)] = "absent"
       THEN /\ table' = Effect([table EXCEPT ![Head(todo)] = "ours"], table)
            /\ todo' = Tail(todo)
            /\ UNCHANGED process
       ELSE process' = "cleanup" /\ UNCHANGED <<table, todo>>
    /\ UNCHANGED <<stage, opts, failed, bypass, device, runtime, resolv,
                   unset, original, found, runs>>

\* The next "ip route add" of Apply succeeds and its rollback is registered.
AddRoute ==
    /\ At("routes")
    /\ todo # <<>>
    /\ opts.dryRun \/ table[Head(todo)] = "absent"
    /\ table' = Effect([table EXCEPT ![Head(todo)] = "ours"], table)
    /\ todo' = Tail(todo)
    /\ Register(DeleteRoute(Head(todo)))
    /\ UNCHANGED <<process, stage, opts, failed, bypass, device, runtime, resolv,
                   unset, original, found, runs>>

\* The kernel has a route for the destination already: Apply returns the error.
RouteExists ==
    /\ At("routes")
    /\ todo # <<>>
    /\ ~opts.dryRun /\ table[Head(todo)] # "absent"
    /\ Return
    /\ UNCHANGED <<host, unset, original, found, runs>>

RoutesApplied ==
    /\ At("routes")
    /\ todo = <<>>
    /\ stage' = StageAfterRoutes
    /\ UNCHANGED <<process, opts, todo, stack, failed, host, unset, original, found, runs>>

\* Mutated: the rollback of the dynamic routes is not registered.
OpenDynamicUnregistered ==
    /\ At("dynamic")
    /\ stage' = "runtime"
    /\ UNCHANGED <<process, opts, todo, stack, failed, host, unset, original, found, runs>>

\* DynamicRoutesFactory: the rollback is registered before anything can be added.
OpenDynamic ==
    /\ At("dynamic")
    /\ stage' = "runtime"
    /\ Register(CloseDynamic)
    /\ UNCHANGED <<process, opts, todo, failed, host, unset, original, found, runs>>

\* Mutated: the error of Start is not looked at.
StartRuntimeUnchecked ==
    /\ At("runtime")
    /\ stage' = DNSStage
    /\ runtime' \in {runtime, Effect("serving", runtime)}
    /\ Register(StopRuntime)
    /\ UNCHANGED <<process, opts, todo, failed, table, bypass, device, resolv,
                   unset, original, found, runs>>

\* runtime.Start with dnsServers[0] as upstream; from here on it serves.
StartRuntime ==
    /\ At("runtime")
    /\ stage' = DNSStage
    /\ runtime' = Effect("serving", runtime)
    /\ Register(StopRuntime)
    /\ UNCHANGED <<process, opts, todo, failed, table, bypass, device, resolv,
                   unset, original, found, runs>>

\* Mutated: the restoration is not registered.
ReadDNSUnregistered ==
    /\ At("dns")
    /\ stage' = "write"
    /\ original' = Effect(resolv, original)
    /\ unset' = Services
    /\ UNCHANGED <<process, opts, todo, stack, failed, host, found, runs>>

\* DNSManager.Apply reads what every service names and registers the restoration
\* of all of them before it sets the first.
ReadDNS ==
    /\ At("dns")
    /\ stage' = "write"
    /\ original' = Effect(resolv, original)
    /\ unset' = Services
    /\ Register(RestoreDNS)
    /\ UNCHANGED <<process, opts, todo, failed, host, found, runs>>

\* The next service is set, on Linux the file replaced by a rename; with domain
\* rules it names the forwarder.
SetDNS(s) ==
    /\ At("write")
    /\ s \in unset
    /\ unset' = unset \ {s}
    /\ resolv' = Effect([resolv EXCEPT ![s] = IF opts.domains THEN "local" ELSE "tunnel"],
                        resolv)
    /\ UNCHANGED <<run, table, bypass, device, runtime, original, found, runs>>

DNSApplied ==
    /\ At("write")
    /\ unset = {}
    /\ stage' = "wait"
    /\ UNCHANGED <<process, opts, todo, stack, failed, host, unset, original, found, runs>>

\* waitForSignal catches signals from here on; a dry run returns at once.
Wait ==
    /\ At("wait")
    /\ process' = IF opts.dryRun THEN "cleanup" ELSE "waiting"
    /\ UNCHANGED <<stage, opts, todo, stack, failed, host, unset, original, found, runs>>

SetupStep ==
    \/ PreflightPasses \/ PreflightFails \/ StageFails
    \/ CreateDevice \/ ConfigureInterface \/ DeviceUp \/ DiscoverDefaultRoute
    \/ AddRoute \/ RouteExists \/ RoutesApplied
    \/ OpenDynamic \/ StartRuntime \/ ReadDNS \/ DNSApplied \/ Wait
    \/ \E s \in Services : SetDNS(s)

-----------------------------------------------------------------------------
(* While the forwarder serves, and for the handlers that outlive it *)

\* The forwarder has been started, so that a handler may be at work: Close waits no
\* more than a second for those it has.
Handling ==
    /\ Alive
    /\ ~opts.dryRun /\ opts.domains
    /\ stage \in {"dns", "write", "wait"}

\* A handler's "ip route add" takes effect, unless a static rule covers the address;
\* where the kernel has a route already (the endpoint's) the command fails.
AddDynamic(d, state) ==
    /\ Handling
    /\ d \notin Range(opts.statics)
    /\ table[d] = "absent"
    /\ table' = [table EXCEPT ![d] = "ours"]
    /\ bypass' = [bypass EXCEPT ![d] = state]
    /\ UNCHANGED <<run, device, runtime, resolv, unset, original, found, runs>>

\* markAdded finds the entry, which takeAdded has not dropped yet.
Bypass(d) ==
    /\ process = "cleanup" => Contains(stack, CloseDynamic)
    /\ AddDynamic(d, "added")

\* The command is killed after the kernel took the route, by the forwarder's Close or
\* with the terminal's processes by Ctrl+C, and forget drops the entry; or it ends
\* after takeAdded, and markAdded finds none.  Nobody is told, nobody deletes it.
BypassLost(d) == "add" \in Faults /\ AddDynamic(d, "lost")

\* The timer of a bypass route runs out: expire drops the entry and unlocks.
BypassExpires(d) ==
    /\ Alive
    /\ bypass[d] = "added"
    /\ bypass' = [bypass EXCEPT ![d] = "expiring"]
    /\ UNCHANGED <<run, table, device, runtime, resolv, unset, original, found, runs>>

\* Its delete command, whose error is dropped with nobody left to try again.
ExpiryDeletes(d) ==
    /\ Alive
    /\ bypass[d] = "expiring"
    /\ \/ /\ table' = [table EXCEPT ![d] = "absent"]
          /\ bypass' = [bypass EXCEPT ![d] = "none"]
       \/ /\ "undo" \in Faults
          /\ bypass' = [bypass EXCEPT ![d] = "lost"]
          /\ UNCHANGED table
    /\ UNCHANGED <<run, device, runtime, resolv, unset, original, found, runs>>

\* The server ends with an error, which nobody reads before Close.
RuntimeDies ==
    /\ "die" \in Faults
    /\ runtime = "serving"
    /\ runtime' = "dead"
    /\ UNCHANGED <<run, table, bypass, device, resolv, unset, original, found, runs>>

-----------------------------------------------------------------------------
(* The end *)

\* SIGINT or SIGTERM while waitForSignal is listening.
Signal ==
    /\ process = "waiting"
    /\ Return
    /\ UNCHANGED <<host, unset, original, found, runs>>

\* The process is gone, and with it the device, its routes and the forwarder.
Gone(how) ==
    /\ process' = how
    /\ table' = WithoutDevice
    /\ device' = "none"
    /\ runtime' = "off"
    /\ UNCHANGED <<stage, opts, todo, stack, failed, bypass, resolv, unset, original, found,
                   runs>>

\* SIGINT or SIGTERM with nobody listening: before signal.Notify, and after
\* signal.Stop while the cleanup runs.
Interrupt ==
    /\ "signal" \in Faults
    /\ process \in {"setup", "cleanup"}
    /\ Gone("interrupted")

\* The process is killed, or the handler of a DNS request panics.
Kill ==
    /\ "kill" \in Faults
    /\ Alive
    /\ Gone("killed")

\* CleanupStack.Run takes the latest rollback.
Undoing(action) ==
    /\ process = "cleanup"
    /\ stack # <<>>
    /\ Last(stack) = action
    /\ stack' = Front(stack)
    /\ UNCHANGED <<process, stage, opts, todo, unset, original, found, runs>>

\* A route that cannot be deleted is noted and the next rollback runs.
UndoFails ==
    /\ "undo" \in Faults
    /\ ~opts.dryRun
    /\ \E d \in Destinations : Undoing(DeleteRoute(d))
    /\ failed' = failed \cup {Last(stack)}
    /\ UNCHANGED host

UndoDevice ==
    /\ Undoing(CloseDevice)
    /\ table' = Effect(WithoutDevice, table)
    /\ device' = Effect("none", device)
    /\ UNCHANGED <<failed, bypass, runtime, resolv>>

UndoRoute(d) ==
    /\ Undoing(DeleteRoute(d))
    /\ table' = Effect([table EXCEPT ![d] = "absent"], table)
    /\ UNCHANGED <<failed, bypass, device, runtime, resolv>>

\* Close of the dynamic routes deletes each that has an entry; some may fail.
UndoDynamic ==
    /\ Undoing(CloseDynamic)
    /\ \E kept \in SUBSET Bypassed :
        /\ kept # {} => "undo" \in Faults
        /\ table' = [d \in Destinations |->
                        IF d \in Bypassed \ kept THEN "absent" ELSE table[d]]
        /\ failed' = failed \cup {DeleteRoute(d) : d \in kept}
    /\ bypass' = [d \in Resolved |-> IF d \in Bypassed THEN "none" ELSE bypass[d]]
    /\ UNCHANGED <<device, runtime, resolv>>

UndoRuntime ==
    /\ Undoing(StopRuntime)
    /\ runtime' = Effect("off", runtime)
    /\ UNCHANGED <<failed, table, bypass, device, resolv>>

\* Mutated: the first service that cannot be restored ends the restoration.
UndoDNSUntilError ==
    /\ Undoing(RestoreDNS)
    /\ \E kept \in SUBSET Services :
        /\ kept # {} => "undo" \in Faults /\ ~opts.dryRun
        /\ resolv' = Effect([s \in Services |-> IF s \in kept THEN resolv[s] ELSE original[s]],
                            resolv)
        /\ \E noted \in SUBSET kept :
            /\ Cardinality(noted) = IF kept = {} THEN 0 ELSE 1
            /\ failed' = failed \cup {RestoreService(s) : s \in noted}
    /\ UNCHANGED <<table, bypass, device, runtime>>

\* The restoration sets every service to what it named, "Empty" where it named
\* nothing; those that fail are noted, the others still restored.
UndoDNS ==
    /\ Undoing(RestoreDNS)
    /\ \E kept \in SUBSET Services :
        /\ kept # {} => "undo" \in Faults /\ ~opts.dryRun
        /\ resolv' = Effect([s \in Services |-> IF s \in kept THEN resolv[s] ELSE original[s]],
                            resolv)
        /\ failed' = failed \cup {RestoreService(s) : s \in kept}
    /\ UNCHANGED <<table, bypass, device, runtime>>

\* Mutated: the process stays until every rollback has succeeded.
ExitWhenClean ==
    /\ process = "cleanup"
    /\ stack = <<>>
    /\ failed = {}
    /\ process' = "exited"
    /\ UNCHANGED <<stage, opts, todo, stack, failed, host, unset, original, found, runs>>

\* The last rollback has run: RunWithDeps returns, with the errors joined.
Exit ==
    /\ process = "cleanup"
    /\ stack = <<>>
    /\ process' = "exited"
    /\ UNCHANGED <<stage, opts, todo, stack, failed, host, unset, original, found, runs>>

CleanupStep ==
    \/ UndoDevice \/ UndoDynamic \/ UndoRuntime \/ UndoDNS \/ UndoFails \/ Exit
    \/ \E d \in Destinations : UndoRoute(d)

-----------------------------------------------------------------------------
Next ==
    \/ \E o \in Options : Start(o)
    \/ SetupStep
    \/ \E d \in Resolved : Bypass(d) \/ BypassLost(d) \/ BypassExpires(d) \/ ExpiryDeletes(d)
    \/ RuntimeDies
    \/ Signal \/ Interrupt \/ Kill
    \/ CleanupStep

\* RunWithDeps and the cleanup run on one goroutine and go on; nobody has to start
\* a tunnel or to end it.
Fairness == WF_vars(SetupStep) /\ WF_vars(CleanupStep)

Spec == Init /\ [][Next]_vars /\ Fairness

-----------------------------------------------------------------------------
(* Properties *)

Actions == {CloseDevice, CloseDynamic, StopRuntime, RestoreDNS}
              \cup {DeleteRoute(d) : d \in Destinations}

Setting == {"none", "system", "tunnel", "local"}

\* Types, and Apply leaves no route of its plan behind when setup goes on.
TypeOK ==
    /\ process \in {"down", "setup", "waiting", "cleanup", "exited", "interrupted", "killed"}
    /\ stage \in {"preflight", "create", "configure", "up", "discover", "routes", "dynamic",
                  "runtime", "dns", "write", "wait"}
    /\ opts \in Options
    /\ todo \in Seq(Destinations)
    /\ todo # <<>> => stage \notin {"dynamic", "runtime", "dns", "write", "wait"}
    /\ stack \in Seq(Actions)
    /\ failed \subseteq Actions \cup {RestoreService(s) : s \in Services}
    /\ table \in [Destinations -> {"absent", "foreign", "left", "ours"}]
    /\ bypass \in [Resolved -> {"none", "added", "expiring", "lost"}]
    /\ device \in {"none", "created", "up"}
    /\ runtime \in {"off", "serving", "dead"}
    /\ {resolv, original} \subseteq [Services -> Setting]
    /\ unset \subseteq Services
    /\ found \in [table : [Destinations -> {"absent", "foreign", "left", "ours"}],
                  resolv : [Services -> Setting]]
    /\ runs \in 0..MaxRuns

\* A run that ends by itself leaves the table and every service as it found them,
\* wherever setup failed and whatever the run before it left, except for what a
\* rollback reported it could not undo, and for dynamic bypass routes without an
\* entry, of which nothing is reported: one whose delete at its expiry failed or was
\* cut off by the exit, one whose add was killed, and one added after takeAdded.
ExitRestores ==
    process = "exited" =>
        /\ device = "none" /\ runtime = "off"
        /\ \A d \in Destinations :
              \/ table[d] = found.table[d]
              \/ DeleteRoute(d) \in failed
              \/ d \in Unowned
        /\ \A s \in Services : resolv[s] = found.resolv[s] \/ RestoreService(s) \in failed

\* Whatever the run has changed so far, its rollback is on the stack or has been
\* tried: at no point does a failing step, or a bypass route that gets its entry,
\* find nobody to undo it.  The one exception is a bypass route without an entry
\* (see ExitRestores).  A dry run has changed nothing.
UndoCovers ==
    Alive =>
        /\ device # "none" => Contains(stack, CloseDevice)
        /\ runtime # "off" => Contains(stack, StopRuntime)
        /\ Bypassed # {} => Contains(stack, CloseDynamic)
        /\ \A d \in Destinations : table[d] # found.table[d] =>
              \/ Contains(stack, DeleteRoute(d))
              \/ d \in Bypassed \cup Unowned
              \/ DeleteRoute(d) \in failed
        /\ \A s \in Services : resolv[s] # found.resolv[s] =>
              Contains(stack, RestoreDNS) \/ RestoreService(s) \in failed
        /\ opts.dryRun => table = found.table /\ resolv = found.resolv /\ device = "none"

\* While traffic is sent into the tunnel, the tunnel's own packets are not: the
\* endpoint's route is in place before the first /1 route and after the last.
EndpointAlwaysExcluded ==
    Alive /\ (\E d \in Tunnelled : table[d] = "ours") => table[Endpoint] = "ours"

\* The same as long as no rollback has failed, at every moment of setup and cleanup.
EndpointExcluded == failed = {} => EndpointAlwaysExcluded

\* The host resolves through the forwarder only from its start to its end, during
\* setup and cleanup too, service by service.
LocalDNSServed ==
    Alive /\ failed = {} =>
        \A s \in Services : resolv[s] # found.resolv[s] /\ resolv[s] = "local" => runtime # "off"

\* The tunnel's resolver is used only while all traffic goes through the tunnel.
TunnelDNSInsideTunnel ==
    Alive /\ failed = {} /\ resolv # found.resolv =>
        device = "up" /\ \A d \in Tunnelled : table[d] = "ours"

\* The forwarder has an upstream: StartRuntime indexes the DNS servers, which are
\* validated only without --no-dns.
UpstreamValidated == At("runtime") \/ runtime = "serving" => opts.servers > 0

\* A run removes or replaces no route that was there before it, those a killed run
\* left behind included, although its commands name a destination only.
OthersKept ==
    [][\A d \in Destinations :
            table[d] \in {"foreign", "left"} => table'[d] = table[d]]_vars

\* A setup ends in a waiting tunnel or, like every cleanup, in a dead process.
RunEnds == process \in {"setup", "cleanup"} ~>
              process \in {"waiting", "exited", "interrupted", "killed"}

\* The design's promise for Ctrl+C and SIGTERM, at any time.
SignalRestores ==
    process = "interrupted" => table = found.table /\ resolv = found.resolv
=============================================================================
