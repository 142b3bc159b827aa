------------------------ MODULE TunnelService_proofs ------------------------
(***************************************************************************)
(* Proofs about TunnelService, for every set of routes, services, options  *)
(* and faults, and any number of runs: whatever a run changes it can undo, *)
(* in an order that never sends the tunnel's packets into the tunnel.      *)
(*                                                                         *)
(* The invariant says what the stack of rollbacks tells of the host.  The  *)
(* order in which rollbacks lie on it (Order) carries the order in which   *)
(* setup took its steps over to the cleanup, where "stage" says nothing    *)
(* any more.                                                               *)
(***************************************************************************)
EXTENDS TunnelService, SequenceTheorems, TLAPS

\* What happens to the bypass route of an address.
BypassStep(d) == Bypass(d) \/ BypassLost(d) \/ BypassExpires(d) \/ ExpiryDeletes(d)

\* The rollback is still to be run.
On(action) == Contains(stack, action)

\* Wherever one rollback is on a stack, the other lies below it and runs later.
RestsOn(s, upper, lower) ==
    \A j \in 1..Len(s) : s[j] = upper => \E i \in 1..(j - 1) : s[i] = lower

\* The order of the stack: the device is closed last, and first the DNS settings are
\* restored, then the forwarder is stopped, then its routes are deleted; the
\* endpoint's route goes after the tunnel's.
Order ==
    /\ \A i \in 1..Len(stack) : stack[i] = CloseDevice <=> i = 1
    /\ ~opts.dryRun => \A i, j \in 1..Len(stack) : stack[i] = stack[j] => i = j
    /\ RestsOn(stack, StopRuntime, CloseDynamic)
    /\ opts.domains => RestsOn(stack, RestoreDNS, StopRuntime)
    /\ \A d \in Tunnelled :
          /\ RestsOn(stack, DeleteRoute(d), DeleteRoute(Endpoint))
          /\ RestsOn(stack, RestoreDNS, DeleteRoute(d))

\* What a stage of setup may rely on, and the wait.
SetupInv ==
    /\ process = "setup" =>
            /\ failed = {}
            /\ stack = <<>> <=> stage \in {"preflight", "create"}
            /\ stage # "preflight" =>
                  (opts.noDNS \/ opts.servers > 0) /\ ~(opts.noDNS /\ opts.domains)
            /\ ~opts.dryRun /\ stage \notin {"preflight", "create", "configure", "up"} =>
                  device = "up"
            /\ \A d \in Tunnelled : On(DeleteRoute(d)) \/ Contains(todo, d)
            /\ todo = Plan(opts) \/ On(DeleteRoute(Endpoint))
            /\ stage \in {"dynamic", "runtime"} => opts.domains
            /\ On(CloseDynamic) => stage \in {"runtime", "dns", "write", "wait"}
            /\ stage = "runtime" => On(CloseDynamic)
            /\ On(StopRuntime) => stage \in {"dns", "write", "wait"}
            /\ stage \in {"dns", "write", "wait"} /\ opts.domains => On(StopRuntime)
            /\ On(RestoreDNS) => stage \in {"write", "wait"}
            /\ stage = "write" => On(RestoreDNS)
    /\ process = "waiting" /\ opts.domains => On(StopRuntime)

\* What the stack tells of the host.
HostInv ==
    Alive =>
        /\ \A d \in Destinations :
              table[d] = found.table[d] \/ (table[d] = "ours" /\ found.table[d] = "absent")
        /\ \A d \in Resolved : bypass[d] # "none" => table[d] = "ours" /\ ~On(DeleteRoute(d))
        /\ \A s \in Services : resolv[s] # found.resolv[s] =>
              resolv[s] = IF opts.domains THEN "local" ELSE "tunnel"
        /\ opts.dryRun => runtime = "off" /\ \A d \in Resolved : bypass[d] = "none"
        /\ ~opts.dryRun =>
              /\ \A d \in Destinations : On(DeleteRoute(d)) => table[d] = "ours"
              /\ Len(stack) > 1 => device = "up"
              /\ On(StopRuntime) => runtime # "off"
              /\ On(RestoreDNS) => original = found.resolv

\* A process that is gone has taken its device and its forwarder with it, and no run
\* finds a route that is its own.
DeadInv ==
    /\ ~Alive => device = "none" /\ runtime = "off"
    /\ \A d \in Destinations : found.table[d] # "ours"

IInv ==
    /\ TypeOK /\ Order /\ SetupInv /\ HostInv /\ DeadInv
    /\ UndoCovers /\ ExitRestores /\ UpstreamValidated

-----------------------------------------------------------------------------
(* Stacks *)

LEMMA PushSeq ==
  ASSUME NEW S, NEW s \in Seq(S), NEW e \in S
  PROVE  /\ Append(s, e) \in Seq(S) /\ Append(s, e) # <<>>
         /\ Len(Append(s, e)) = Len(s) + 1 /\ Len(s) \in Nat
         /\ \A i \in 1..Len(s) : Append(s, e)[i] = s[i]
         /\ Append(s, e)[Len(s) + 1] = e
         /\ \A x : Contains(Append(s, e), x) <=> Contains(s, x) \/ x = e
<1> DEFINE t == Append(s, e)
<1>1. /\ t \in Seq(S) /\ t # <<>> /\ Len(t) = Len(s) + 1 /\ Len(s) \in Nat
      /\ \A i \in 1..Len(s) : t[i] = s[i]
      /\ t[Len(s) + 1] = e
  BY AppendProperties, LenProperties
<1> HIDE DEF t
<1>2. \A i \in 1..Len(t) : i \in 1..Len(s) \/ i = Len(s) + 1
  BY <1>1
<1>3. \A x : Contains(t, x) <=> Contains(s, x) \/ x = e
  BY <1>1, <1>2 DEF Contains
<1> QED BY <1>1, <1>3 DEF t

LEMMA PopSeq ==
  ASSUME NEW S, NEW s \in Seq(S), s # <<>>
  PROVE  /\ Front(s) \in Seq(S) /\ Len(Front(s)) = Len(s) - 1 /\ Len(s) \in Nat \ {0}
         /\ \A i \in 1..Len(Front(s)) : Front(s)[i] = s[i]
         /\ \A x : Contains(s, x) <=> Contains(Front(s), x) \/ x = Last(s)
         /\ Len(s) = 1 => Front(s) = <<>>
<1> DEFINE n == Len(s) - 1
           t == SubSeq(s, 1, n)
<1>1. n \in Nat /\ Len(s) \in Nat \ {0} /\ \A i \in 1..Len(s) : s[i] \in S
  BY EmptySeq, ElementOfSeq
<1>2. t \in Seq(S) /\ Len(t) = n /\ \A i \in 1..n : t[i] = s[i]
  <2>1. n \in Int /\ 1 \in Int /\ \A i \in 1..n : s[i] \in S
    BY <1>1
  <2> HIDE DEF n
  <2>2. /\ t \in Seq(S) /\ Len(t) = IF 1 <= n THEN n - 1 + 1 ELSE 0
        /\ \A i \in 1..(n - 1 + 1) : t[i] = s[1 + i - 1]
    BY <2>1, SubSeqProperties
  <2> HIDE DEF t
  <2> QED BY <1>1, <2>2
<1> HIDE DEF t
<1>3. \A x : Contains(s, x) <=> Contains(t, x) \/ x = Last(s)
  <2>1. \A i \in 1..Len(s) : i \in 1..Len(t) \/ i = Len(s)
    BY <1>1, <1>2
  <2> QED BY <1>1, <1>2, <2>1 DEF Contains, Last
<1>4. Len(s) = 1 => t = <<>>
  BY <1>1, <1>2, EmptySeq
<1> QED BY <1>1, <1>2, <1>3, <1>4 DEF t, Front

LEMMA EmptyHas == \A x : ~Contains(<<>>, x)
  BY EmptySeq DEF Contains

LEMMA PushRests ==
  ASSUME NEW S, NEW s \in Seq(S), NEW e \in S, NEW upper, NEW lower,
         RestsOn(s, upper, lower), e = upper => Contains(s, lower)
  PROVE  RestsOn(Append(s, e), upper, lower)
<1>1. /\ Len(Append(s, e)) = Len(s) + 1 /\ Len(s) \in Nat
      /\ \A i \in 1..Len(s) : Append(s, e)[i] = s[i]
      /\ Append(s, e)[Len(s) + 1] = e
  BY PushSeq
<1> QED BY <1>1 DEF RestsOn, Contains

LEMMA PopRests ==
  ASSUME NEW S, NEW s \in Seq(S), s # <<>>, NEW upper, NEW lower,
         RestsOn(s, upper, lower)
  PROVE  RestsOn(Front(s), upper, lower)
<1>1. /\ Len(Front(s)) = Len(s) - 1 /\ Len(s) \in Nat \ {0}
      /\ \A i \in 1..Len(Front(s)) : Front(s)[i] = s[i]
  BY PopSeq
<1> QED BY <1>1 DEF RestsOn

LEMMA RestsHas ==
  ASSUME NEW S, NEW s \in Seq(S), NEW upper, NEW lower, RestsOn(s, upper, lower),
         Contains(s, upper)
  PROVE  Contains(s, lower)
<1>1. Len(s) \in Nat
  BY LenProperties
<1> QED BY <1>1 DEF RestsOn, Contains

-----------------------------------------------------------------------------
(* Rollbacks *)

\* The rollbacks are told apart by what they undo.
LEMMA DistinctActions ==
  /\ CloseDevice \in Actions /\ CloseDynamic \in Actions
  /\ StopRuntime \in Actions /\ RestoreDNS \in Actions
  /\ \A d \in Destinations : DeleteRoute(d) \in Actions
  /\ CloseDevice # CloseDynamic /\ CloseDevice # StopRuntime /\ CloseDevice # RestoreDNS
  /\ CloseDynamic # StopRuntime /\ CloseDynamic # RestoreDNS /\ StopRuntime # RestoreDNS
  /\ \A d : /\ DeleteRoute(d) # CloseDevice /\ DeleteRoute(d) # CloseDynamic
            /\ DeleteRoute(d) # StopRuntime /\ DeleteRoute(d) # RestoreDNS
  /\ \A d, e : DeleteRoute(d) = DeleteRoute(e) => d = e
  /\ \A d, s : DeleteRoute(d) # RestoreService(s)
  /\ \A s, u : RestoreService(s) = RestoreService(u) => s = u
  BY DEF Actions, CloseDevice, CloseDynamic, StopRuntime, RestoreDNS, DeleteRoute,
     RestoreService

LEMMA DestinationFacts ==
  /\ Endpoint \in Destinations /\ Tunnelled \subseteq Destinations
  /\ Resolved \subseteq Destinations /\ Endpoint \notin Tunnelled
  /\ Tunnelled \cap Resolved = {}
  BY DestinationAssumption DEF Destinations, Tunnelled

LEMMA EmptyOrder == stack' = <<>> => Order'
  BY EmptySeq DEF Order, RestsOn

LEMMA Pushed ==
  ASSUME TypeOK, Order, NEW a \in Actions, Register(a), UNCHANGED opts,
         a = CloseDevice <=> stack = <<>>,
         ~opts.dryRun => ~Contains(stack, a),
         a = StopRuntime => Contains(stack, CloseDynamic),
         a = RestoreDNS /\ opts.domains => Contains(stack, StopRuntime),
         \A d \in Tunnelled :
            /\ a = RestoreDNS => Contains(stack, DeleteRoute(d))
            /\ a = DeleteRoute(d) => Contains(stack, DeleteRoute(Endpoint))
  PROVE  /\ Order'
         /\ stack' \in Seq(Actions) /\ stack' # <<>> /\ Len(stack') = Len(stack) + 1
         /\ Len(stack) \in Nat
         /\ \A x : Contains(stack', x) <=> Contains(stack, x) \/ x = a
<1>0. stack \in Seq(Actions) /\ stack' = Append(stack, a)
  BY DEF TypeOK, Register
<1>1. /\ stack' \in Seq(Actions) /\ stack' # <<>> /\ Len(stack') = Len(stack) + 1
      /\ Len(stack) \in Nat
      /\ \A i \in 1..Len(stack) : stack'[i] = stack[i]
      /\ stack'[Len(stack) + 1] = a
      /\ \A x : Contains(stack', x) <=> Contains(stack, x) \/ x = a
  BY <1>0, PushSeq
<1>2. \A i \in 1..Len(stack') : stack'[i] = CloseDevice <=> i = 1
  <2>1. stack = <<>> <=> Len(stack) = 0
    BY <1>0, EmptySeq
  <2> QED BY <1>1, <2>1 DEF Order
<1>3. ~opts.dryRun => \A i, j \in 1..Len(stack') : stack'[i] = stack'[j] => i = j
  <2> SUFFICES ASSUME ~opts.dryRun, NEW i \in 1..Len(stack'), NEW j \in 1..Len(stack'),
                      stack'[i] = stack'[j]
               PROVE  i = j
    OBVIOUS
  <2>1. \A k \in 1..Len(stack) : stack[k] # a
    BY DEF Contains
  <2>2. \A k, l \in 1..Len(stack) : stack[k] = stack[l] => k = l
    BY DEF Order
  <2> QED BY <1>1, <2>1, <2>2
<1>4. RestsOn(stack', StopRuntime, CloseDynamic)
  BY <1>0, PushRests DEF Order
<1>5. opts.domains => RestsOn(stack', RestoreDNS, StopRuntime)
  BY <1>0, PushRests DEF Order
<1>6. ASSUME NEW d \in Tunnelled
      PROVE  /\ RestsOn(stack', DeleteRoute(d), DeleteRoute(Endpoint))
             /\ RestsOn(stack', RestoreDNS, DeleteRoute(d))
  <2>1. /\ RestsOn(stack, DeleteRoute(d), DeleteRoute(Endpoint))
        /\ RestsOn(stack, RestoreDNS, DeleteRoute(d))
    BY DEF Order
  <2> QED BY <1>0, <2>1, PushRests
<1>7. Order'
  BY <1>2, <1>3, <1>4, <1>5, <1>6 DEF Order
<1> QED BY <1>1, <1>7

LEMMA Popped ==
  ASSUME TypeOK, Order, NEW a, Undoing(a)
  PROVE  /\ Order'
         /\ stack' \in Seq(Actions) /\ Len(stack') = Len(stack) - 1
         /\ Len(stack) \in Nat \ {0}
         /\ Contains(stack, a) /\ a = Last(stack)
         /\ \A x : Contains(stack, x) <=> Contains(stack', x) \/ x = a
         /\ ~opts.dryRun => ~Contains(stack', a)
         /\ a = CloseDevice => stack' = <<>>
<1>0. stack \in Seq(Actions) /\ stack # <<>> /\ stack' = Front(stack) /\ a = Last(stack)
      /\ UNCHANGED opts
  BY DEF TypeOK, Undoing
<1>1. /\ stack' \in Seq(Actions) /\ Len(stack') = Len(stack) - 1 /\ Len(stack) \in Nat \ {0}
      /\ \A i \in 1..Len(stack') : stack'[i] = stack[i]
      /\ \A x : Contains(stack, x) <=> Contains(stack', x) \/ x = a
  BY <1>0, PopSeq
<1>2. \A i \in 1..Len(stack') : stack'[i] = CloseDevice <=> i = 1
  BY <1>1 DEF Order
<1>3. ~opts.dryRun => \A i, j \in 1..Len(stack') : stack'[i] = stack'[j] => i = j
  BY <1>1 DEF Order
<1>4. RestsOn(stack', StopRuntime, CloseDynamic)
  BY <1>0, PopRests DEF Order
<1>5. opts.domains => RestsOn(stack', RestoreDNS, StopRuntime)
  BY <1>0, PopRests DEF Order
<1>6. ASSUME NEW d \in Tunnelled
      PROVE  /\ RestsOn(stack', DeleteRoute(d), DeleteRoute(Endpoint))
             /\ RestsOn(stack', RestoreDNS, DeleteRoute(d))
  <2>1. /\ RestsOn(stack, DeleteRoute(d), DeleteRoute(Endpoint))
        /\ RestsOn(stack, RestoreDNS, DeleteRoute(d))
    BY DEF Order
  <2> QED BY <1>0, <2>1, PopRests
<1>7. Order'
  BY <1>0, <1>2, <1>3, <1>4, <1>5, <1>6 DEF Order
<1>8. ~opts.dryRun => ~Contains(stack', a)
  <2> SUFFICES ASSUME ~opts.dryRun, NEW i \in 1..Len(stack'), stack'[i] = a PROVE FALSE
    BY DEF Contains
  <2>1. stack[i] = stack[Len(stack)] /\ i \in 1..Len(stack) /\ i # Len(stack)
    BY <1>0, <1>1 DEF Last
  <2> QED BY <1>1, <2>1 DEF Order
<1>9. a = CloseDevice => stack' = <<>>
  <2>1. Len(stack) \in 1..Len(stack)
    BY <1>1
  <2>2. a = CloseDevice => Len(stack) = 1
    BY <1>0, <2>1 DEF Order, Last
  <2> QED BY <1>0, <2>2, PopSeq
<1> QED BY <1>0, <1>1, <1>7, <1>8, <1>9

\* What lies on the stack tells what lies below.
LEMMA Below ==
  ASSUME TypeOK, Order
  PROVE  /\ Contains(stack, StopRuntime) => Contains(stack, CloseDynamic)
         /\ opts.domains /\ Contains(stack, RestoreDNS) => Contains(stack, StopRuntime)
         /\ \A d \in Tunnelled :
              /\ Contains(stack, DeleteRoute(d)) => Contains(stack, DeleteRoute(Endpoint))
              /\ Contains(stack, RestoreDNS) => Contains(stack, DeleteRoute(d))
         /\ Contains(stack, RestoreDNS) => Len(stack) > 1
<1>0. stack \in Seq(Actions)
  BY DEF TypeOK
<1>1. ASSUME NEW d \in Tunnelled
      PROVE  /\ Contains(stack, DeleteRoute(d)) => Contains(stack, DeleteRoute(Endpoint))
             /\ Contains(stack, RestoreDNS) => Contains(stack, DeleteRoute(d))
  <2>1. /\ RestsOn(stack, DeleteRoute(d), DeleteRoute(Endpoint))
        /\ RestsOn(stack, RestoreDNS, DeleteRoute(d))
    BY DEF Order
  <2> QED BY <1>0, <2>1, RestsHas
<1>2. Contains(stack, RestoreDNS) => Len(stack) > 1
  <2>1. Len(stack) \in Nat
    BY <1>0, LenProperties
  <2> QED BY <2>1, DistinctActions DEF Contains, Order
<1> QED BY <1>0, <1>1, <1>2, RestsHas DEF Order

-----------------------------------------------------------------------------
(* Types *)

LEMMA TailSeq ==
  ASSUME NEW S, NEW s \in Seq(S), s # <<>>
  PROVE  /\ Head(s) \in S /\ Tail(s) \in Seq(S)
         /\ \A x : Contains(s, x) => x = Head(s) \/ Contains(Tail(s), x)
<1>1. /\ Head(s) \in S /\ Tail(s) \in Seq(S) /\ Len(Tail(s)) = Len(s) - 1
      /\ \A i \in 1..Len(Tail(s)) : Tail(s)[i] = s[i + 1]
      /\ Len(s) \in Nat \ {0}
  BY HeadTailProperties, EmptySeq
<1>2. Head(s) = s[1]
  OBVIOUS
<1> SUFFICES ASSUME NEW i \in 1..Len(s), s[i] # Head(s) PROVE Contains(Tail(s), s[i])
  BY <1>1 DEF Contains
<1>3. i - 1 \in 1..Len(Tail(s)) /\ Tail(s)[i - 1] = s[i]
  BY <1>1, <1>2
<1> QED BY <1>3 DEF Contains

LEMMA PlanFacts ==
  ASSUME NEW o \in Options
  PROVE  /\ Plan(o) \in Seq(Destinations) /\ Plan(o) # <<>>
         /\ Head(Plan(o)) = Endpoint
         /\ \A d \in Tunnelled : Contains(Plan(o), d)
<1> DEFINE front == <<Endpoint>> \o o.statics
           tail == <<Low, High>>
           n == Len(o.statics)
<1>1. o.statics \in Seq(Destinations) /\ n \in Nat
  <2>1. o.statics \in Seq(Excluded) /\ Excluded \subseteq Destinations
    BY OptionsAssumption DEF Destinations
  <2> QED BY <2>1, SeqMonotonic, LenProperties
<1>2. /\ <<Endpoint>> \in Seq(Destinations) /\ Len(<<Endpoint>>) = 1 /\ <<Endpoint>>[1] = Endpoint
      /\ tail \in Seq(Destinations) /\ Len(tail) = 2 /\ tail[1] = Low /\ tail[2] = High
  BY DestinationFacts DEF Tunnelled
<1>3. front \in Seq(Destinations) /\ Len(front) = n + 1 /\ front[1] = Endpoint
  BY <1>1, <1>2, ConcatProperties
<1> HIDE DEF front, tail, n
<1>4. /\ front \o tail \in Seq(Destinations) /\ Len(front \o tail) = n + 3
      /\ (front \o tail)[1] = Endpoint
      /\ (front \o tail)[n + 2] = Low /\ (front \o tail)[n + 3] = High
  <2>1. /\ front \o tail \in Seq(Destinations) /\ Len(front \o tail) = Len(front) + Len(tail)
        /\ \A i \in 1..(Len(front) + Len(tail)) :
              (front \o tail)[i] = IF i <= Len(front) THEN front[i] ELSE tail[i - Len(front)]
    BY <1>2, <1>3, ConcatProperties
  <2> QED BY <1>1, <1>2, <1>3, <2>1
<1>5. Plan(o) = front \o tail
  BY DEF Plan, front, tail
<1>6. Plan(o) # <<>> /\ Head(Plan(o)) = Endpoint
  BY <1>1, <1>4, <1>5, EmptySeq
<1>7. n + 2 \in 1..Len(Plan(o)) /\ n + 3 \in 1..Len(Plan(o))
  BY <1>1, <1>4, <1>5
<1> QED BY <1>4, <1>5, <1>6, <1>7 DEF Contains, Tunnelled

LEMMA TypeInit == Init => TypeOK
<1>1. <<>> \in Seq(Destinations) /\ <<>> \in Seq(Actions)
  BY EmptySeq
<1> QED BY <1>1, MaxRunsAssumption DEF Init, TypeOK, Setting

LEMMA TypeStep == TypeOK /\ Order /\ [Next]_vars => TypeOK'
<1> SUFFICES ASSUME TypeOK, Order, [Next]_vars PROVE TypeOK'
  OBVIOUS
<1> USE DEF TypeOK
<1>1. ASSUME NEW o \in Options, Start(o) PROVE TypeOK'
  <2>1. <<>> \in Seq(Actions) /\ Plan(o) \in Seq(Destinations)
    BY EmptySeq, PlanFacts
  <2>2. runs' \in 0..MaxRuns
    BY <1>1, MaxRunsAssumption DEF Start
  <2>3. table' \in [Destinations -> {"absent", "foreign", "left", "ours"}]
    BY <1>1 DEF Start
  <2> QED BY <1>1, <2>1, <2>2, <2>3 DEF Start, Setting
<1>2. CASE SetupStep
  <2>1. CASE PreflightPasses \/ PreflightFails \/ StageFails \/ ConfigureInterface
             \/ DiscoverDefaultRoute \/ RouteExists \/ RoutesApplied \/ DNSApplied \/ Wait
    BY <2>1 DEF PreflightPasses, PreflightFails, StageFails, ConfigureInterface,
       DiscoverDefaultRoute, RouteExists, RoutesApplied, DNSApplied, Wait, At, Return, host,
       StageAfterRoutes, DNSStage
  <2>2. ASSUME NEW a \in Actions, Register(a) PROVE stack' \in Seq(Actions)
    BY <2>2, PushSeq DEF Register
  <2>3. CASE CreateDevice
    BY <2>2, <2>3, DistinctActions DEF CreateDevice, At, Effect
  <2>4. CASE DeviceUp
    BY <2>4 DEF DeviceUp, At, Effect
  <2>5. CASE AddRoute
    <3>1. Head(todo) \in Destinations /\ Tail(todo) \in Seq(Destinations)
      BY <2>5, TailSeq DEF AddRoute
    <3>2. DeleteRoute(Head(todo)) \in Actions
      BY <3>1, DistinctActions
    <3> QED BY <2>2, <2>5, <3>1, <3>2 DEF AddRoute, At, Effect
  <2>6. CASE OpenDynamic
    BY <2>2, <2>6, DistinctActions DEF OpenDynamic, At, host
  <2>7. CASE StartRuntime
    BY <2>2, <2>7, DistinctActions DEF StartRuntime, At, DNSStage, Effect
  <2>8. CASE ReadDNS
    BY <2>2, <2>8, DistinctActions DEF ReadDNS, At, Effect, host
  <2>9. ASSUME NEW s \in Services, SetDNS(s) PROVE TypeOK'
    BY <2>9 DEF SetDNS, At, Effect, run, Setting
  <2> QED
    BY <1>2, <2>1, <2>3, <2>4, <2>5, <2>6, <2>7, <2>8, <2>9 DEF SetupStep
<1>3. ASSUME NEW d \in Resolved, BypassStep(d) PROVE TypeOK'
  <2>1. UNCHANGED <<process, stage, opts, todo, stack, device, runtime, resolv, original,
                    unset, failed, found, runs>>
    BY <1>3 DEF BypassStep, Bypass, BypassLost, AddDynamic, BypassExpires, ExpiryDeletes, run
  <2>2. d \in Destinations
    BY DestinationFacts
  <2>3. /\ table' \in [Destinations -> {"absent", "foreign", "left", "ours"}]
        /\ bypass' \in [Resolved -> {"none", "added", "expiring", "lost"}]
    BY <1>3, <2>2 DEF BypassStep, Bypass, BypassLost, AddDynamic, BypassExpires, ExpiryDeletes
  <2> QED BY <2>1, <2>3
<1>4. CASE RuntimeDies \/ Signal
  BY <1>4 DEF RuntimeDies, Signal, Return, run, host
<1>5. CASE Interrupt \/ Kill
  BY <1>5 DEF Interrupt, Kill, Gone, WithoutDevice
<1>6. CASE CleanupStep
  <2>1. ASSUME NEW a, Undoing(a)
        PROVE  /\ stack' \in Seq(Actions) /\ a \in Actions
               /\ UNCHANGED <<process, stage, opts, todo, unset, original, found, runs>>
    <3>1. a \in Actions
      BY <2>1, Popped, ElementOfSeq DEF Contains
    <3> QED BY <2>1, <3>1, Popped DEF Undoing
  <2>2. CASE UndoDevice
    BY <2>1, <2>2 DEF UndoDevice, Effect, WithoutDevice
  <2>3. ASSUME NEW d \in Destinations, UndoRoute(d) PROVE TypeOK'
    BY <2>1, <2>3 DEF UndoRoute, Effect
  <2>4. CASE UndoDynamic
    <3>1. \A d \in Bypassed : DeleteRoute(d) \in Actions
      BY DistinctActions, DestinationFacts DEF Bypassed
    <3> QED BY <2>1, <2>4, <3>1 DEF UndoDynamic
  <2>5. CASE UndoRuntime
    BY <2>1, <2>5 DEF UndoRuntime, Effect
  <2>6. CASE UndoDNS
    BY <2>1, <2>6 DEF UndoDNS, Effect
  <2>7. CASE UndoFails
    <3>1. PICK d \in Destinations : Undoing(DeleteRoute(d))
      BY <2>7 DEF UndoFails
    <3>2. Last(stack) \in Actions
      BY <2>1, <3>1 DEF Undoing
    <3> QED BY <2>1, <2>7, <3>1, <3>2 DEF UndoFails, host
  <2>8. CASE Exit
    BY <2>8 DEF Exit, host
  <2> QED BY <1>6, <2>2, <2>3, <2>4, <2>5, <2>6, <2>7, <2>8 DEF CleanupStep
<1>7. CASE UNCHANGED vars
  BY <1>7 DEF vars, run, host
<1> QED BY <1>1, <1>2, <1>3, <1>4, <1>5, <1>6, <1>7 DEF Next, BypassStep

-----------------------------------------------------------------------------
(* The inductive invariant *)

LEMMA InvInit == Init => IInv
<1> SUFFICES ASSUME Init PROVE IInv
  OBVIOUS
<1>1. TypeOK
  BY TypeInit
<1>2. Order
  BY EmptySeq DEF Init, Order, RestsOn
<1>3. SetupInv /\ HostInv /\ DeadInv /\ UndoCovers /\ ExitRestores /\ UpstreamValidated
  BY DEF Init, SetupInv, HostInv, DeadInv, UndoCovers, Bypassed, Unowned, ExitRestores,
     UpstreamValidated, Alive,
     At
<1> QED BY <1>1, <1>2, <1>3 DEF IInv

\* What is left to prove of a step, once types are known to be kept.
Kept == Order /\ SetupInv /\ HostInv /\ DeadInv /\ UndoCovers /\ ExitRestores /\ UpstreamValidated

LEMMA StartKeeps == ASSUME IInv, TypeOK', NEW o \in Options, Start(o) PROVE Kept'
<1> USE DEF IInv
<1>1. Order'
  BY EmptyOrder DEF Start
<1>2. \A x : ~Contains(stack', x)
  BY EmptyHas DEF Start
<1>3. /\ process' = "setup" /\ stage' = "preflight" /\ failed' = {} /\ stack' = <<>>
      /\ bypass' = [d \in Resolved |-> "none"] /\ device' = "none" /\ runtime' = "off"
      /\ opts' = o /\ todo' = Plan(o)
      /\ found' = [table |-> table', resolv |-> resolv] /\ resolv' = resolv
      /\ table' = [d \in Destinations |-> IF table[d] = "ours" THEN "left" ELSE table[d]]
  BY DEF Start, DeadInv
<1>4. SetupInv'
  BY <1>2, <1>3, PlanFacts DEF SetupInv, On
<1>5. HostInv' /\ DeadInv' /\ UndoCovers' /\ ExitRestores' /\ UpstreamValidated'
  <2>1. Len(stack') = 0
    BY <1>3, EmptySeq
  <2> QED
    BY <1>2, <1>3, <2>1 DEF HostInv, DeadInv, UndoCovers, Bypassed, Unowned, ExitRestores,
       UpstreamValidated, Alive,
       At, On, Bypassed
<1> QED BY <1>1, <1>4, <1>5 DEF Kept

\* Steps of setup that leave the stack alone.
LEMMA QuietSetupKeeps ==
  ASSUME IInv, TypeOK',
         \/ PreflightPasses \/ PreflightFails \/ StageFails \/ ConfigureInterface \/ DeviceUp
         \/ DiscoverDefaultRoute \/ RouteExists \/ RoutesApplied \/ DNSApplied \/ Wait
         \/ \E s \in Services : SetDNS(s)
  PROVE  Kept'
<1> USE DEF IInv
<1>1. UNCHANGED <<stack, opts, todo, failed, table, bypass, runtime, original, found>>
  BY DEF PreflightPasses, PreflightFails, StageFails, ConfigureInterface, DeviceUp,
     DiscoverDefaultRoute, RouteExists, RoutesApplied, DNSApplied, Wait, SetDNS, Return, host, run
<1>2. Order'
  BY <1>1 DEF Order
<1>3. process = "setup"
  BY DEF PreflightPasses, PreflightFails, StageFails, ConfigureInterface, DeviceUp,
     DiscoverDefaultRoute, RouteExists, RoutesApplied, DNSApplied, Wait, SetDNS, At
<1> USE DEF SetupInv, HostInv, DeadInv, UndoCovers, Bypassed, Unowned, ExitRestores,
     UpstreamValidated, Alive, On, At
<1>4. CASE PreflightPasses
  BY <1>1, <1>2, <1>4 DEF PreflightPasses, Acceptable, host, Kept
<1>5. CASE PreflightFails
  BY <1>1, <1>2, <1>5, EmptyHas DEF PreflightFails, host, Kept
<1>6. CASE StageFails \/ RouteExists
  BY <1>1, <1>2, <1>6 DEF StageFails, RouteExists, Return, host, Kept
<1>7. CASE ConfigureInterface \/ DiscoverDefaultRoute
  BY <1>1, <1>2, <1>7 DEF ConfigureInterface, DiscoverDefaultRoute, host, Kept
<1>8. CASE DeviceUp
  <2>1. stack # <<>> /\ stack \in Seq(Actions)
    BY <1>8 DEF DeviceUp, TypeOK
  <2>2. Len(stack) \in Nat \ {0}
    BY <2>1, EmptySeq
  <2>3. Contains(stack, CloseDevice)
    BY <2>2 DEF Contains, Order
  <2> QED BY <1>1, <1>2, <1>8, <2>3 DEF DeviceUp, Effect, Kept
<1>9. CASE RoutesApplied
  BY <1>1, <1>2, <1>9, EmptyHas DEF RoutesApplied, StageAfterRoutes, DNSStage, host, Kept
<1>10. CASE DNSApplied
  BY <1>1, <1>2, <1>10 DEF DNSApplied, host, Kept
<1>11. CASE Wait
  BY <1>1, <1>2, <1>11 DEF Wait, host, Kept
<1>12. ASSUME NEW s \in Services, SetDNS(s) PROVE Kept'
  <2>1. /\ UNCHANGED <<process, stage, device>>
        /\ opts.dryRun => resolv' = resolv
        /\ \A u \in Services : resolv'[u] = resolv[u]
                               \/ resolv'[u] = IF opts.domains THEN "local" ELSE "tunnel"
        /\ stage = "write"
    BY <1>12 DEF SetDNS, run, Effect, TypeOK
  <2>2. SetupInv' /\ DeadInv' /\ ExitRestores' /\ UpstreamValidated'
    BY <1>1, <1>3, <2>1
  <2>3. HostInv'
    BY <1>1, <1>3, <2>1
  <2>4. UndoCovers'
    BY <1>1, <1>3, <2>1
  <2> QED BY <1>2, <2>2, <2>3, <2>4 DEF Kept
<1> QED BY <1>4, <1>5, <1>6, <1>7, <1>8, <1>9, <1>10, <1>11, <1>12

\* Steps of setup that register a rollback.
LEMMA RegisteringKeeps ==
  ASSUME IInv, TypeOK', CreateDevice \/ AddRoute \/ OpenDynamic \/ StartRuntime \/ ReadDNS
  PROVE  Kept'
<1> USE DEF IInv
<1>0. /\ process = "setup" /\ UNCHANGED <<process, opts, failed, found>>
      /\ \A d \in Destinations : On(DeleteRoute(d)) /\ ~opts.dryRun => table[d] = "ours"
      /\ SetupInv /\ HostInv
  BY DEF CreateDevice, AddRoute, OpenDynamic, StartRuntime, ReadDNS, At, host, HostInv, Alive
<1>1. CASE CreateDevice
  <2>1. stack = <<>> /\ stage = "create" /\ Register(CloseDevice)
    BY <1>1 DEF CreateDevice, At, SetupInv
  <2>2. /\ Order' /\ stack' # <<>> /\ Len(stack') = 1
        /\ \A x : Contains(stack', x) <=> x = CloseDevice
    BY <1>0, <2>1, Pushed, DistinctActions, EmptyHas, EmptySeq
  <2> QED
    BY <1>0, <1>1, <2>1, <2>2, DistinctActions, EmptyHas
    DEF CreateDevice, Effect, SetupInv, HostInv, DeadInv, UndoCovers, Bypassed, Unowned,
        ExitRestores,
        UpstreamValidated, Alive, On, At, Kept
<1>2. CASE AddRoute
  <2> DEFINE d == Head(todo)
  <2>1. /\ todo # <<>> /\ d \in Destinations /\ todo' = Tail(todo)
        /\ \A x : Contains(todo, x) => x = d \/ Contains(todo', x)
        /\ stage = "routes" /\ Register(DeleteRoute(d)) /\ stack # <<>>
        /\ table' = IF opts.dryRun THEN table ELSE [table EXCEPT ![d] = "ours"]
        /\ ~opts.dryRun => table[d] = "absent"
        /\ UNCHANGED <<stage, bypass, device, runtime, resolv, original>>
    <3>1. /\ todo \in Seq(Destinations) /\ todo # <<>> /\ todo' = Tail(todo)
          /\ stage = "routes" /\ Register(DeleteRoute(d))
          /\ table' = IF opts.dryRun THEN table ELSE [table EXCEPT ![d] = "ours"]
          /\ ~opts.dryRun => table[d] = "absent"
          /\ UNCHANGED <<stage, bypass, device, runtime, resolv, original>>
      BY <1>2 DEF AddRoute, At, Effect, TypeOK
    <3>2. stack # <<>>
      BY <1>0, <3>1 DEF SetupInv
    <3> QED BY <3>1, <3>2, TailSeq
  <2>2. todo = Plan(opts) => d = Endpoint
    BY PlanFacts DEF TypeOK
  <2> HIDE DEF d
  <2>3. d \in Tunnelled => On(DeleteRoute(Endpoint))
    BY <1>0, <2>2, DestinationFacts DEF SetupInv
  <2>4. ~opts.dryRun => ~Contains(stack, DeleteRoute(d))
    BY <1>0, <2>1 DEF On
  <2>5. /\ Order' /\ stack' # <<>> /\ Len(stack') = Len(stack) + 1
        /\ \A x : Contains(stack', x) <=> Contains(stack, x) \/ x = DeleteRoute(d)
    BY <1>0, <2>1, <2>3, <2>4, Pushed, DistinctActions DEF On
  <2>6. SetupInv'
    BY <1>0, <2>1, <2>2, <2>5, DistinctActions DEF SetupInv, On
  <2>7. HostInv' /\ UndoCovers'
    BY <1>0, <2>1, <2>5, DistinctActions DEF HostInv, UndoCovers, Bypassed, Unowned, SetupInv,
       Alive, On, TypeOK
  <2> QED
    BY <1>0, <2>1, <2>5, <2>6, <2>7
    DEF DeadInv, ExitRestores, UpstreamValidated, Alive, At, Kept
<1>3. CASE OpenDynamic
  <2>1. /\ stage = "dynamic" /\ stage' = "runtime" /\ Register(CloseDynamic)
        /\ UNCHANGED <<todo, host, original>>
    BY <1>3 DEF OpenDynamic, At
  <2>2. stack # <<>> /\ ~On(CloseDynamic)
    BY <1>0, <2>1 DEF SetupInv
  <2>3. /\ Order' /\ stack' # <<>> /\ Len(stack') = Len(stack) + 1
        /\ \A x : Contains(stack', x) <=> Contains(stack, x) \/ x = CloseDynamic
    BY <1>0, <2>1, <2>2, Pushed, DistinctActions DEF On
  <2> QED
    BY <1>0, <2>1, <2>3, DistinctActions
    DEF SetupInv, HostInv, DeadInv, UndoCovers, Bypassed, Unowned, ExitRestores,
        UpstreamValidated, Alive, On, At,
        host, Kept
<1>4. CASE StartRuntime
  <2>1. /\ stage = "runtime" /\ stage' = (IF opts.noDNS THEN "wait" ELSE "dns")
        /\ Register(StopRuntime)
        /\ runtime' = (IF opts.dryRun THEN runtime ELSE "serving")
        /\ UNCHANGED <<todo, table, bypass, device, resolv, original>>
    BY <1>4 DEF StartRuntime, At, DNSStage, Effect
  <2>2. stack # <<>> /\ ~On(StopRuntime) /\ On(CloseDynamic) /\ opts.domains
    BY <1>0, <2>1 DEF SetupInv
  <2>3. /\ Order' /\ stack' # <<>> /\ Len(stack') = Len(stack) + 1
        /\ \A x : Contains(stack', x) <=> Contains(stack, x) \/ x = StopRuntime
    BY <1>0, <2>1, <2>2, Pushed, DistinctActions DEF On
  <2> QED
    BY <1>0, <2>1, <2>2, <2>3, DistinctActions
    DEF SetupInv, HostInv, DeadInv, UndoCovers, Bypassed, Unowned, ExitRestores,
        UpstreamValidated, Alive, On, At,
        Kept
<1>5. CASE ReadDNS
  <2>1. /\ stage = "dns" /\ stage' = "write" /\ Register(RestoreDNS)
        /\ original' = (IF opts.dryRun THEN original ELSE resolv)
        /\ UNCHANGED <<todo, host>>
    BY <1>5 DEF ReadDNS, At, Effect
  <2>2. stack # <<>> /\ ~On(RestoreDNS) /\ (opts.domains => On(StopRuntime)) /\ failed = {}
    BY <1>0, <2>1 DEF SetupInv
  <2>3. \A d \in Tunnelled : On(DeleteRoute(d))
    BY <1>0, <2>1, EmptyHas DEF SetupInv, TypeOK
  <2>4. /\ Order' /\ stack' # <<>> /\ Len(stack') = Len(stack) + 1
        /\ \A x : Contains(stack', x) <=> Contains(stack, x) \/ x = RestoreDNS
    BY <1>0, <2>1, <2>2, <2>3, Pushed, DistinctActions DEF On
  <2>5. resolv = found.resolv
    <3>1. /\ resolv \in [Services -> Setting] /\ found.resolv \in [Services -> Setting]
          /\ \A s \in Services : resolv[s] = found.resolv[s]
      BY <1>0, <2>2 DEF UndoCovers, Bypassed, Unowned, Alive, On, TypeOK
    <3> QED BY <3>1
  <2> QED
    BY <1>0, <2>1, <2>4, <2>5, DistinctActions
    DEF SetupInv, HostInv, DeadInv, UndoCovers, Bypassed, Unowned, ExitRestores,
        UpstreamValidated, Alive, On, At,
        host, Kept
<1> QED BY <1>1, <1>2, <1>3, <1>4, <1>5

\* What happens while the forwarder serves.
LEMMA ServingKeeps ==
  ASSUME IInv, TypeOK',
         RuntimeDies \/ \E d \in Resolved : BypassStep(d)
  PROVE  Kept'
<1> USE DEF IInv
<1>1. UNCHANGED <<process, stage, opts, todo, stack, failed, device, resolv, original, found>>
  BY DEF RuntimeDies, BypassStep, Bypass, BypassLost, AddDynamic, BypassExpires, ExpiryDeletes,
     run
<1>2. Order' /\ SetupInv'
  BY <1>1 DEF Order, SetupInv, On
<1>3. CASE RuntimeDies
  BY <1>1, <1>2, <1>3
  DEF RuntimeDies, HostInv, DeadInv, UndoCovers, Bypassed, Unowned, ExitRestores,
      UpstreamValidated, Alive, On, At,
      Kept
<1>4. ASSUME NEW d \in Resolved, BypassStep(d) PROVE Kept'
  <2>1. /\ Alive /\ ~opts.dryRun /\ d \in Destinations /\ runtime' = runtime
        /\ ~On(DeleteRoute(d))
        /\ table[d] \in {"absent", "ours"} /\ found.table[d] = "absent"
    <3>1. Alive /\ d \in Destinations /\ runtime' = runtime
      BY <1>4, DestinationFacts
      DEF BypassStep, Bypass, BypassLost, AddDynamic, Handling, BypassExpires, ExpiryDeletes
    <3>2. ~opts.dryRun /\ (table[d] = "absent" \/ bypass[d] # "none")
      BY <1>4, <3>1
      DEF BypassStep, Bypass, BypassLost, AddDynamic, Handling, BypassExpires, ExpiryDeletes,
          HostInv
    <3> QED BY <3>1, <3>2 DEF HostInv, DeadInv
  <2>2. /\ \A e \in Destinations : e # d => table'[e] = table[e]
        /\ \A e \in Resolved : e # d => bypass'[e] = bypass[e]
        /\ \/ table'[d] = "ours" /\ bypass'[d] \in {"added", "expiring", "lost"}
           \/ table'[d] = "absent" /\ bypass'[d] = "none"
    BY <1>4, <2>1
    DEF BypassStep, Bypass, BypassLost, AddDynamic, BypassExpires, ExpiryDeletes, HostInv, TypeOK
  <2>3. bypass'[d] = "added" => Contains(stack, CloseDynamic)
    <3>1. CASE Bypass(d) /\ process # "cleanup"
      <4>1. process \in {"setup", "waiting"} /\ opts.domains /\ stage \in {"dns", "write", "wait"}
        BY <3>1 DEF Bypass, AddDynamic, Handling, Alive
      <4> QED BY <4>1, Below DEF SetupInv, On
    <3>2. CASE ~(Bypass(d) /\ process # "cleanup")
      BY <1>4, <2>1, <3>2
      DEF BypassStep, Bypass, BypassLost, AddDynamic, BypassExpires, ExpiryDeletes, TypeOK
    <3> QED BY <3>1, <3>2
  <2>4. HostInv' /\ DeadInv'
    <3>1. Alive' /\ ~opts'.dryRun
      BY <1>1, <2>1 DEF Alive
    <3>2. \A e \in Destinations : table'[e] = found'.table[e]
                                  \/ (table'[e] = "ours" /\ found'.table[e] = "absent")
      BY <1>1, <2>1, <2>2 DEF HostInv
    <3>3. \A e \in Resolved : bypass'[e] # "none" => table'[e] = "ours" /\ ~On(DeleteRoute(e))'
      BY <1>1, <2>1, <2>2, DestinationFacts DEF HostInv, On
    <3>4. \A e \in Destinations : On(DeleteRoute(e))' => table'[e] = "ours"
      BY <1>1, <2>1, <2>2 DEF HostInv, On
    <3> QED
      BY <1>1, <2>1, <3>1, <3>2, <3>3, <3>4 DEF HostInv, DeadInv, On
  <2>5. UndoCovers'
    <3>1. Bypassed' # {} => Contains(stack', CloseDynamic)
      BY <1>1, <2>1, <2>2, <2>3 DEF UndoCovers, Bypassed
    <3>2. \A e \in Destinations : table'[e] # found.table[e] =>
             \/ Contains(stack', DeleteRoute(e))
             \/ e \in Bypassed' \cup Unowned'
             \/ DeleteRoute(e) \in failed'
      BY <1>1, <2>1, <2>2 DEF UndoCovers, Bypassed, Unowned
    <3> QED BY <1>1, <2>1, <3>1, <3>2 DEF UndoCovers, Bypassed, Unowned, Alive
  <2> QED
    BY <1>1, <1>2, <2>1, <2>4, <2>5 DEF ExitRestores, UpstreamValidated, Alive, At, Kept
<1> QED BY <1>3, <1>4

\* The ways a process ends or begins to.
LEMMA EndKeeps == ASSUME IInv, TypeOK', Signal \/ Interrupt \/ Kill PROVE Kept'
<1> USE DEF IInv
<1>1. UNCHANGED <<stage, opts, todo, stack, failed, bypass, resolv, original, found>>
  BY DEF Signal, Interrupt, Kill, Gone, Return, host
<1>2. Order'
  BY <1>1 DEF Order
<1>3. CASE Signal
  BY <1>1, <1>2, <1>3
  DEF Signal, Return, host, SetupInv, HostInv, DeadInv, UndoCovers, Bypassed, Unowned,
      ExitRestores,
      UpstreamValidated, Alive, On, At, Kept
<1>4. CASE Interrupt \/ Kill
  <2>1. process' \in {"interrupted", "killed"} /\ device' = "none" /\ runtime' = "off"
    BY <1>4 DEF Interrupt, Kill, Gone
  <2> QED
    BY <1>1, <1>2, <2>1
    DEF SetupInv, HostInv, DeadInv, UndoCovers, Bypassed, Unowned, ExitRestores,
        UpstreamValidated, Alive, At, Kept
<1> QED BY <1>3, <1>4

\* A rollback takes itself off the stack and leaves the rest of it in order.
LEMMA UndoingFacts ==
  ASSUME IInv, NEW a, Undoing(a)
  PROVE  /\ Order' /\ a \in Actions
         /\ process = "cleanup"
         /\ UNCHANGED <<process, stage, opts, todo, unset, original, found, runs>>
         /\ Contains(stack, a) /\ a = Last(stack)
         /\ \A x : Contains(stack', x) => Contains(stack, x)
         /\ \A x : x # a /\ Contains(stack, x) => Contains(stack', x)
         /\ ~opts.dryRun => ~Contains(stack', a)
         /\ Len(stack') > 1 => Len(stack) > 1
         /\ a = CloseDevice => stack' = <<>> /\ \A x : ~Contains(stack', x)
<1>1. TypeOK /\ Order
  BY DEF IInv
<1>2. /\ Order'
      /\ Len(stack') = Len(stack) - 1 /\ Len(stack) \in Nat \ {0}
      /\ Contains(stack, a) /\ a = Last(stack)
      /\ \A x : Contains(stack, x) <=> Contains(stack', x) \/ x = a
      /\ ~opts.dryRun => ~Contains(stack', a)
      /\ a = CloseDevice => stack' = <<>>
  BY <1>1, Popped
<1>3. a \in Actions
  BY <1>1, <1>2, ElementOfSeq DEF Contains, TypeOK
<1> QED BY <1>2, <1>3, EmptyHas DEF Undoing

LEMMA CleanupKeeps == ASSUME IInv, TypeOK', CleanupStep PROVE Kept'
<1> USE DEF IInv
<1>0. SetupInv /\ HostInv /\ DeadInv /\ UndoCovers /\ ExitRestores /\ UpstreamValidated /\ TypeOK
  OBVIOUS
<1>1. CASE UndoDevice
  <2>1. /\ Undoing(CloseDevice)
        /\ table' = (IF opts.dryRun THEN table ELSE WithoutDevice)
        /\ device' = (IF opts.dryRun THEN device ELSE "none")
        /\ UNCHANGED <<failed, bypass, runtime, resolv>>
    BY <1>1 DEF UndoDevice, Effect
  <2>2. /\ Order' /\ process = "cleanup"
        /\ UNCHANGED <<process, stage, opts, todo, original, found>>
        /\ stack' = <<>> /\ \A x : ~Contains(stack', x)
        /\ \A x : x # CloseDevice /\ Contains(stack, x) => Contains(stack', x)
    BY <2>1, UndoingFacts
  <2>3. Bypassed = {} /\ runtime = "off" /\ Len(stack') = 0
    BY <1>0, <2>2, DistinctActions, EmptySeq DEF UndoCovers, Bypassed, Unowned, Alive
  <2> QED
    BY <1>0, <2>1, <2>2, <2>3, DistinctActions, DestinationFacts
    DEF WithoutDevice, SetupInv, HostInv, DeadInv, UndoCovers, Bypassed, Unowned,
        ExitRestores, UpstreamValidated,
        Alive, On, At, Kept, TypeOK
<1>2. ASSUME NEW d \in Destinations, UndoRoute(d) PROVE Kept'
  <2>1. /\ Undoing(DeleteRoute(d))
        /\ table' = (IF opts.dryRun THEN table ELSE [table EXCEPT ![d] = "absent"])
        /\ UNCHANGED <<failed, bypass, device, runtime, resolv>>
    BY <1>2 DEF UndoRoute, Effect
  <2>2. /\ Order' /\ process = "cleanup"
        /\ UNCHANGED <<process, stage, opts, todo, original, found>>
        /\ Contains(stack, DeleteRoute(d))
        /\ \A x : Contains(stack', x) => Contains(stack, x)
        /\ \A x : x # DeleteRoute(d) /\ Contains(stack, x) => Contains(stack', x)
        /\ ~opts.dryRun => ~Contains(stack', DeleteRoute(d))
        /\ Len(stack') > 1 => Len(stack) > 1
    BY <2>1, UndoingFacts
  <2>3. HostInv'
    BY <1>0, <2>1, <2>2 DEF HostInv, DeadInv, Alive, On, TypeOK
  <2>4. UndoCovers'
    BY <1>0, <2>1, <2>2, DistinctActions DEF HostInv, DeadInv, UndoCovers, Bypassed, Unowned,
       Alive, On, TypeOK
  <2> QED
    BY <1>0, <2>1, <2>2, <2>3, <2>4
    DEF SetupInv, DeadInv, ExitRestores, UpstreamValidated, Alive, At, Kept
<1>3. CASE UndoDynamic
  <2>1. /\ Undoing(CloseDynamic)
        /\ bypass' = [d \in Resolved |-> IF d \in Bypassed THEN "none" ELSE bypass[d]]
        /\ UNCHANGED <<device, runtime, resolv>>
    BY <1>3 DEF UndoDynamic
  <2>2. PICK kept \in SUBSET Bypassed :
          /\ table' = [d \in Destinations |->
                          IF d \in Bypassed \ kept THEN "absent" ELSE table[d]]
          /\ failed' = failed \cup {DeleteRoute(d) : d \in kept}
    BY <1>3 DEF UndoDynamic
  <2>3. /\ Order' /\ process = "cleanup"
        /\ UNCHANGED <<process, stage, opts, todo, original, found>>
        /\ \A x : Contains(stack', x) => Contains(stack, x)
        /\ \A x : x # CloseDynamic /\ Contains(stack, x) => Contains(stack', x)
        /\ Len(stack') > 1 => Len(stack) > 1
    BY <2>1, UndoingFacts
  <2>4. HostInv'
    BY <1>0, <2>1, <2>2, <2>3, DestinationFacts
    DEF HostInv, DeadInv, Bypassed, Alive, On, TypeOK
  <2>5. UndoCovers'
    <3>1. opts.dryRun => table' = table
      BY <1>0, <2>2, <2>3 DEF HostInv, Bypassed, Alive, TypeOK
    <3>2. \A d \in Destinations : table'[d] # found.table[d] =>
             \/ Contains(stack', DeleteRoute(d))
             \/ d \in Unowned'
             \/ DeleteRoute(d) \in failed'
      <4> SUFFICES ASSUME NEW d \in Destinations, table'[d] # found.table[d]
                   PROVE  \/ Contains(stack', DeleteRoute(d))
                          \/ d \in Unowned'
                          \/ DeleteRoute(d) \in failed'
        BY <2>3
      <4>1. CASE d \in Bypassed
        <5>1. found.table[d] = "absent"
          BY <1>0, <2>3, <4>1, DestinationFacts DEF HostInv, DeadInv, Bypassed, Alive
        <5>2. d \in kept
          BY <2>2, <4>1, <5>1
        <5> QED BY <2>2, <5>2
      <4>2. CASE d \notin Bypassed
        <5>1. \/ Contains(stack, DeleteRoute(d))
              \/ d \in Unowned
              \/ DeleteRoute(d) \in failed
          BY <1>0, <2>2, <2>3, <4>2 DEF UndoCovers, Alive
        <5>2. d \in Unowned => d \in Unowned'
          BY <2>1 DEF Bypassed, Unowned
        <5> QED BY <2>2, <2>3, <5>1, <5>2, DistinctActions
      <4> QED BY <4>1, <4>2
    <3> QED BY <1>0, <2>1, <2>2, <2>3, <3>1, <3>2, DistinctActions DEF UndoCovers, Bypassed,
         Unowned, Alive
  <2> QED
    BY <1>0, <2>1, <2>3, <2>4, <2>5
    DEF SetupInv, DeadInv, ExitRestores, UpstreamValidated, Alive, At, Kept
<1>4. CASE UndoRuntime
  <2>1. /\ Undoing(StopRuntime)
        /\ runtime' = (IF opts.dryRun THEN runtime ELSE "off")
        /\ UNCHANGED <<failed, table, bypass, device, resolv>>
    BY <1>4 DEF UndoRuntime, Effect
  <2>2. /\ Order' /\ process = "cleanup"
        /\ UNCHANGED <<process, stage, opts, todo, original, found>>
        /\ \A x : Contains(stack', x) => Contains(stack, x)
        /\ \A x : x # StopRuntime /\ Contains(stack, x) => Contains(stack', x)
        /\ ~opts.dryRun => ~Contains(stack', StopRuntime)
        /\ Len(stack') > 1 => Len(stack) > 1
    BY <2>1, UndoingFacts
  <2> QED
    BY <1>0, <2>1, <2>2, DistinctActions
    DEF SetupInv, HostInv, DeadInv, UndoCovers, Bypassed, Unowned, ExitRestores,
        UpstreamValidated, Alive, On, At,
        Kept
<1>5. CASE UndoDNS
  <2>1. Undoing(RestoreDNS) /\ UNCHANGED <<table, bypass, device, runtime>>
    BY <1>5 DEF UndoDNS
  <2>2. PICK kept \in SUBSET Services :
          /\ kept # {} => ~opts.dryRun
          /\ resolv' = IF opts.dryRun THEN resolv
                       ELSE [s \in Services |-> IF s \in kept THEN resolv[s] ELSE original[s]]
          /\ failed' = failed \cup {RestoreService(s) : s \in kept}
    BY <1>5 DEF UndoDNS, Effect
  <2>3. /\ Order' /\ process = "cleanup"
        /\ UNCHANGED <<process, stage, opts, todo, original, found>>
        /\ Contains(stack, RestoreDNS)
        /\ \A x : Contains(stack', x) => Contains(stack, x)
        /\ \A x : x # RestoreDNS /\ Contains(stack, x) => Contains(stack', x)
        /\ ~opts.dryRun => ~Contains(stack', RestoreDNS)
        /\ Len(stack') > 1 => Len(stack) > 1
    BY <2>1, UndoingFacts
  <2>4. \A s \in Services : resolv'[s] # found.resolv[s] =>
           resolv'[s] = resolv[s] /\ RestoreService(s) \in failed'
    BY <1>0, <2>2, <2>3 DEF HostInv, UndoCovers, Bypassed, Unowned, Alive, On
  <2>5. HostInv'
    BY <1>0, <2>1, <2>3, <2>4 DEF HostInv, Alive, On
  <2>6. UndoCovers'
    BY <1>0, <2>1, <2>2, <2>3, <2>4, DistinctActions DEF UndoCovers, Bypassed, Unowned, Alive
  <2> QED
    BY <1>0, <2>1, <2>3, <2>5, <2>6
    DEF SetupInv, DeadInv, ExitRestores, UpstreamValidated, Alive, At, Kept
<1>6. CASE UndoFails
  <2>1. PICK d \in Destinations : Undoing(DeleteRoute(d))
    BY <1>6 DEF UndoFails
  <2>2. /\ Order' /\ process = "cleanup" /\ DeleteRoute(d) = Last(stack)
        /\ UNCHANGED <<process, stage, opts, todo, original, found>>
        /\ \A x : Contains(stack', x) => Contains(stack, x)
        /\ \A x : x # DeleteRoute(d) /\ Contains(stack, x) => Contains(stack', x)
        /\ Len(stack') > 1 => Len(stack) > 1
    BY <2>1, UndoingFacts
  <2>3. failed' = failed \cup {DeleteRoute(d)} /\ UNCHANGED host
    BY <1>6, <2>2 DEF UndoFails
  <2> QED
    BY <1>0, <2>2, <2>3, DistinctActions
    DEF SetupInv, HostInv, DeadInv, UndoCovers, Bypassed, Unowned, ExitRestores,
        UpstreamValidated, Alive, On, At,
        host, Kept
<1>7. CASE Exit
  <2>1. /\ process = "cleanup" /\ process' = "exited" /\ stack = <<>>
        /\ UNCHANGED <<opts, stage, todo, stack, failed, host, original, found>>
    BY <1>7 DEF Exit
  <2>2. \A x : ~Contains(stack, x)
    BY <2>1, EmptyHas
  <2>3. Order'
    BY <1>0, <2>1 DEF Order
  <2>4. ExitRestores'
    BY <1>0, <2>1, <2>2 DEF UndoCovers, Bypassed, Unowned, ExitRestores, Alive, host
  <2> QED
    BY <1>0, <2>1, <2>2, <2>3, <2>4
    DEF SetupInv, HostInv, DeadInv, UndoCovers, Bypassed, Unowned, UpstreamValidated, Alive,
        At, host, Kept
<1> QED BY <1>1, <1>2, <1>3, <1>4, <1>5, <1>6, <1>7 DEF CleanupStep

LEMMA InvStep == IInv /\ [Next]_vars => IInv'
<1> SUFFICES ASSUME IInv, [Next]_vars PROVE IInv'
  OBVIOUS
<1>0. TypeOK'
  BY TypeStep DEF IInv
<1>1. CASE \E o \in Options : Start(o)
  BY <1>0, <1>1, StartKeeps DEF IInv, Kept
<1>2. CASE SetupStep
  BY <1>0, <1>2, QuietSetupKeeps, RegisteringKeeps DEF SetupStep, IInv, Kept
<1>3. CASE RuntimeDies \/ \E d \in Resolved : BypassStep(d)
  BY <1>0, <1>3, ServingKeeps DEF IInv, Kept
<1>4. CASE Signal \/ Interrupt \/ Kill
  BY <1>0, <1>4, EndKeeps DEF IInv, Kept
<1>5. CASE CleanupStep
  BY <1>0, <1>5, CleanupKeeps DEF IInv, Kept
<1>6. CASE UNCHANGED vars
  BY <1>6
  DEF vars, run, host, IInv, TypeOK, Order, SetupInv, HostInv, DeadInv, UndoCovers, Bypassed,
      Unowned, ExitRestores,
      UpstreamValidated, Alive, On, At
<1> QED BY <1>1, <1>2, <1>3, <1>4, <1>5, <1>6 DEF Next, BypassStep

LEMMA Invariant == Spec => []IInv
  BY InvInit, InvStep, PTL DEF Spec

-----------------------------------------------------------------------------
(* Where rollbacks do not fail *)

\* The dynamic bypass routes nobody will delete.
Lost == {d \in Resolved : bypass[d] = "lost"}

\* A run that ends by itself leaves everything as it found it, but for a bypass
\* route that had run out when it ended and was to be deleted.
ExitRestoresAll ==
    process = "exited" =>
        /\ resolv = found.resolv
        /\ \A d \in Destinations : table[d] # found.table[d] =>
              d \in Resolved /\ bypass[d] = "expiring"

LEMMA NoneFail ==
  ASSUME "undo" \notin Faults, failed = {}, [Next]_vars
  PROVE  failed' = {}
<1>1. CASE \E o \in Options : Start(o)
  BY <1>1 DEF Start
<1>2. CASE SetupStep
  BY <1>2
  DEF SetupStep, PreflightPasses, PreflightFails, StageFails, CreateDevice,
      ConfigureInterface, DeviceUp, DiscoverDefaultRoute, AddRoute, RouteExists, RoutesApplied,
      OpenDynamic, StartRuntime, ReadDNS, DNSApplied, Wait, SetDNS, Return, run
<1>3. CASE RuntimeDies \/ \E d \in Resolved : BypassStep(d)
  BY <1>3
  DEF RuntimeDies, BypassStep, Bypass, BypassLost, AddDynamic, BypassExpires, ExpiryDeletes, run
<1>4. CASE Signal \/ Interrupt \/ Kill
  BY <1>4 DEF Signal, Interrupt, Kill, Gone, Return
<1>5. CASE CleanupStep
  BY <1>5
  DEF CleanupStep, UndoDevice, UndoRoute, UndoDynamic, UndoRuntime, UndoDNS, UndoFails, Exit
<1>6. CASE UNCHANGED vars
  BY <1>6 DEF vars, run
<1> QED BY <1>1, <1>2, <1>3, <1>4, <1>5, <1>6 DEF Next, BypassStep

\* The steps that may change what becomes of a bypass route.
LEMMA BypassKept ==
  ASSUME [Next]_vars
  PROVE  \/ UNCHANGED bypass
         \/ \E o \in Options : Start(o)
         \/ \E d \in Resolved : BypassStep(d)
         \/ UndoDynamic
<1>1. CASE SetupStep
  BY <1>1
  DEF SetupStep, PreflightPasses, PreflightFails, StageFails, CreateDevice,
      ConfigureInterface, DeviceUp, DiscoverDefaultRoute, AddRoute, RouteExists, RoutesApplied,
      OpenDynamic, StartRuntime, ReadDNS, DNSApplied, Wait, SetDNS, Return, host
<1>2. CASE RuntimeDies \/ Signal \/ Interrupt \/ Kill
  BY <1>2 DEF RuntimeDies, Signal, Interrupt, Kill, Gone, host
<1>3. CASE CleanupStep
  BY <1>3
  DEF CleanupStep, UndoDevice, UndoRoute, UndoRuntime, UndoDNS, UndoFails, Exit, host
<1>4. CASE UNCHANGED vars
  BY <1>4 DEF vars, host
<1> QED BY <1>1, <1>2, <1>3, <1>4 DEF Next, BypassStep

-----------------------------------------------------------------------------
(* The theorems *)

(* Every reachable state of a host is well typed, and Apply has added its whole *)
(* plan when setup goes on.                                                     *)
THEOREM TypeCorrect == Spec => []TypeOK
<1>1. IInv => TypeOK
  BY DEF IInv
<1> QED BY <1>1, Invariant, PTL

(* At every moment of every run there is a registered rollback, or the report of *)
(* one that failed, for whatever the run has changed, dynamic bypass routes that  *)
(* have lost their entry excepted: a failed or unfinished delete at their expiry, *)
(* a killed add, an add that ends after takeAdded.                                *)
THEOREM UndoCoversSafe == Spec => []UndoCovers
<1>1. IInv => UndoCovers
  BY DEF IInv
<1> QED BY <1>1, Invariant, PTL

(* A run that ends by itself has put back what it found, or reported what it could *)
(* not, whichever of its steps failed and however earlier runs ended, with the     *)
(* same exception.                                                                 *)
THEOREM ExitSafe == Spec => []ExitRestores
<1>1. IInv => ExitRestores
  BY DEF IInv
<1> QED BY <1>1, Invariant, PTL

(* The exceptions have no other cause: where rollbacks and deletes do not fail and *)
(* adds are neither killed nor late, a run that ends by itself has put back        *)
(* everything, but for the route a timer was about to delete when it ended.        *)
THEOREM ExitExact ==
  ASSUME "undo" \notin Faults, "add" \notin Faults
  PROVE  Spec => []ExitRestoresAll
<1> DEFINE NoneLeft == failed = {} /\ Lost = {}
<1>1. Init => NoneLeft
  BY DEF Init, Lost
<1>2. NoneLeft /\ TypeOK /\ [Next]_vars => NoneLeft'
  <2> SUFFICES ASSUME NoneLeft, TypeOK, [Next]_vars PROVE NoneLeft'
    OBVIOUS
  <2>1. failed' = {}
    BY NoneFail
  <2>2. CASE UNCHANGED bypass
    BY <2>1, <2>2 DEF Lost
  <2>3. CASE \E o \in Options : Start(o)
    BY <2>1, <2>3 DEF Start, Lost
  <2>4. ASSUME NEW d \in Resolved, BypassStep(d) PROVE NoneLeft'
    <3>1. bypass'[d] # "lost" /\ \A e \in Resolved : e # d => bypass'[e] = bypass[e]
      BY <2>4 DEF BypassStep, Bypass, BypassLost, AddDynamic, BypassExpires, ExpiryDeletes, TypeOK
    <3> QED BY <2>1, <3>1 DEF Lost
  <2>5. CASE UndoDynamic
    BY <2>1, <2>5 DEF UndoDynamic, Lost
  <2> QED BY <2>2, <2>3, <2>4, <2>5, BypassKept
<1>3. NoneLeft /\ TypeOK /\ ExitRestores => ExitRestoresAll
  <2> SUFFICES ASSUME NoneLeft, TypeOK, ExitRestores, process = "exited"
               PROVE  /\ resolv = found.resolv
                      /\ \A d \in Destinations : table[d] # found.table[d] =>
                            d \in Resolved /\ bypass[d] = "expiring"
    BY DEF ExitRestoresAll
  <2>1. resolv = found.resolv
    <3>1. /\ resolv \in [Services -> Setting] /\ found.resolv \in [Services -> Setting]
          /\ \A s \in Services : resolv[s] = found.resolv[s]
      BY DEF ExitRestores, TypeOK
    <3> QED BY <3>1
  <2> QED BY <2>1 DEF ExitRestores, Unowned, Lost
<1> QED BY <1>1, <1>2, <1>3, ExitSafe, TypeCorrect, PTL DEF Spec

(* StartRuntime never indexes an empty list of DNS servers. *)
THEOREM UpstreamSafe == Spec => []UpstreamValidated
<1>1. IInv => UpstreamValidated
  BY DEF IInv
<1> QED BY <1>1, Invariant, PTL

(* As long as every rollback succeeds, the tunnel's own packets never go into the *)
(* tunnel: the endpoint's route rests below those of the tunnel.                  *)
THEOREM EndpointSafe == Spec => []EndpointExcluded
<1>1. IInv => EndpointExcluded
  <2> SUFFICES ASSUME IInv, failed = {}, Alive, NEW d \in Tunnelled, table[d] = "ours"
               PROVE  table[Endpoint] = "ours"
    BY DEF EndpointExcluded, EndpointAlwaysExcluded
  <2> USE DEF IInv
  <2>1. d \in Destinations /\ Endpoint \in Destinations /\ d \notin Bypassed \cup Unowned
    BY DestinationFacts DEF Bypassed, Unowned
  <2>2. table[d] # found.table[d] /\ ~opts.dryRun
    BY <2>1 DEF DeadInv, UndoCovers, Bypassed, Unowned
  <2>3. Contains(stack, DeleteRoute(d))
    BY <2>1, <2>2 DEF UndoCovers, Bypassed, Unowned
  <2>4. Contains(stack, DeleteRoute(Endpoint))
    BY <2>3, Below
  <2> QED BY <2>1, <2>2, <2>4 DEF HostInv, On
<1> QED BY <1>1, Invariant, PTL

(* Finding 3 has no other cause than a rollback that fails: without one the endpoint *)
(* is excluded whenever a route of the tunnel is in place.                           *)
THEOREM EndpointAlwaysSafe == ASSUME "undo" \notin Faults PROVE Spec => []EndpointAlwaysExcluded
<1> DEFINE NoneFailed == failed = {}
<1>1. Init => NoneFailed
  BY DEF Init
<1>2. NoneFailed /\ [Next]_vars => NoneFailed'
  BY NoneFail
<1>3. NoneFailed /\ EndpointExcluded => EndpointAlwaysExcluded
  BY DEF EndpointExcluded
<1> QED BY <1>1, <1>2, <1>3, EndpointSafe, PTL DEF Spec

(* As long as every rollback succeeds, no service names the forwarder before it *)
(* serves or after it has been stopped.                                         *)
THEOREM LocalDNSSafe == Spec => []LocalDNSServed
<1>1. IInv => LocalDNSServed
  <2> SUFFICES ASSUME IInv, Alive, failed = {}, NEW s \in Services,
                      resolv[s] # found.resolv[s], resolv[s] = "local"
               PROVE  runtime # "off"
    BY DEF LocalDNSServed
  <2> USE DEF IInv
  <2>1. Contains(stack, RestoreDNS) /\ ~opts.dryRun
    BY DEF UndoCovers, Bypassed, Unowned
  <2>2. opts.domains
    BY DEF HostInv
  <2>3. Contains(stack, StopRuntime)
    BY <2>1, <2>2, Below
  <2> QED BY <2>1, <2>3 DEF HostInv, On
<1> QED BY <1>1, Invariant, PTL

(* As long as every rollback succeeds, the tunnel's resolver is named only while *)
(* the device is up and both of the tunnel's routes are in place.                *)
THEOREM TunnelDNSSafe == Spec => []TunnelDNSInsideTunnel
<1>1. IInv => TunnelDNSInsideTunnel
  <2> SUFFICES ASSUME IInv, Alive, failed = {}, resolv # found.resolv
               PROVE  device = "up" /\ \A d \in Tunnelled : table[d] = "ours"
    BY DEF TunnelDNSInsideTunnel
  <2> USE DEF IInv
  <2>1. PICK s \in Services : resolv[s] # found.resolv[s]
    BY DEF TypeOK
  <2>2. Contains(stack, RestoreDNS) /\ ~opts.dryRun
    BY <2>1 DEF UndoCovers, Bypassed, Unowned
  <2>3. Len(stack) > 1 /\ \A d \in Tunnelled : Contains(stack, DeleteRoute(d))
    BY <2>2, Below
  <2> QED BY <2>2, <2>3, DestinationFacts DEF HostInv, On
<1> QED BY <1>1, Invariant, PTL

(* No step of any run removes or replaces a route that was there before the run. *)
THEOREM OthersSafe == Spec => OthersKept
<1> DEFINE Others ==
      \A d \in Destinations : table[d] \in {"foreign", "left"} => table'[d] = table[d]
<1>1. IInv /\ [Next]_vars => [Others]_vars
  <2> SUFFICES ASSUME IInv, Next, NEW d \in Destinations, table[d] \in {"foreign", "left"}
               PROVE  table'[d] = table[d]
    BY DEF vars
  <2> USE DEF IInv
  <2>1. CASE \E o \in Options : Start(o)
    BY <2>1 DEF Start
  <2>2. CASE SetupStep
    <3>1. CASE AddRoute
      BY <3>1 DEF AddRoute, Effect, TypeOK
    <3>2. CASE ~AddRoute
      <4>1. table' = table
        BY <2>2, <3>2
        DEF SetupStep, PreflightPasses, PreflightFails, StageFails, CreateDevice,
            ConfigureInterface, DeviceUp, DiscoverDefaultRoute, RouteExists, RoutesApplied,
            OpenDynamic, StartRuntime, ReadDNS, DNSApplied, Wait, SetDNS, Return, host, run
      <4> QED BY <4>1
    <3> QED BY <3>1, <3>2
  <2>3. CASE \E e \in Resolved : BypassStep(e)
    BY <2>3, DestinationFacts
    DEF BypassStep, Bypass, BypassLost, AddDynamic, BypassExpires, ExpiryDeletes, HostInv, TypeOK
  <2>4. CASE RuntimeDies \/ Signal
    BY <2>4 DEF RuntimeDies, Signal, host
  <2>5. CASE Interrupt \/ Kill
    BY <2>5 DEF Interrupt, Kill, Gone, WithoutDevice
  <2>6. CASE CleanupStep
    <3>1. CASE UndoDevice
      BY <3>1 DEF UndoDevice, WithoutDevice, Effect
    <3>2. ASSUME NEW e \in Destinations, UndoRoute(e) PROVE table'[d] = table[d]
      <4>1. Contains(stack, DeleteRoute(e)) /\ process = "cleanup"
        BY <3>2, UndoingFacts DEF UndoRoute
      <4>2. ~opts.dryRun => table[e] = "ours"
        BY <4>1 DEF HostInv, Alive, On
      <4> QED BY <3>2, <4>2 DEF UndoRoute, Effect, TypeOK
    <3>3. CASE UndoDynamic
      <4>1. process = "cleanup"
        BY <3>3 DEF UndoDynamic, Undoing
      <4> QED BY <3>3, <4>1 DEF UndoDynamic, Bypassed, HostInv, Alive, TypeOK
    <3>4. CASE UndoRuntime \/ UndoDNS \/ UndoFails \/ Exit
      BY <3>4 DEF UndoRuntime, UndoDNS, UndoFails, Exit, host
    <3> QED BY <2>6, <3>1, <3>2, <3>3, <3>4 DEF CleanupStep
  <2> QED BY <2>1, <2>2, <2>3, <2>4, <2>5, <2>6 DEF Next, BypassStep
<1> QED BY <1>1, Invariant, PTL DEF Spec, OthersKept
=============================================================================
