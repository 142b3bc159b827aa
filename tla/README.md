# A verification project for awg-proxy

`awg-proxy` brings up an AmneziaWG tunnel. In tunnel mode it creates a TUN
device, replaces the host's routes and resolver, lets chosen addresses and
domains bypass the tunnel, and must put everything back when it ends. In proxy
mode it runs the tunnel in user space and offers SOCKS5 and HTTP proxies to a
child program. This directory holds TLA+ models of both modes and of the files
and command lines they start from, the TLC configurations that check them on
small instances, and TLAPS proofs, for every instance, of the safety of the
components that keep state.

Paths below are relative to the repository (`src/` in `PROJECT.json`).

## 1. The system

### Parts, state and operations

| part | code | state it keeps | operations |
|---|---|---|---|
| dynamic bypass routes | `internal/routing/builders.go` (`dynamicRouteSet`), `platform_linux.go`, `platform_darwin.go` | a map from prefix to entry (state, ttl, timer, generation) under `s.mu`; the kernel's routes | `AddBypassRoute`, the timer callback `expire`, `Close` |
| cleanup stack | `internal/tunnel/cleanup.go` | the rollbacks, `ran`, `done`, `result` under `s.mu` | `Add`, `Run` |
| tunnel service | `internal/tunnel/service.go` | where setup is; the host's routing table and resolver | `RunWithDeps`: validate, create the device, routes, forwarder, DNS, wait, clean up |
| static routes, plan | `internal/routing` | none of its own | `BuildTunnelPlan`, `Apply`, `DefaultRoute` |
| domain bypass runtime | `internal/dns/forwarder.go` | server, done, cancel, config, ctx under `r.mu` | `Start`, `Close`, the watcher, `handleDNS` |
| answer collection | `internal/dns/forwarder.go` | none | `collectDNSAAnswersForQuestions`, `collectLinkedARecords`, `HandleAnswer` |
| domain rules | `internal/dns/rules.go` | none | normalise, match |
| DNS managers | `internal/dns/manager_linux.go`, `manager_darwin.go` | what was there before | `Apply`, and the restoration it registers |
| device, config checks, rules file | `internal/tunnel` | the TUN device | create, up, close; accept or reject |
| command runner | `internal/platform` | none; recorders for a dry run | `Run`, `Output` |
| configuration parser | `internal/config/awg.go` | the section and the peer being read | `Parse`, `ToUAPI` |
| user-space network | `internal/awgnet/userspace.go` | the device | `Start`, `Close` |
| SOCKS5 and HTTP proxy | `internal/proxy/socks.go`, `http.go` | two listeners; per connection two sockets, two copying goroutines, `errChan` | accept, read a request, dial, answer, relay, `Close` |
| command runner of proxy mode | `internal/proxy/runner.go`, `app_darwin.go` | the child process, a channel of signals | `RunCommand`, `RunShell`, `RunApp` |
| command line, modes | `internal/app`, `cmd` | none | `ParseCLI`, `runTunnelMode`, `runProxyMode` |

### How they interact

`RunWithDeps` runs on one goroutine. Every step that changes the host registers
a rollback in the `CleanupStack`, and the deferred `Run` undoes them from the
last to the first: DNS, forwarder, dynamic routes, `/1` routes, static routes,
the endpoint's route, device. With domain rules, three more kinds of goroutine
live at the same time: DNS handlers, each of which asks the upstream and then
calls `AddBypassRoute` for every address; timer callbacks that take routes away
again; and the watcher that closes the forwarder when its context is cancelled.
They meet in two mutexes (`s.mu`, `r.mu`), neither of which is held while a
command runs or a packet is awaited, and in the host's routing table, which any
other program may change as well.

`runProxyMode` too is one goroutine whose deferred calls undo what it set up:
HTTP listener, SOCKS5 listener, session. Between them it waits for a signal or
for the child process. Beside it run the accept loops, a handler and two copiers
per connection, which share the two sockets and a channel, and the goroutine
that forwards signals, which shares `cmd.Process` with `cmd.Run` without a lock.
Nobody waits for the handlers; they end with the process.

### What is hard, and what makes each part correct

- *Dynamic routes.* `ip route add` and `ip route del` run outside the lock, so
  an add, an expiry and `Close` can overlap on one prefix; a timer may fire
  while its entry is being refreshed; a command can be killed half way.
  Correct means: every route the program installed has exactly one party that
  will delete it, nobody else's route is touched, a refresh is not undone by an
  older timer, a failed add can be tried again, and nothing is left at the end.
- *Cleanup stack.* `Run` may be called by several goroutines and race with `Add`.
  Correct means: each rollback runs once, latest first, errors do not stop the
  loop, and every `Run` returns the one joint result, after the last rollback.
- *Tunnel service.* Any step can fail, a signal can come at any time, and the
  process can be killed and run again on what it left. Correct means: the host is
  as the run found it; at every moment what was changed is on the stack; the
  tunnel's own packets are never routed into the tunnel; the host's resolver
  never points at a forwarder that does not serve.
- *Forwarder.* `Start`, `Close`, the watcher, the server's goroutine and the
  handlers interleave, and both waits are limited to a second. Correct means:
  no listener without somebody who can stop it, a `Close` that reports success
  has drained the handlers, a server that died is reported, a client gets an
  answer only after its routes were accepted.
- *Answers and rules.* Chains and loops of aliases, spellings, wildcards, times to
  live. Correct means: exactly the addresses a bypassed name leads to are routed,
  for as long as every record on the way lasts.

- *Proxies.* Client, server, both copiers and the handler end in any order, and
  either side may stop reading. Correct means: the client is told the truth about
  the dial, a stream ends because it is complete or because somebody broke it, and
  every connection and goroutine goes once one direction has ended.
- *Proxy mode.* Any step of the start can fail, the child can end and a signal can
  arrive at any time, and the terminal sends signals to the child as well. Correct
  means: the child never runs without its proxies, and gets the signals that reach
  the program while it runs.
- *Files and command lines.* Sections, peers and repeated keys in any order, an option
  where a separator may stand. Correct means: the program does what the text says,
  and the device gets what the file says.

`PROJECT.json` lists each of these hazards at its line, with the property that
covers it or the reason why none does.

## 2. Modules

| module | models | state and actions |
|---|---|---|
| `DynamicRoutes` | `dynamicRouteSet` and the platform type around it | `routes` is the map, `timer` and `generation` its fields; `pc`/`target` are the goroutines inside `AddBypassRoute`; `fired` are callbacks waiting for the lock, `expiring` and `taken` prefixes whose delete is still to run; `kernel` is the routing table. Each locked region and each command is an action. |
| `CleanupPromise` | what a cleanup stack promises | `Register`, `Begin`, `UndoLatest`, `Tell` |
| `CleanupStack` | `CleanupStack` | its four fields, and per `Run` the local copy, index and errors; implements `CleanupPromise` |
| `BypassAnswers` | `handleDNS` and `HandleAnswer` calling `AddBypassRoute` for all addresses of an answer, through `staticAwareDynamicBypassRoutes` | extends `DynamicRoutes`, whose callers are the handlers; `left` are the addresses a handler has still to ask for, `told` those accepted, `gone` remembers those given up since. Every step that touches the routes is a step of `DynamicRoutes`. |
| `TunnelService` | `RunWithDeps`, `BuildTunnelPlan`, `Apply`, both DNS managers, the dry run, and the host between runs | `stage` is the line setup has reached, `todo` the routes `Apply` still has to add, `unset` the services the DNS manager has still to set, `stack` the registered rollbacks; `table`, `resolv` and `device` are the host, and `bypass` says who will delete each dynamic bypass route. A service is a network service of macOS, or the one `resolv.conf` of Linux. |
| `DomainBypassRuntime` | `Start`, `cancelStartup`, the watcher, `Close`, `handleDNS`, on a model of the `miekg/dns` server | `registered` is `r.server` and the five fields set with it; one program counter per `Start`, server, `Close` and handler |
| `AnswerRoutes` | the collection of addresses and times to live | pure operators, the loop over aliases with its variables `seen` and `current`; the state walks through requests and answers |
| `ProxyRelay` | one connection to either proxy | `handler` is the line it has reached, `copier` the two goroutines, `results` is `errChan`; `sent`, `read`, `written` count pieces of data by direction, so that what is lost can be told |
| `ProxyMode` | `runProxyMode`, `awgnet.Start`, the listeners, `RunCommand` and the signals, around a `ProxyRelay` | `main` is the line the main goroutine has reached, `listening`, `session`, `child`, `process` (`cmd.Process`) and `queue` (the channel of signals) what it shares |
| `DomainRules`, `RulesFile`, `ConfigFile`, `CommandLine` | `dns/rules.go`; `LoadRules`; `Parse`, `ValidateConfig`, `ToUAPI` and the device that reads it; `ParseCLI` | pure operators: each loop over lines or arguments is a recursive function or a fold with the loop's variables as its state, beside a reference that looks at the text as a whole |
| `InputFiles` | the four modules above together | the state walks through patterns and hosts, rules files, configuration files and command lines |
| `MC...` | instances for TLC | model values, symmetry, options |
| `BypassAnswers_proofs` (with `DynamicRoutes`), `CleanupStack_proofs`, `TunnelService_proofs`, `DomainBypassRuntime_proofs`, `ProxyMode_proofs` (with `ProxyRelay`), `AnswerRoutes_proofs`, `InputFiles_proofs` | theorems | see section 5 |
| `Induction_proofs` | induction and recursion over natural numbers | what `AnswerRoutes_proofs` and `InputFiles_proofs` rest on |

External code is modelled by how the code here uses it and marked so in the map
of `PROJECT.json`: `ip route` succeeds on an absent destination and fails on a
present one; a cancelled context kills a running command before or after it took
effect; `time.AfterFunc` cannot recall a callback that has started; the
`miekg/dns` server refuses to shut down before it was activated, waits for its
handlers, and closes its socket; `io.Copy` alternates reads and writes; `net/http`
cancels the request of a client that has ended its direction, closes what it still
owns in `Server.Close`, and ends a chunked response normally when its handler
returns; `flag` stops at the first word; the AmneziaWG device reads its
configuration line by line and takes addresses only for an endpoint.

### Abstractions

- Time in `DynamicRoutes` is counted in ticks; a timer is the ticks left. A nil map
  and an empty one behave alike in every operation and are one value.
- A destination in `TunnelService` is a model value. Static rules are compared for
  equality where the code tests containment, no static rule names a `/1`
  route, and the addresses of an interface go with it.
- What other programs write to the resolver's settings while a tunnel is up is left out; what
  they did before it started is not (`Init`, and the table's foreign routes).
- A dynamic bypass route in `TunnelService` is held by its entry, by the callback that
  deletes it, or by nobody (`bypass`); how the steps on one entry overlap is the subject
  of `DynamicRoutes`. A route whose add is still running when `Close` takes the map counts
  as held by nobody from the moment the kernel has it.
- A server is named after the `Start` that made it. Requests are counted addresses,
  their contents the subject of `AnswerRoutes`.
- The routes of an answer are a set in `AnswerRoutes`: the order in which they are asked
  for, and a route asked for twice, are the subject of `BypassAnswers`. Of the order of
  records only the place of a name's first alias counts in the code.
- In `BypassAnswers` every request for a route chooses its lifetime, although the
  addresses of one name share theirs.
- A connection carries counted pieces of data. The negotiation of SOCKS5 is one step
  that may break off anywhere; `connect` and `plain` are the two paths of the HTTP
  proxy, with one request per client connection. An end of a connection resets it, ends its
  own direction, or does nothing more.
- The child of proxy mode may do anything, which includes nothing, about a signal.
- A name is the sequence of its labels; a label is a member of a small set with its
  lower-case form.
- A line of a file is a section's header, a key with its value, or text; comments,
  blanks and the spelling of keys are left out. One key stands for those the parser
  treats alike (`Jc` to `S4`, `H1` to `I5`), one option for those of one type, and
  one switch for all.
- Definitions that begin with "Mutated:" are broken variants of the definition that
  follows them. No action uses them: `PROJECT.json` names, for each property, the
  one that breaks it.

## 3. Runs

| run | checks | shows |
|---|---|---|
| `dynamic_answers` | `ReservationHeld`, `NoOrphanRoute`, `AnswerBacked`, `LeaseHonoured`, `PendingResolves`, `RouteEventuallyGone` | With handlers that have returned before `Close` and adds that may fail, an address a client was told of bypasses the tunnel, or its route is being added, unless it was given up since; no route is lost, no prefix stays reserved, no refresh is undone, and every route goes in the end. |
| `dynamic_undrained` | `TypeOK`, `RouteOwnership`, `ForeignRoutesKept` | With late handlers, late callbacks, killed commands and failing deletes, a route may be orphaned, but none has two owners and no foreign route is touched. |
| `dynamic_killed` | `RestoredAfterClose` (violated) | finding 1 |
| `cleanup` | `OneUndoer`, `SameResult`, `RunReturns`, `Implements` | Racing callers of `Run` and `Add`; the stack implements `CleanupPromise`. |
| `tunnel` | `ExitRestores`, `UndoCovers`, `EndpointExcluded`, `LocalDNSServed`, `TunnelDNSInsideTunnel`, `UpstreamValidated`, `OthersKept`, `RunEnds` | With failing steps and rollbacks, adds that are killed or come late, expiries that fail to delete, a dying forwarder and a killed process that is run again, an exit restores all that no rollback reported, network service by network service, but for bypass routes that lost their entry; a dry run changes nothing; as long as rollbacks succeed, the orders of setup and cleanup hold at every moment. |
| `tunnel_interrupted` | `SignalRestores` (violated) | finding 2 |
| `tunnel_loop` | `EndpointAlwaysExcluded` (violated) | finding 3 |
| `runtime_serving` | `NoOrphanServer`, `CloseReturns`, `CancelStops` | The forwarder as the tunnel uses it: `Close` after the `Start`s have returned, no `Start` after a `Close`. |
| `runtime_overlap` | `FailedStartReleases`, `CloseDrains`, `FailureReported`, `AnswerRouted` | The same with `Start` and `Close` in any order. |
| `input_files` | `MatchesWhatItCovers`, `RulesFileMeansItsLines`, `ConfigSectionsKeptApart`, `DeviceGetsConfig`, `CommandLineUnderstood` | Every loop over lines, labels or arguments agrees with a reference that knows no order of reading; the device has what the file says, and in tunnel mode its only endpoint is the address that is kept out of the tunnel. |
| `answer_routes` | `RoutesWhatIsAsked`, `LeaseWithinTTL` | The loop over aliases agrees with a closure that knows no order. |
| `proxy_mode` | `ReplyTruthful`, `EndMeansComplete`, `ChildNotAbandoned`, `RelayReleased`, `SignalForwarded` | Whatever client, server, child and signals do: answers are true, streams end complete or broken, connections and goroutines go, the child always has its proxies. |

### Bounds

- `dynamic_answers`: two handlers, the fewest that meet on one prefix: one is told
  nil while the other's add is under way or about to fail. Answers that share two
  addresses in either order, and ones that contain a static address or the endpoint's.
  One lifetime, since `PromptTimers` and the refresh decide here and the lengths do
  not; lifetimes that differ are in `dynamic_undrained`, and the theorems on
  `DynamicRoutes`, whose steps these are, hold for all of them.
- `dynamic_undrained`: three handlers, so that one adds while a second refreshes and
  a third finds a route that expires; two prefixes of the program and one foreign;
  lifetimes of one and two ticks, so that a refresh may shorten or lengthen;
  `MaxGeneration` refreshes per entry, enough for a stale callback of each of two
  earlier generations. Timers have no horizon. `MaxGeneration` limits refreshes
  only; a new entry starts at zero as in the code. The violation run needs no
  more than two handlers, one prefix and one refresh.
- `cleanup`: three runners (one undoes, one waits, one arrives late) and three
  rollbacks in any order, any of which may come too late or fail.
- `tunnel`, `tunnel_*`: the options that lead through every branch of setup, one static rule
  that may be foreign, left behind, bypassed or the endpoint itself; two services, so
  that one is set, or restored, and the other is not; two runs, so that the second
  finds whatever the first left. The two violation runs need one run with everything
  switched on. `Faults` names what may go wrong: `"setup"` a step of setup, `"undo"` a
  rollback or the delete of an expired route, `"add"` an add that is killed or ends after
  `takeAdded`, `"signal"` and `"kill"` the end of the process, `"die"` the forwarder's.
- `runtime_*`: two `Start`s, since the code distinguishes "mine" and "another"; one
  or two `Close`s beside the two watchers; one handler and up to two addresses,
  since handlers share nothing but the configuration.
- `input_files`: names of up to four labels over `""`, `"*"` and one letter in two
  spellings: every position of two wildcards around literals. Rules files of up to
  four lines over addresses of two bits with every prefix length. Configuration files
  of up to four lines, from nothing or after a complete tunnel with one peer: two
  headers of each kind with a key after each, repeated keys, unknown sections,
  numbers that are none. Command lines of up to four pieces: two options, a word or the
  name of a command, and a separator in any order.
- `proxy_mode`: one connection, since connections share nothing but the listener and
  the process; one piece from the client and two from the server, so that a response
  can break off between two.
- `answer_routes`: questions and records together at most four: chains of three
  names, loops of aliases, names in two spellings, aliases of the root.

Every specification may stop (nobody has to ask, to connect, to close or to start a
tunnel), so deadlock is not checked; what must not get stuck is stated as liveness.

### Fairness

A goroutine that has started goes on, an external command ends and time passes:
these are the conjuncts of each `Fairness`. The code has no loop that could keep
such a step from running, and each `exec` and each wait of the forwarder ends or
is limited by a timer (`CloseReturns` relies on the limits and assumes
nothing of the handlers). No fairness is assumed of requests, refreshes,
signals, faults, `Close`, or the start of a run. Steps of handlers in
`DomainBypassRuntime` are not fair: an upstream or a command may hang.
`RouteEventuallyGone` excepts routes that are refreshed for ever. In `ProxyMode` the
main goroutine, the handlers and the copiers go on where they do not wait for an
end; no end has to send, to read or to close, and the child does as it likes. A write
that blocks because its reader has stopped is not fair (`CopyWrites`), and
`RelayReleased` holds all the same, for the handler closes both sockets.

## 4. Findings

1. **A bypass route can outlive the tunnel** (`dynamic_killed`,
   `platform_linux.go:58`). `Close` of the forwarder cancels the context under
   which `AddBypassRoute` runs its command. If the command is killed after the
   kernel took the route, `Run` reports an error, `forget` drops the entry and
   nobody deletes the route. The design says "Routes and DNS are restored after
   exit." Two other ways lead to the same end: an add that ends after `takeAdded` finds
   no entry to mark (`builders.go:107`), and a delete that fails when its timer has run
   out is forgotten, for its entry is gone and its error is dropped (`builders.go:174`).
   No rollback reports such a route. `ExitRestores` and `UndoCovers` name it as their one
   exception (`Unowned`); `ExitExact` proves that they have no other cause.
2. **Signals outside the wait skip the cleanup** (`tunnel_interrupted`,
   `service.go:268`). Signals are caught only inside `waitForSignal`; during setup
   and during the cleanup Ctrl+C and SIGTERM end the process at once, with routes
   and `resolv.conf` changed. The design lists both among the occasions on which
   cleanup runs.
3. **A failed rollback can leave the tunnel routed into itself** (`tunnel_loop`,
   `cleanup.go:57`). The stack goes on after a rollback that failed; when a `/1`
   route cannot be deleted, the endpoint's route is still removed before the device
   is closed. The design says the endpoint must always be excluded.

One more contradicts a comment and has no run of its own: a signal can be lost while the
command of proxy mode starts. Signals are taken from the moment `signal.Notify` is called,
and the goroutine drops each one it takes while `cmd.Process` is nil (`runner.go:41`,
`Forward`), also when the command runs already and the field is about to be set. The
comment at `runner.go:36` says "Forward standard termination signals (SIGINT, SIGTERM) to
the child command"; `SignalForwarded` holds for those that come later.

Some behaviours contradict no text of the repository and are worth knowing; the
comments of the properties name them:

- `BypassAnswers`: a handler that finds a prefix pending releases its answer before
  the route exists, and also when the add then fails. An answer that contains the
  endpoint's address always ends in SERVFAIL.
- `ProxyMode`: Ctrl+C reaches the child twice, from the terminal and from the program.
- `DomainBypassRuntime`: when the options of the open socket cannot be set, the library
  returns without closing it and so does `Start` (`forwarder.go:119`): it fails and leaves
  the socket open until the Go runtime collects it (`NeverActivated`).
- `ProxyRelay`: a client that ends only its own direction may lose the answer
  (`socks.go:153`), and its plain request is cancelled; what a client sends before its
  CONNECT is answered may be lost (`http.go:68`); a chunked response that breaks off
  ends as if it were whole (`http.go:144`); SOCKS5 destinations given as IPv6 addresses
  are always reported unreachable, for they are put in brackets twice
  (`socks.go:114`); a client that does not finish its request keeps its goroutine.
- `ConfigFile`: an endpoint given by name works in tunnel mode only; proxy mode passes
  it on to a device that refuses it.
- `RulesFile`: two lines that mean one prefix are not merged; the second route cannot
  be added and the tunnel does not start.
- `CommandLine`: options behind a stray word are ignored, `--dry-run` among them, so
  that the run is a real one; `app X -- Y` runs Y.

Two more are not reached by the program, because it starts a runtime once and closes it
after `Start` has returned:

- `Close` during a `Start` whose server is not activated yet is refused by the
  library; `Start` then succeeds and its listener is registered nowhere.
- With a second `Start` after a `Close`, the watcher of the first may wake late and
  close the second server, or take it before it is activated and leave it listening.

`NoOrphanServer` is therefore checked under the tunnel's order of calls only
(`Overlap = FALSE`).

The program itself passes a context that is never cancelled; `Cancellable` covers what
the runtime offers to any caller and its tests use.

## 5. Proofs

The theorems hold for every value of the constants. They rest only on the named
assumptions of the modules, which TLC evaluates on every run.

`BypassAnswers_proofs`, on `DynamicRoutes`:

- `TypeCorrect`, then `OwnershipSafe`: `TypeOK /\ RouteOwnership` is inductive.
  Ownership has to speak of all four possible owners at once (entry, expiry, `Close`,
  a caller that has not recorded its route yet), because each step hands a route from
  one to another. No assumption on faults is needed.
- `ForeignSafe` ("no step touches a foreign route") follows from ownership: every
  delete is by an owner, and an owner's route is the program's own.
- `ReservationSafe`: until `Close`, pending entries and callers at work are in
  one-to-one correspondence.
- `NoOrphanSafe` and `RestoredSafe`, under `Reliable` (`Close` is drained; a command
  may fail to add but is not killed and does not fail to delete). `RestorationInv`
  adds to the above that from `Close` on nobody is at work, and that `Close` returns
  with nothing left to delete. `dynamic_killed` shows that the assumption is needed.
- `LeaseSafe`, under `PromptTimers` (a fired callback gets the lock before the next
  tick): a callback of the latest generation exists only while its entry's timer has
  run out (`CallbackInv`).

`CleanupStack_proofs`:

- `OneUndoerSafe`, `SameResultSafe`: the strengthening `Published` says what is known
  in each state of the channel `done`.
- `Refinement`: every step of `CleanupStack` is a step of `CleanupPromise` or a
  stutter, with the pending rollbacks mapped to the part of the copy the loop has not
  reached.

`BypassAnswers_proofs`, on `BypassAnswers`:

- `AnswersImplementRoutes`: a handler that asks for the addresses of an answer takes,
  for the route set, a step of `DynamicRoutes` or none. What is shown
  of its steps therefore holds with the handlers: `AnswersReservationSafe`,
  `AnswersNoOrphanSafe` (under `Reliable`), `AnswersLeaseSafe` (under `PromptTimers`).
- `AnswerSafe`, for any faults, if `Close` waits for the handlers (`~DrainTimeout`).
  `BackingInv` adds to the invariants of the routes that an address somebody was told
  has an entry until it is given up (`ToldHasEntry`), and that `Close` finds no handler
  at work (`ClosedMeansServed`). Without the wait `CloseRoutes` empties the map under a
  handler that still holds an answer, and the property is false.

`TunnelService_proofs` rests on `DestinationAssumption`: the endpoint is none of the
`/1` routes, the two of them differ, and no rule or resolved address is one of them.

- `IInv` says what the stack of rollbacks tells of the host (`HostInv`) and what each
  stage of setup may rely on (`SetupInv`). Its core is `Order`: which rollback lies
  below which. Setup and cleanup are tied by nothing else: once cleanup has begun,
  `stage` is dead, and what is still in place follows from what lies below the top.
- `UndoCoversSafe`, `ExitSafe`, `UpstreamSafe`, `OthersSafe`: whichever steps fail and
  whatever earlier runs left behind. The first two except the bypass routes that lost
  their entry, as the properties do.
- `ExitExact`: where rollbacks and deletes do not fail and no add is killed or late, an
  exit restores the whole table and every service, but for a route whose timer was
  deleting it at that moment. The exceptions of `ExitRestores` have no other cause.
- `EndpointSafe`, `LocalDNSSafe`, `TunnelDNSSafe`: the three orders of setup and
  cleanup, as long as no rollback has failed.
- `EndpointAlwaysSafe`: where no rollback can fail, the property that finding 3
  violates holds. A failed rollback is its only cause.

`DomainBypassRuntime_proofs`:

- `FailedStartSafe`, `CloseDrainsSafe`, `FailureReportedSafe` and `AnswerRoutedSafe`
  hold for `Start`, `Close`, watchers and handlers in any order. The first excepts a
  socket that could not be activated. `IInv` has a part for
  the server, for what a `Start` holds, for a `Close` that waits, and for a handler.
- `NoOrphanSafe` needs the tunnel's order of calls (`~Overlap`), as a `Close` that
  overlaps a `Start` leaves an unregistered server to that `Start`. `OrderInv` says what
  the order gives: after a `Close` no `Start` is at work, whoever took a server found it
  started, a started server stays registered until somebody takes it, and only one
  `Close` takes it.

`ProxyMode_proofs`, on `ProxyRelay` and `ProxyMode`:

- `ReplySafe`, `EndSafe`: `RelayInv` relates the handler's line to its two sockets, to
  what was told, to how each copier ended and to how many pieces have passed. It is
  inductive under `RelayNext`, all that can happen to a connection, for any number
  of pieces, and every step of `ProxyMode` is one for the connection.
- `ChildSafe`: `MainInv` says what the main goroutine has built up where it is.

`Induction_proofs`: the induction theorems of the library take an operator as a parameter,
which no backend can instantiate. `LeastNatural` (from the well-foundedness of `<`) is
enough to state the same of sets and functions: `Induction` says that a set which holds 0
and goes on holds all numbers up to a bound, `Recursion` that a definition by recursion is
met by some function. The loops of the code are recursive functions in the models, and
both modules below prove what they compute for input of every size.

`AnswerRoutes_proofs`:

- `RoutesAreThoseAsked`: the loop over aliases ends, and has then seen the least set that
  holds the questions and goes from a name to its alias. Each round but the last adds a
  name, so that there are at most as many rounds as names (`SeenThroughout`, a pigeonhole).
- `LeasesAreWithinTTL`: a route is asked for no longer than a record on the way to it lasts.

`InputFiles_proofs`, for input of any length:

- `MatcherIsRight`: the matcher accepts a host if and only if the pattern can be laid over
  it, with at least one label under each `*` and exactly one under the last part. The
  matcher reads both from their ends, a pattern is laid out from its beginning
  (`LaysIsCovers`); lower case and final dots are dealt with first (`NormalizeIsBare`).
- `RulesFileIsRight`: the induction over the lines (`LoadSays`) rests on arithmetic of
  powers of two: masking an address removes its host part and nothing else (`Masking`).
- `ConfigParserIsRight`: after each line the parser's state, `currentPeer` included,
  describes the file up to there (`Describes`).
- `DeviceIsConfigured`: what the device reads is composed from what it reads of each peer
  (`ReadConcat`, `PeerLinesGet`), and after each peer it has what the first ones say
  (`HasFirst`). In tunnel mode one endpoint is resolved and no other is left
  (`ResolvedIs`, `OneEndpoint`).
- `CommandLineIsUnderstood`: the flags behind the first n options hold what those say
  (`Behind`, `LeadingRead`), whatever ends them is kept as it is (`TurnsRest`), and
  the place where `ParseCLI` cuts the line is the separator of what trails the options
  unless one of them has `--` for its value, which is an error (`CutBehind`,
  `SeparatorIsNoValue`).

They assume of the constants only what makes them input of the program: the lower-case form
of a label (`LowerAssumption`), what a line, a name and a piece are made of
(`LinesAssumption`, `NamesAssumption`, `FileLinesAssumption`, `PiecesAssumption`), that
keys are not empty (`KeysAssumption`), and that a word does not begin with `-` and
is no command (`WordsAssumption`).

Every inductive invariant was checked by TLC on the instance of its run before it was
proved.

What stays with TLC:

- Liveness (`PendingResolves`, `RouteEventuallyGone`, `RunReturns`, `RunEnds`,
  `CloseReturns`, `CancelStops`, `RelayReleased`, `SignalForwarded`): it needs fairness
  and `ENABLED`, which the prover does not reason about.
- The properties of the three runs that expect a violation: they are false without the
  assumptions under which `RestoredSafe` and `EndpointAlwaysSafe` prove two of them;
  `SignalRestores` has no such assumption that the code could meet.

## 6. Not modelled

- Usage texts, exit codes and the panels the modes print; how an application is found
  on macOS and which flags a browser is started with (`app_darwin.go`); the parsing of
  the output of `ip`, `route` and `networksetup`: each turns one text into another
  without state, and the models start from its result or its failure.
- IPv6 endpoints, comments and blanks in the input files, headers of HTTP requests.
- Redirects, which `http.Client` follows for a plain request (`http.go:126`): one server
  answers, and what the client asked for is the first one. Decompression by the
  transport, which may turn a response with a Content-Length into a chunked one.
- Signals other than SIGINT and SIGTERM: SIGHUP and SIGQUIT are caught nowhere
  (`runner.go:38`, `service.go:268`) and end either mode where it stands, like a `Kill`.
  SIGINT and SIGTERM are not told apart in `ProxyMode`: which of two is dropped because
  the channel has room for one is left open.
- The AmneziaWG protocol, the netstack and the DNS library beyond what the code calls.
- `Close` of a runtime from one of its own handlers, and a rollback that calls
  `CleanupStack.Run`: no code does either.

## 7. Plan

The modules of section 2 and their runs are done, and every invariant and every action
property of the passing runs is a theorem. What is left:

1. Which of the promises of `DynamicRoutes` survive when commands may be killed or fail
   to delete: how many routes can be lost, and to whom.
2. That `TunnelService` uses its stack as `CleanupPromise` allows.
