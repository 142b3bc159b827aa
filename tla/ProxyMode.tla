------------------------------ MODULE ProxyMode ------------------------------
(***************************************************************************)
(* Proxy mode from its start to its exit: runProxyMode                     *)
(* (internal/app/proxy_mode.go) with the session over the userspace        *)
(* network (internal/awgnet/userspace.go), the two listeners, and the      *)
(* command that runs behind them (internal/proxy/runner.go, and the same   *)
(* code in app_darwin.go), around one connection to the proxies            *)
(* (ProxyRelay).                                                           *)
(*                                                                         *)
(* A signal is SIGINT or SIGTERM, which are not told apart, and comes from *)
(* the terminal, which sends it to the command as well, or to the program  *)
(* alone.  SIGHUP and SIGQUIT, which nothing here catches, are left out.   *)
(* cmd.Process is read by the goroutine that forwards signals while        *)
(* cmd.Run writes it, without a lock: the read sees it before or after.    *)
(***************************************************************************)
EXTENDS ProxyRelay

VARIABLES
    mode,       \* "server", or "command" for run, app and shell
    main,       \* where the main goroutine is
    session,    \* the userspace tunnel
    listening,  \* the protocols whose listener is open
    notified,   \* signal.Notify is in effect
    queue,      \* the channel of signals, with room for one
    child,      \* the command; "signalled" when a signal has been passed on to it
    process     \* cmd.Process has been set

modeVars == <<mode, main, session, listening, notified, queue, child, process>>
vars == <<relayVars, modeVars>>

-----------------------------------------------------------------------------
Init ==
    /\ RelayInit
    /\ mode \in {"server", "command"}
    /\ main = "session"
    /\ session = "down"
    /\ listening = {}
    /\ notified = FALSE
    /\ queue = <<>>
    /\ child = "none"
    /\ process = FALSE

Gone == main \in {"exited", "killed"}

Goto(from, to) == main = from /\ main' = to

\* awgnet.Start, which closes the device again when it cannot configure it.
StartSession ==
    /\ \/ Goto("session", "socks") /\ session' = "up"
       \/ Goto("session", "exited") /\ UNCHANGED session
    /\ UNCHANGED <<relayVars, mode, listening, notified, queue, child, process>>

\* NewSOCKS5Server and NewHTTPProxyServer: the port is taken, or connections queue.
Listen(protocol, next, undo) ==
    /\ \/ Goto(protocol, next) /\ listening' = listening \cup {protocol}
       \/ Goto(protocol, undo) /\ UNCHANGED listening
    /\ UNCHANGED <<relayVars, mode, session, notified, queue, child, process>>

\* waitForProxyInterrupt and RunCommand start to catch signals.
Notify ==
    /\ Goto("notify", IF mode = "server" THEN "waiting" ELSE "start")
    /\ notified' = TRUE
    /\ UNCHANGED <<relayVars, mode, session, listening, queue, child, process>>

\* waitForProxyInterrupt returns; its signal.Stop makes the next signal fatal.
Interrupted ==
    /\ Goto("waiting", "close http")
    /\ queue # <<>>
    /\ queue' = Tail(queue)
    /\ notified' = FALSE
    /\ UNCHANGED <<relayVars, mode, session, listening, child, process>>

\* Mutated: the command is started and not waited for.
StartCommandOnly ==
    /\ Goto("start", "close http")
    /\ child' = "running"
    /\ process' = TRUE
    /\ UNCHANGED <<relayVars, mode, session, listening, notified, queue>>

\* cmd.Run: the command runs before cmd.Process is set, or cannot be started.
StartCommand ==
    /\ \/ Goto("start", "started") /\ child' = "running"
       \/ Goto("start", "close http") /\ UNCHANGED child
    /\ UNCHANGED <<relayVars, mode, session, listening, notified, queue, process>>

SetProcess ==
    /\ Goto("started", "running")
    /\ process' = TRUE
    /\ UNCHANGED <<relayVars, mode, session, listening, notified, queue, child>>

\* The command ends, or has done what it does about a signal and goes on.
Command ==
    /\ child \in {"running", "signalled"}
    /\ child' \in {"running", "ended"}
    /\ child' # child
    /\ UNCHANGED <<relayVars, mode, main, session, listening, notified, queue, process>>

\* cmd.Run returns.
CommandReaped ==
    /\ child = "ended"
    /\ Goto("running", "close http")
    /\ UNCHANGED <<relayVars, mode, session, listening, notified, queue, child, process>>

-----------------------------------------------------------------------------
(* The deferred calls.  Relays are not waited for; they end with the process. *)

CloseHTTP ==
    /\ Goto("close http", "close socks")
    /\ listening' = listening \ {"http"}
    /\ ServerCloses
    /\ UNCHANGED <<mode, session, notified, queue, child, process>>

CloseSOCKS ==
    /\ Goto("close socks", "close session")
    /\ listening' = listening \ {"socks"}
    /\ UNCHANGED <<relayVars, mode, session, notified, queue, child, process>>

CloseSession ==
    /\ Goto("close session", "exiting")
    /\ session' = "down"
    /\ UNCHANGED <<relayVars, mode, listening, notified, queue, child, process>>

Exit ==
    /\ Goto("exiting", "exited")
    /\ RelayKilled
    /\ UNCHANGED <<mode, session, listening, notified, queue, child, process>>

-----------------------------------------------------------------------------
(* Signals *)

\* SIGINT or SIGTERM arrives: it kills the program, or is put into the channel, or is
\* dropped when that is full.  One sent by the terminal reaches the command too, which
\* may end by it.
Signal ==
    /\ ~Gone
    /\ IF notified
       THEN /\ queue' = IF queue = <<>> THEN <<"signal">> ELSE queue
            /\ UNCHANGED <<relayVars, main, session, listening>>
       ELSE /\ main' = "killed"
            /\ session' = "down"
            /\ listening' = {}
            /\ RelayKilled
            /\ UNCHANGED queue
    /\ UNCHANGED <<mode, notified, child, process>>

\* Mutated: the loop over the signals is not a goroutine of its own and comes after Run.
ForwardingAfterRun ==
    mode = "command" /\ notified /\ ~Gone /\ main \notin {"start", "started", "running"}

\* The goroutine of RunCommand is there.
Forwarding == mode = "command" /\ notified /\ ~Gone

\* It takes a signal and passes it on, unless cmd.Process is still nil; passing it to
\* a command that has ended fails.
Forward ==
    /\ Forwarding
    /\ queue # <<>>
    /\ queue' = Tail(queue)
    /\ child' = IF process /\ child = "running" THEN "signalled" ELSE child
    /\ UNCHANGED <<relayVars, mode, main, session, listening, notified, process>>

-----------------------------------------------------------------------------
\* A client, the command for one, connects to a proxy that listens.
Connect(r) ==
    /\ (IF r.kind = "socks" THEN "socks" ELSE "http") \in listening
    /\ Accept(r)
    /\ UNCHANGED modeVars

MainStep ==
    \/ StartSession
    \/ Listen("socks", "http", "close session")
    \/ Listen("http", "notify", "close socks")
    \/ Notify \/ Interrupted \/ StartCommand \/ SetProcess \/ CommandReaped
    \/ CloseHTTP \/ CloseSOCKS \/ CloseSession \/ Exit

Next ==
    \/ MainStep \/ Command \/ Signal \/ Forward
    \/ \E r \in Requests : Connect(r)
    \/ ~Gone /\ RelayStep /\ UNCHANGED modeVars

\* Goroutines go on.  Clients, servers and the command do as they like: nobody has to
\* send, to read, or to end.
Fairness ==
    /\ WF_vars(MainStep)
    /\ WF_vars(Forward)
    /\ WF_vars(~Gone /\ Prompt /\ UNCHANGED modeVars)
    /\ \A e \in Ends : WF_vars(~Gone /\ CopierStep(e) /\ UNCHANGED modeVars)

Spec == Init /\ [][Next]_vars /\ Fairness

-----------------------------------------------------------------------------
(* Properties *)

\* While the command runs, what its environment names is there: the program has not
\* ended, for neither SIGINT nor SIGTERM can kill it any more, both proxies accept
\* connections and the tunnel behind them is up.
ChildNotAbandoned ==
    child \in {"running", "signalled"} =>
        ~Gone /\ session = "up" /\ listening = {"socks", "http"}

\* A signal that is in the channel when cmd.Process has been set is passed on to the
\* command, or comes too late for it.  One that the goroutine took before is dropped,
\* although the comment in runner.go promises to forward SIGINT and SIGTERM.
SignalForwarded ==
    queue # <<>> /\ process /\ child = "running" ~> child \in {"signalled", "ended"}
=============================================================================
