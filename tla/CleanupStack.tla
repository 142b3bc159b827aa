---------------------------- MODULE CleanupStack ----------------------------
(***************************************************************************)
(* internal/tunnel/cleanup.go: the rollback stack of a tunnel run.         *)
(*                                                                         *)
(* Add pushes a rollback.  The first Run copies the stack, releases s.mu   *)
(* and calls the rollbacks from the last to the first, collecting errors;  *)
(* every other Run waits on the channel "done" for the published result.   *)
(***************************************************************************)
EXTENDS Integers, Sequences, FiniteSets

CONSTANTS
    Actions,   \* the rollbacks that may be registered, each at most once
    Runners    \* goroutines calling Run, each at most once

VARIABLES
    actions,   \* s.actions
    ran,       \* s.ran
    done,      \* s.done: "nil", "open" or "closed"
    result,    \* s.result: the rollbacks whose errors it joins
    called,    \* rollbacks given to Add so far, the dropped ones included
    pc,        \* where each runner is in Run
    copy,      \* the first runner's local copy of the stack
    next,      \* its loop index i, one-based: rollback next runs next
    errs,      \* the errors it has collected
    returned   \* what Run returned to each runner

vars == <<actions, ran, done, result, called, pc, copy, next, errs, returned>>

-----------------------------------------------------------------------------
Nothing == {"nothing"}

Init ==
    /\ actions = <<>>
    /\ ran = FALSE
    /\ done = "nil"
    /\ result = {}
    /\ called = {}
    /\ pc = [r \in Runners |-> "idle"]
    /\ copy = <<>>
    /\ next = 0
    /\ errs = {}
    /\ returned = [r \in Runners |-> Nothing]

\* Mutated: Add does not look at s.ran.
AddAlways(a) ==
    /\ a \notin called
    /\ called' = called \cup {a}
    /\ actions' = Append(actions, a)
    /\ UNCHANGED <<ran, done, result, pc, copy, next, errs, returned>>

\* Add under s.mu; after Run has begun the rollback is silently dropped.
Add(a) ==
    /\ a \notin called
    /\ called' = called \cup {a}
    /\ actions' = IF ran THEN actions ELSE Append(actions, a)
    /\ UNCHANGED <<ran, done, result, pc, copy, next, errs, returned>>

\* Mutated: the second Run does not wait for the first.
JoinAtOnce(r) ==
    /\ ran
    /\ pc[r] = "idle"
    /\ pc' = [pc EXCEPT ![r] = "returned"]
    /\ returned' = [returned EXCEPT ![r] = result]
    /\ UNCHANGED <<actions, ran, done, result, called, copy, next, errs>>

\* Run finds that another Run has begun: it goes to wait on s.done.
Join(r) ==
    /\ ran
    /\ pc[r] = "idle"
    /\ pc' = [pc EXCEPT ![r] = "waiting"]
    /\ UNCHANGED <<actions, ran, done, result, called, copy, next, errs, returned>>

\* The first Run takes its copy of the stack and publishes s.done.
Begin(r) ==
    /\ ~ran
    /\ pc[r] = "idle"
    /\ ran' = TRUE
    /\ done' = "open"
    /\ copy' = actions
    /\ next' = Len(actions)
    /\ pc' = [pc EXCEPT ![r] = "undoing"]
    /\ UNCHANGED <<actions, result, called, errs, returned>>

\* Mutated: the first error ends the loop.
UndoUntilError(r) ==
    /\ pc[r] = "undoing"
    /\ next > 0
    /\ \E failed \in BOOLEAN :
        /\ errs' = IF failed THEN errs \cup {copy[next]} ELSE errs
        /\ next' = IF failed THEN 0 ELSE next - 1
    /\ UNCHANGED <<actions, ran, done, result, called, pc, copy, returned>>

\* One turn of the loop: the rollback runs outside s.mu and may fail.
Undo(r) ==
    /\ pc[r] = "undoing"
    /\ next > 0
    /\ next' = next - 1
    /\ errs' \in {errs, errs \cup {copy[next]}}
    /\ UNCHANGED <<actions, ran, done, result, called, pc, copy, returned>>

\* Mutated: the result is stored and nobody is woken.
PublishNoClose(r) ==
    /\ pc[r] = "undoing"
    /\ next = 0
    /\ result' = errs
    /\ pc' = [pc EXCEPT ![r] = "returned"]
    /\ returned' = [returned EXCEPT ![r] = errs]
    /\ UNCHANGED <<actions, ran, done, called, copy, next, errs>>

\* The loop is over: store the result and close s.done under s.mu, return.
Publish(r) ==
    /\ pc[r] = "undoing"
    /\ next = 0
    /\ result' = errs
    /\ done' = "closed"
    /\ pc' = [pc EXCEPT ![r] = "returned"]
    /\ returned' = [returned EXCEPT ![r] = errs]
    /\ UNCHANGED <<actions, ran, called, copy, next, errs>>

\* A waiting Run is released by the closed channel and reads s.result.
Wake(r) ==
    /\ pc[r] = "waiting"
    /\ done = "closed"
    /\ pc' = [pc EXCEPT ![r] = "returned"]
    /\ returned' = [returned EXCEPT ![r] = result]
    /\ UNCHANGED <<actions, ran, done, result, called, copy, next, errs>>

RunStep(r) == Undo(r) \/ Publish(r) \/ Wake(r)

Next ==
    \/ \E a \in Actions : Add(a)
    \/ \E r \in Runners : Begin(r) \/ Join(r) \/ RunStep(r)

\* A Run that has begun goes on; every rollback returns.
Fairness == \A r \in Runners : WF_vars(RunStep(r))

Spec == Init /\ [][Next]_vars /\ Fairness

-----------------------------------------------------------------------------
(* Properties *)

\* Types; the copy and the index belong to the one runner that is undoing.
TypeOK ==
    /\ actions \in Seq(Actions)
    /\ ran \in BOOLEAN
    /\ done \in {"nil", "open", "closed"}
    /\ result \subseteq Actions
    /\ called \subseteq Actions
    /\ pc \in [Runners -> {"idle", "waiting", "undoing", "returned"}]
    /\ copy \in Seq(Actions)
    /\ next \in 0..Len(copy)
    /\ errs \subseteq Actions
    /\ returned \in [Runners -> (SUBSET Actions) \cup {Nothing}]
    /\ ran <=> done # "nil"

\* Only one Run undoes, and what it undoes is the whole stack: no rollback is
\* appended behind its back (Add looks at s.ran under the same lock).
OneUndoer ==
    /\ \A r, s \in Runners : pc[r] = "undoing" /\ pc[s] = "undoing" => r = s
    /\ ran => copy = actions

\* Every Run, the first or a late one, returns the same result, and only when
\* every rollback has run (the channel is closed after the loop).
SameResult ==
    \A r \in Runners : pc[r] = "returned" =>
        /\ next = 0
        /\ returned[r] = errs

\* Every Run returns: waiters are released when the first Run has finished.
RunReturns == \A r \in Runners : pc[r] # "idle" ~> pc[r] = "returned"

\* The stack implements the promise: rollbacks once each, latest first, one
\* outcome for everybody, told after the last of them.
Promise == INSTANCE CleanupPromise WITH
    pending <- IF ran THEN SubSeq(copy, 1, next) ELSE actions,
    undoing <- ran,
    failures <- errs,
    told <- returned

Implements == Promise!Spec
=============================================================================
