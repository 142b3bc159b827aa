--------------------------- MODULE CleanupPromise ---------------------------
(***************************************************************************)
(* What a cleanup stack promises its users, whatever its implementation:   *)
(* registered rollbacks are undone once each, the latest first, and every  *)
(* caller of Run is told the same outcome, after the last rollback.        *)
(*                                                                         *)
(* CleanupStack implements this specification (its property Implements).   *)
(***************************************************************************)
EXTENDS Integers, Sequences, FiniteSets

CONSTANTS Actions, Runners

VARIABLES
    pending,   \* registered rollbacks not yet undone, oldest first
    undoing,   \* whether the rollback has begun
    failures,  \* rollbacks that reported an error
    told       \* what each runner was told: a set of failures, or {"nothing"}

vars == <<pending, undoing, failures, told>>

Nothing == {"nothing"}

Init ==
    /\ pending = <<>>
    /\ undoing = FALSE
    /\ failures = {}
    /\ told = [r \in Runners |-> Nothing]

Register(a) ==
    /\ ~undoing
    /\ pending' = Append(pending, a)
    /\ UNCHANGED <<undoing, failures, told>>

Begin ==
    /\ ~undoing
    /\ undoing' = TRUE
    /\ UNCHANGED <<pending, failures, told>>

UndoLatest ==
    /\ undoing
    /\ pending # <<>>
    /\ pending' = SubSeq(pending, 1, Len(pending) - 1)
    /\ failures' \in {failures, failures \cup {pending[Len(pending)]}}
    /\ UNCHANGED <<undoing, told>>

Tell(r) ==
    /\ undoing
    /\ pending = <<>>
    /\ told[r] = Nothing
    /\ told' = [told EXCEPT ![r] = failures]
    /\ UNCHANGED <<pending, undoing, failures>>

Next ==
    \/ \E a \in Actions : Register(a)
    \/ Begin
    \/ UndoLatest
    \/ \E r \in Runners : Tell(r)

Spec == Init /\ [][Next]_vars
=============================================================================
