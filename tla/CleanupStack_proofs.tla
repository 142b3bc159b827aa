------------------------ MODULE CleanupStack_proofs -------------------------
(***************************************************************************)
(* Proofs about CleanupStack, for any rollbacks and any number of runners: *)
(* the shared result, and that the stack implements CleanupPromise.        *)
(***************************************************************************)
EXTENDS CleanupStack, SequenceTheorems, TLAPS

\* The strengthening: the first runner publishes before anybody can return, and
\* exactly one runner undoes until then.
Published ==
    /\ done = "nil" => next = 0 /\ errs = {} /\ \A r \in Runners : pc[r] = "idle"
    /\ done = "open" =>
          \A r \in Runners : pc[r] # "returned"
    /\ done = "closed" =>
          /\ next = 0 /\ result = errs
          /\ \A r \in Runners : pc[r] # "undoing"
    /\ \A r \in Runners : pc[r] # "returned" => returned[r] = Nothing

IInv == TypeOK /\ OneUndoer /\ SameResult /\ Published

LEMMA InvInit == Init => IInv
<1> SUFFICES ASSUME Init PROVE IInv
  OBVIOUS
<1>1. <<>> \in Seq(Actions) /\ 0 \in 0..Len(<<>>)
  BY EmptySeq
<1>2. returned \in [Runners -> (SUBSET Actions) \cup {Nothing}]
  BY DEF Init
<1>3. TypeOK
  BY <1>1, <1>2 DEF Init, TypeOK
<1>4. OneUndoer /\ SameResult /\ Published
  BY DEF Init, OneUndoer, SameResult, Published
<1> QED BY <1>3, <1>4 DEF IInv

LEMMA InvStep == IInv /\ [Next]_vars => IInv'
<1> SUFFICES ASSUME IInv, [Next]_vars PROVE IInv'
  OBVIOUS
<1> USE DEF IInv, TypeOK, OneUndoer, SameResult, Published
<1>1. ASSUME NEW a \in Actions, Add(a) PROVE IInv'
  <2>1. Append(actions, a) \in Seq(Actions)
    OBVIOUS
  <2> QED BY <1>1, <2>1 DEF Add
<1>2. ASSUME NEW r \in Runners, Begin(r) PROVE IInv'
  <2>1. Len(actions) \in 0..Len(actions)
    BY LenProperties
  <2> QED BY <1>2, <2>1 DEF Begin
<1>3. ASSUME NEW r \in Runners, Join(r) PROVE IInv'
  BY <1>3 DEF Join
<1>4. ASSUME NEW r \in Runners, Undo(r) PROVE IInv'
  <2>1. Len(copy) \in Nat /\ next \in Nat /\ next <= Len(copy)
    BY LenProperties
  <2>2. copy[next] \in Actions
    BY <1>4, <2>1, ElementOfSeq DEF Undo
  <2>3. next - 1 \in 0..Len(copy)
    BY <1>4, <2>1 DEF Undo
  <2>4. done = "open"
    BY <1>4 DEF Undo
  <2> QED BY <1>4, <2>2, <2>3, <2>4 DEF Undo
<1>5. ASSUME NEW r \in Runners, Publish(r) PROVE IInv'
  BY <1>5 DEF Publish
<1>6. ASSUME NEW r \in Runners, Wake(r) PROVE IInv'
  BY <1>6 DEF Wake
<1>7. CASE UNCHANGED vars
  BY <1>7 DEF vars
<1> QED
  BY <1>1, <1>2, <1>3, <1>4, <1>5, <1>6, <1>7 DEF Next, RunStep

LEMMA Invariant == Spec => []IInv
  BY InvInit, InvStep, PTL DEF Spec

(* Every Run returns the joined errors of all the rollbacks, and not before the *)
(* last of them: late callers included.                                         *)
THEOREM SameResultSafe == Spec => []SameResult
<1>1. IInv => SameResult
  BY DEF IInv
<1> QED BY <1>1, Invariant, PTL

(* One Run undoes the stack, and undoes all of it. *)
THEOREM OneUndoerSafe == Spec => []OneUndoer
<1>1. IInv => OneUndoer
  BY DEF IInv
<1> QED BY <1>1, Invariant, PTL
-----------------------------------------------------------------------------
(* Refinement: what is still to be undone is the unread part of the copy. *)

LEMMA DropLast ==
  ASSUME NEW S, NEW s \in Seq(S), NEW n \in 1..Len(s)
  PROVE  LET t == SubSeq(s, 1, n) IN
         /\ t # <<>>
         /\ t[Len(t)] = s[n]
         /\ SubSeq(t, 1, Len(t) - 1) = SubSeq(s, 1, n - 1)
<1> DEFINE t == SubSeq(s, 1, n)
<1>1. Len(s) \in Nat
  BY LenProperties
<1>2. /\ t \in Seq(S) /\ Len(t) = n
      /\ \A i \in 1..n : t[i] = s[i]
  BY <1>1, SubSeqProperties
<1>3. /\ SubSeq(s, 1, n - 1) \in Seq(S) /\ Len(SubSeq(s, 1, n - 1)) = n - 1
      /\ \A i \in 1..(n - 1) : SubSeq(s, 1, n - 1)[i] = s[i]
  BY <1>1, SubSeqProperties
<1>4. /\ SubSeq(t, 1, n - 1) \in Seq(S) /\ Len(SubSeq(t, 1, n - 1)) = n - 1
      /\ \A i \in 1..(n - 1) : SubSeq(t, 1, n - 1)[i] = t[i]
  BY <1>2, SubSeqProperties
<1>5. SubSeq(t, 1, n - 1) = SubSeq(s, 1, n - 1)
  <2> DEFINE u == SubSeq(t, 1, n - 1) v == SubSeq(s, 1, n - 1)
  <2>1. u \in Seq(S) /\ v \in Seq(S) /\ Len(u) = Len(v)
    BY <1>3, <1>4
  <2>2. \A i \in 1..Len(u) : u[i] = v[i]
    BY <1>2, <1>3, <1>4
  <2> HIDE DEF u, v
  <2>3. u = v
    BY <2>1, <2>2, SeqEqual
  <2> QED BY <2>3 DEF u, v
<1>6. t # <<>>
  BY <1>2, EmptySeq
<1> QED BY <1>2, <1>5, <1>6

LEMMA WholeSeq == ASSUME NEW S, NEW s \in Seq(S) PROVE SubSeq(s, 1, Len(s)) = s
<1>1. Len(s) \in Nat
  BY LenProperties
<1> DEFINE t == SubSeq(s, 1, Len(s))
<1>2. t \in Seq(S) /\ Len(t) = Len(s) /\ \A i \in 1..Len(t) : t[i] = s[i]
  BY <1>1, SubSeqProperties
<1> HIDE DEF t
<1>3. t = s
  BY <1>2, SeqEqual
<1> QED BY <1>3 DEF t

LEMMA NoneLeft == ASSUME NEW S, NEW s \in Seq(S) PROVE SubSeq(s, 1, 0) = <<>>
  BY SubSeqProperties, EmptySeq

left == IF ran THEN SubSeq(copy, 1, next) ELSE actions

LEMMA StepRefines == IInv /\ IInv' /\ [Next]_vars => [Promise!Next]_(Promise!vars)
<1> SUFFICES ASSUME IInv, IInv', [Next]_vars
             PROVE  Promise!Next \/ UNCHANGED <<left, ran, errs, returned>>
  BY DEF Promise!vars, left
<1> USE DEF IInv, TypeOK
<1>1. ASSUME NEW a \in Actions, Add(a)
      PROVE  Promise!Register(a) \/ UNCHANGED <<left, ran, errs, returned>>
  BY <1>1 DEF Add, Promise!Register, left
<1>2. ASSUME NEW r \in Runners, Begin(r) PROVE Promise!Begin
  <2>1. SubSeq(copy', 1, next') = actions
    BY <1>2, WholeSeq DEF Begin
  <2> QED BY <1>2, <2>1 DEF Begin, Promise!Begin
<1>3. ASSUME NEW r \in Runners, Join(r) PROVE UNCHANGED <<left, ran, errs, returned>>
  BY <1>3 DEF Join, left
<1>4. ASSUME NEW r \in Runners, Undo(r) PROVE Promise!UndoLatest
  <2>1. Len(copy) \in Nat /\ next \in 1..Len(copy)
    BY <1>4, LenProperties DEF Undo
  <2>2. ran
    BY <1>4 DEF Undo, Published
  <2>3. /\ SubSeq(copy, 1, next) # <<>>
        /\ SubSeq(copy, 1, next)[Len(SubSeq(copy, 1, next))] = copy[next]
        /\ SubSeq(SubSeq(copy, 1, next), 1, Len(SubSeq(copy, 1, next)) - 1)
              = SubSeq(copy, 1, next - 1)
    BY <2>1, DropLast
  <2> QED BY <1>4, <2>2, <2>3 DEF Undo, Promise!UndoLatest
<1>5. ASSUME NEW r \in Runners, Publish(r) PROVE Promise!Tell(r)
  <2>1. ran /\ SubSeq(copy, 1, next) = <<>> /\ returned[r] = Nothing
    BY <1>5, NoneLeft DEF Publish, Published
  <2> QED BY <1>5, <2>1 DEF Publish, Promise!Tell, Promise!Nothing, Nothing
<1>6. ASSUME NEW r \in Runners, Wake(r) PROVE Promise!Tell(r)
  <2>1. /\ ran /\ SubSeq(copy, 1, next) = <<>> /\ returned[r] = Nothing
        /\ result = errs
    BY <1>6, NoneLeft DEF Wake, Published
  <2> QED BY <1>6, <2>1 DEF Wake, Promise!Tell, Promise!Nothing, Nothing
<1>7. CASE UNCHANGED vars
  BY <1>7 DEF vars, left
<1> QED
  BY <1>1, <1>2, <1>3, <1>4, <1>5, <1>6, <1>7 DEF Next, RunStep, Promise!Next

(* Every behaviour of the stack is one the promise allows. *)
THEOREM Refinement == Spec => Implements
<1>1. Init => Promise!Init
  BY DEF Init, Promise!Init, Promise!Nothing, Nothing
<1>2. IInv /\ IInv' /\ [Next]_vars => [Promise!Next]_(Promise!vars)
  BY StepRefines
<1> QED BY <1>1, <1>2, Invariant, PTL DEF Spec, Implements, Promise!Spec
=============================================================================
