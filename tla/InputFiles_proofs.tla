-------------------------- MODULE InputFiles_proofs --------------------------
(***************************************************************************)
(* Proofs about what the user gives the program, for names, rules files    *)
(* and configuration files of any length: each recursion of the code is    *)
(* shown to compute what its reference says, by induction over the labels  *)
(* or lines it has read.                                                   *)
(***************************************************************************)
EXTENDS InputFiles, Induction_proofs

\* The labels that the first of the last n parts stands for, when the others leave off
\* k labels before the end and it begins m before the end.
Piece(parts, labels, n, k, m) ==
    /\ FromEnd(parts, n) # "*" => m = k + 1 /\ FromEnd(labels, m) = FromEnd(parts, n)
    /\ n = 1 => m = k + 1

\* How the last n parts are laid over the last labels: the i-th from the end begins at
\* e[i].
Layout(parts, labels, n, e) ==
    /\ e[0] = 0
    /\ \A i \in 1..n : e[i - 1] < e[i] /\ Piece(parts, labels, i, e[i - 1], e[i])

\* The last n parts can be laid over the last m labels.
Lays(parts, labels, n, m) ==
    \E e \in [0..n -> 0..Len(labels)] : Layout(parts, labels, n, e) /\ e[n] = m

\* The recursive function exists, so that it is what it is defined by.
LEMMA MatchedDef ==
  ASSUME NEW parts \in Seq(Labels), NEW labels \in Seq(Labels)
  PROVE  Matched(parts, labels) = [n \in 0..Len(parts) |->
            IF n = 0 THEN {0}
            ELSE {m \in 1..Len(labels) :
                    IF FromEnd(parts, n) # "*"
                    THEN /\ FromEnd(parts, n) = FromEnd(labels, m)
                         /\ m - 1 \in Matched(parts, labels)[n - 1]
                    ELSE IF n = 1 THEN m = 1
                    ELSE \E consumed \in 1..m :
                            m - consumed \in Matched(parts, labels)[n - 1]}]
<1> DEFINE N == Len(parts)
           M == Len(labels)
           Rows == SUBSET (0..M)
           Row(n, rest) ==
             {m \in 1..M : IF FromEnd(parts, n) # "*"
                           THEN FromEnd(parts, n) = FromEnd(labels, m) /\ m - 1 \in rest
                           ELSE IF n = 1 THEN m = 1
                           ELSE \E consumed \in 1..m : m - consumed \in rest}
           step == [x \in (1..N) \X Rows |-> Row(x[1], x[2])]
           Met(f) == f = [n \in 0..N |-> IF n = 0 THEN {0} ELSE Row(n, f[n - 1])]
<1>1. Matched(parts, labels) = CHOOSE f : Met(f)
  BY DEF Matched
<1>2. N \in Nat /\ {0} \in Rows /\ step \in [(1..N) \X Rows -> Rows]
  BY LenProperties
<1>3. \A n \in 1..N : \A rest \in Rows : step[<<n, rest>>] = Row(n, rest)
  OBVIOUS
<1> HIDE DEF N, Rows, Row, step
<1>4. PICK f \in [0..N -> Rows] : Recurs(f, N, {0}, step)
  BY <1>2, Recursion
<1>5. Met(f)
  <2>1. f[0] = {0} /\ \A n \in 1..N : f[n] = Row(n, f[n - 1])
    <3>1. \A n \in 1..N : n - 1 \in 0..N
      BY <1>2
    <3>2. \A n \in 1..N : f[n - 1] \in Rows
      BY <3>1
    <3> QED BY <1>3, <1>4, <3>2 DEF Recurs
  <2>2. \A n \in 0..N : n = 0 \/ (n # 0 /\ n \in 1..N)
    BY <1>2
  <2> QED BY <2>1, <2>2
<1> HIDE DEF Met
<1>6. Met(Matched(parts, labels))
  BY <1>1, <1>5
<1> QED BY <1>6 DEF Met, Row, N

\* One step of the recursion, its three cases as one.
LEMMA MatchedStep ==
  ASSUME NEW parts \in Seq(Labels), NEW labels \in Seq(Labels)
  PROVE  /\ Matched(parts, labels)[0] = {0}
         /\ \A n \in 1..Len(parts) : \A m \in 0..Len(labels) :
              m \in Matched(parts, labels)[n] <=>
                \E k \in 0..(m - 1) :
                    k \in Matched(parts, labels)[n - 1] /\ Piece(parts, labels, n, k, m)
<1> DEFINE matched == Matched(parts, labels)
<1>0. Len(parts) \in Nat /\ Len(labels) \in Nat
  BY LenProperties
<1>1. matched[0] = {0}
  BY <1>0, MatchedDef
<1> SUFFICES ASSUME NEW n \in 1..Len(parts), NEW m \in 0..Len(labels)
             PROVE  m \in matched[n] <=>
                      \E k \in 0..(m - 1) :
                         k \in matched[n - 1] /\ Piece(parts, labels, n, k, m)
  BY <1>1
<1>2. m \in matched[n] <=>
        /\ m \in 1..Len(labels)
        /\ IF FromEnd(parts, n) # "*"
           THEN FromEnd(parts, n) = FromEnd(labels, m) /\ m - 1 \in matched[n - 1]
           ELSE IF n = 1 THEN m = 1
           ELSE \E consumed \in 1..m : m - consumed \in matched[n - 1]
  <2> DEFINE Row(rest) ==
               {j \in 1..Len(labels) :
                   IF FromEnd(parts, n) # "*"
                   THEN FromEnd(parts, n) = FromEnd(labels, j) /\ j - 1 \in rest
                   ELSE IF n = 1 THEN j = 1
                   ELSE \E consumed \in 1..j : j - consumed \in rest}
  <2>1. n \in 0..Len(parts) /\ n # 0
    BY <1>0
  <2>2. matched[n] = Row(matched[n - 1])
    BY <2>1, MatchedDef
  <2> HIDE DEF matched
  <2> QED BY <2>2
<1> HIDE DEF matched
<1>3. CASE FromEnd(parts, n) # "*"
  BY <1>0, <1>2, <1>3 DEF Piece
<1>4. CASE FromEnd(parts, n) = "*" /\ n = 1
  BY <1>0, <1>1, <1>2, <1>4 DEF Piece
<1>5. CASE FromEnd(parts, n) = "*" /\ n # 1
  <2>1. (\E consumed \in 1..m : m - consumed \in matched[n - 1])
           <=> \E k \in 0..(m - 1) : k \in matched[n - 1]
    <3>1. \A consumed \in 1..m : m - consumed \in 0..(m - 1)
      BY <1>0
    <3>2. \A k \in 0..(m - 1) : m - k \in 1..m /\ m - (m - k) = k
      BY <1>0
    <3> QED BY <3>1, <3>2
  <2> QED BY <1>0, <1>2, <1>5, <2>1 DEF Piece
<1> QED BY <1>3, <1>4, <1>5

\* A layout of n - 1 parts goes on with the n-th, and every layout of n parts so arises.
LEMMA LayoutStep ==
  ASSUME NEW parts, NEW labels \in Seq(Labels), NEW n \in Nat \ {0}, NEW m \in 0..Len(labels)
  PROVE  Lays(parts, labels, n, m) <=>
            \E k \in 0..(m - 1) :
                Lays(parts, labels, n - 1, k) /\ Piece(parts, labels, n, k, m)
<1> DEFINE M == Len(labels)
<1>0. M \in Nat
  BY LenProperties
<1> HIDE DEF M
<1>1. ASSUME NEW e \in [0..n -> 0..M], Layout(parts, labels, n, e), e[n] = m
      PROVE  \E k \in 0..(m - 1) :
                /\ \E f \in [0..(n - 1) -> 0..M] :
                      Layout(parts, labels, n - 1, f) /\ f[n - 1] = k
                /\ Piece(parts, labels, n, k, m)
  <2> USE <1>0 DEF M
  <2> DEFINE f == [i \in 0..(n - 1) |-> e[i]]
  <2>1. f \in [0..(n - 1) -> 0..M] /\ \A i \in 0..(n - 1) : f[i] = e[i]
    OBVIOUS
  <2> HIDE DEF f
  <2>2. n \in 1..n /\ n - 1 \in 0..(n - 1) /\ e[n - 1] \in 0..M
    OBVIOUS
  <2>3. e[n - 1] < m /\ Piece(parts, labels, n, e[n - 1], m)
    BY <1>1, <2>2 DEF Layout
  <2>4. Layout(parts, labels, n - 1, f)
    <3>1. f[0] = 0
      BY <1>1, <2>1 DEF Layout
    <3>2. \A i \in 1..(n - 1) : i \in 1..n /\ i \in 0..(n - 1) /\ i - 1 \in 0..(n - 1)
      OBVIOUS
    <3> QED BY <1>1, <2>1, <3>1, <3>2 DEF Layout
  <2> QED BY <2>1, <2>2, <2>3, <2>4, SMTT(30)
<1>2. ASSUME NEW k \in 0..(m - 1), Piece(parts, labels, n, k, m),
             NEW e \in [0..(n - 1) -> 0..M], Layout(parts, labels, n - 1, e), e[n - 1] = k
      PROVE  \E f \in [0..n -> 0..M] : Layout(parts, labels, n, f) /\ f[n] = m
  <2> DEFINE f == [i \in 0..n |-> IF i = n THEN m ELSE e[i]]
  <2>1. f \in [0..n -> 0..M] /\ f[n] = m /\ \A i \in 0..(n - 1) : f[i] = e[i]
    OBVIOUS
  <2> HIDE DEF f
  <2>2. f[0] = 0
    BY <1>2, <2>1 DEF Layout
  <2>3. ASSUME NEW i \in 1..n
        PROVE  f[i - 1] < f[i] /\ Piece(parts, labels, i, f[i - 1], f[i])
    <3>1. CASE i = n
      BY <1>2, <2>1, <3>1
    <3>2. CASE i # n
      <4>1. i \in 1..(n - 1) /\ i \in 0..(n - 1) /\ i - 1 \in 0..(n - 1)
        BY <3>2
      <4> QED BY <1>2, <2>1, <4>1 DEF Layout
    <3> QED BY <3>1, <3>2
  <2> QED BY <2>1, <2>2, <2>3 DEF Layout
<1> QED BY <1>1, <1>2 DEF Lays, M

\* What the recursion computes: the last n parts match the last m labels when they can
\* be laid over them.
LEMMA MatchedIsLayout ==
  ASSUME NEW parts \in Seq(Labels), NEW labels \in Seq(Labels)
  PROVE  \A n \in 0..Len(parts) : \A m \in 0..Len(labels) :
            m \in Matched(parts, labels)[n] <=> Lays(parts, labels, n, m)
<1> DEFINE N == Len(parts)
           M == Len(labels)
           matched == Matched(parts, labels)
           Laid(n, m) == Lays(parts, labels, n, m)
           Right(n) == \A m \in 0..M : m \in matched[n] <=> Laid(n, m)
           S == {n \in 0..N : Right(n)}
<1>0. N \in Nat /\ M \in Nat
  BY LenProperties
<1>1. /\ matched[0] = {0}
      /\ \A n \in 1..N : \A m \in 0..M : m \in matched[n] <=>
            \E k \in 0..(m - 1) : k \in matched[n - 1] /\ Piece(parts, labels, n, k, m)
  BY MatchedStep
<1>2. \A n \in 1..N : \A m \in 0..M : Laid(n, m) <=>
            \E k \in 0..(m - 1) : Laid(n - 1, k) /\ Piece(parts, labels, n, k, m)
  <2>1. \A n \in 1..N : n \in Nat \ {0}
    BY <1>0
  <2> QED BY ONLY <2>1, LayoutStep, parts \in Seq(Labels), labels \in Seq(Labels)
<1>3. Right(0)
  <2>1. \A m \in 0..M : Laid(0, m) <=> m = 0
    <3> DEFINE f == [i \in 0..0 |-> 0]
    <3>1. f \in [0..0 -> 0..M] /\ f[0] = 0 /\ Layout(parts, labels, 0, f)
      BY <1>0 DEF Layout
    <3>2. Laid(0, 0)
      BY <3>1 DEF Lays
    <3>3. \A m \in 0..M : Laid(0, m) => m = 0
      BY DEF Layout, Lays
    <3> QED BY <3>2, <3>3
  <2> HIDE DEF Laid, matched
  <2> QED BY <1>1, <2>1
<1> HIDE DEF N, M, matched, Laid
<1>4. ASSUME NEW n \in 1..N, Right(n - 1) PROVE Right(n)
  <2> SUFFICES ASSUME NEW m \in 0..M PROVE m \in matched[n] <=> Laid(n, m)
    OBVIOUS
  <2>1. \A k \in 0..(m - 1) : k \in 0..M
    BY <1>0
  <2> QED BY <1>1, <1>2, <1>4, <2>1
<1> HIDE DEF Right
<1>5. 0 \in S /\ \A n \in 1..N : n - 1 \in S => n \in S
  BY <1>0, <1>3, <1>4
<1> HIDE DEF S
<1>6. 0..N \subseteq S
  BY <1>0, <1>5, Induction
<1> QED BY <1>6 DEF S, Right, Laid, N, M, matched

\* Places counted from the other end.
LEMMA Mirrored ==
  ASSUME NEW M \in Nat, NEW a \in 0..M, NEW b \in 0..M, NEW x, x = M - a, NEW y, y = M - b
  PROVE  /\ a < b <=> y < x
         /\ b = a + 1 <=> x = y + 1
         /\ b = a + 1 => M - x + 1 = b /\ M - b + 1 = x
<1>1. a < b <=> y < x
  OBVIOUS
<1>2. b = a + 1 <=> x = y + 1
  OBVIOUS
<1>3. b = a + 1 => M - x + 1 = b /\ M - b + 1 = x
  OBVIOUS
<1> QED BY <1>1, <1>2, <1>3

\* Counted from the other end, a layout is what Covers asks for.
LEMMA LaysIsCovers ==
  ASSUME NEW parts \in Seq(Labels), NEW labels \in Seq(Labels)
  PROVE  Lays(parts, labels, Len(parts), Len(labels)) <=> Covers(parts, labels)
<1> DEFINE N == Len(parts)
           M == Len(labels)
<1>0. N \in Nat /\ M \in Nat
  BY LenProperties
<1>1. ASSUME NEW e \in [0..N -> 0..M], Layout(parts, labels, N, e), e[N] = M
      PROVE  Covers(parts, labels)
  <2> DEFINE end == [j \in 0..N |-> M - e[N - j]]
  <2>1. \A j \in 0..N : N - j \in 0..N /\ e[N - j] \in 0..M /\ M - e[N - j] \in 0..M
    BY <1>0, SMTT(30)
  <2>2. end \in [0..N -> 0..M] /\ \A j \in 0..N : end[j] = M - e[N - j]
    BY <2>1
  <2> HIDE DEF end
  <2>3. end[0] = 0 /\ end[N] = M
    BY <1>0, <1>1, <2>2 DEF Layout
  <2>4. ASSUME NEW j \in 1..N
        PROVE  /\ end[j - 1] < end[j]
               /\ parts[j] # "*" => end[j] = end[j - 1] + 1 /\ labels[end[j]] = parts[j]
               /\ j = N => end[j] = end[j - 1] + 1
    <3> DEFINE i == N - j + 1
    <3>1. /\ i \in 1..N /\ i - 1 = N - j /\ i = N - (j - 1) /\ N - i + 1 = j
          /\ j \in 0..N /\ j - 1 \in 0..N /\ i - 1 \in 0..N /\ i \in 0..N
      BY <1>0
    <3>2. e[i - 1] < e[i] /\ Piece(parts, labels, i, e[i - 1], e[i])
      BY <1>1, <3>1 DEF Layout
    <3>3. /\ end[j] = M - e[i - 1] /\ end[j - 1] = M - e[i]
          /\ e[i] \in 0..M /\ e[i - 1] \in 0..M /\ end[j] \in 0..M /\ end[j - 1] \in 0..M
      BY <2>2, <3>1
    <3>4. FromEnd(parts, i) = parts[j] /\ (j = N <=> i = 1)
      <4>1. FromEnd(parts, i) = parts[N - i + 1]
        BY DEF FromEnd
      <4>2. j = N <=> i = 1
        BY <1>0
      <4> QED BY <3>1, <4>1, <4>2
    <3> HIDE DEF i, N, M
    <3>5. /\ e[i - 1] < e[i] <=> end[j - 1] < end[j]
          /\ e[i] = e[i - 1] + 1 <=> end[j] = end[j - 1] + 1
          /\ e[i] = e[i - 1] + 1 => M - e[i] + 1 = end[j]
      <4> DEFINE a == e[i - 1]
                 b == e[i]
                 x == end[j]
                 y == end[j - 1]
      <4>1. a \in 0..M /\ b \in 0..M /\ x = M - a /\ y = M - b
        BY <3>3
      <4> HIDE DEF a, b, x, y
      <4>2. /\ a < b <=> y < x
            /\ b = a + 1 <=> x = y + 1
            /\ b = a + 1 => M - x + 1 = b /\ M - b + 1 = x
        BY <1>0, <4>1, Mirrored
      <4> QED BY <4>2 DEF a, b, x, y
    <3>6. e[i] = e[i - 1] + 1 => FromEnd(labels, e[i]) = labels[end[j]]
      BY <3>5 DEF FromEnd, M
    <3> QED BY <3>2, <3>4, <3>5, <3>6 DEF Piece
  <2> QED BY <2>2, <2>3, <2>4 DEF Covers
<1>2. ASSUME NEW end \in [0..N -> 0..M], end[0] = 0, end[N] = M,
             \A j \in 1..N :
                /\ end[j - 1] < end[j]
                /\ parts[j] # "*" => end[j] = end[j - 1] + 1 /\ labels[end[j]] = parts[j]
                /\ j = N => end[j] = end[j - 1] + 1
      PROVE  \E e \in [0..N -> 0..M] : Layout(parts, labels, N, e) /\ e[N] = M
  <2> DEFINE e == [i \in 0..N |-> M - end[N - i]]
  <2>1. \A i \in 0..N : N - i \in 0..N /\ end[N - i] \in 0..M /\ M - end[N - i] \in 0..M
    BY <1>0, SMTT(30)
  <2>2. e \in [0..N -> 0..M] /\ \A i \in 0..N : e[i] = M - end[N - i]
    BY <2>1
  <2> HIDE DEF e
  <2>3. e[0] = 0 /\ e[N] = M
    BY <1>0, <1>2, <2>2
  <2>4. ASSUME NEW i \in 1..N
        PROVE  e[i - 1] < e[i] /\ Piece(parts, labels, i, e[i - 1], e[i])
    <3> DEFINE j == N - i + 1
    <3>1. /\ j \in 1..N /\ j - 1 = N - i /\ j = N - (i - 1)
          /\ j \in 0..N /\ j - 1 \in 0..N /\ i - 1 \in 0..N /\ i \in 0..N
      BY <1>0
    <3>2. /\ end[j - 1] < end[j]
          /\ parts[j] # "*" => end[j] = end[j - 1] + 1 /\ labels[end[j]] = parts[j]
          /\ j = N => end[j] = end[j - 1] + 1
      BY <1>2, <3>1
    <3>3. /\ e[i] = M - end[j - 1] /\ e[i - 1] = M - end[j]
          /\ e[i] \in 0..M /\ e[i - 1] \in 0..M /\ end[j] \in 0..M /\ end[j - 1] \in 0..M
      BY <2>2, <3>1
    <3>4. FromEnd(parts, i) = parts[j] /\ (j = N <=> i = 1)
      <4>1. FromEnd(parts, i) = parts[N - i + 1]
        BY DEF FromEnd
      <4>2. j = N <=> i = 1
        BY <1>0
      <4>3. N - i + 1 = j
        BY <1>0
      <4> QED BY <4>1, <4>2, <4>3
    <3> HIDE DEF j, N, M
    <3>5. /\ end[j - 1] < end[j] <=> e[i - 1] < e[i]
          /\ end[j] = end[j - 1] + 1 <=> e[i] = e[i - 1] + 1
          /\ end[j] = end[j - 1] + 1 => M - e[i] + 1 = end[j]
      <4> DEFINE a == end[j - 1]
                 b == end[j]
                 x == e[i]
                 y == e[i - 1]
      <4>1. a \in 0..M /\ b \in 0..M /\ x = M - a /\ y = M - b
        BY <3>3
      <4> HIDE DEF a, b, x, y
      <4>2. /\ a < b <=> y < x
            /\ b = a + 1 <=> x = y + 1
            /\ b = a + 1 => M - x + 1 = b /\ M - b + 1 = x
        BY <1>0, <4>1, Mirrored
      <4> QED BY <4>2 DEF a, b, x, y
    <3>6. end[j] = end[j - 1] + 1 => FromEnd(labels, e[i]) = labels[end[j]]
      BY <3>5 DEF FromEnd, M
    <3> QED BY <3>2, <3>4, <3>5, <3>6 DEF Piece
  <2> QED BY <2>2, <2>3, <2>4 DEF Layout
<1>3. Lays(parts, labels, N, M) => Covers(parts, labels)
  BY <1>1 DEF Lays
<1>4. Covers(parts, labels) => Lays(parts, labels, N, M)
  <2> SUFFICES ASSUME Covers(parts, labels) PROVE Lays(parts, labels, N, M)
    OBVIOUS
  <2>1. \E e \in [0..N -> 0..M] : Layout(parts, labels, N, e) /\ e[N] = M
    BY <1>2 DEF Covers
  <2> QED BY <2>1 DEF Lays
<1> QED BY <1>3, <1>4

\* No name the code looks at is the empty one, as no name meant is.
LEMMA ValidIsNotEmpty == ~Valid(<<"">>)
<1>1. 1 \in DOMAIN <<"">> /\ <<"">>[1] = ""
  OBVIOUS
<1> QED BY <1>1 DEF Valid

\* A name without its last label is a name.
LEMMA FrontType ==
  ASSUME NEW s \in Seq(Labels), Len(s) > 1
  PROVE  Front(s) \in Seq(Labels) /\ Len(Front(s)) = Len(s) - 1
<1> DEFINE k == Len(s) - 1
<1>1. Len(s) \in Nat /\ \A i \in 1..Len(s) : s[i] \in Labels
  BY LenProperties, ElementOfSeq
<1>2. k \in Int /\ 1 <= k /\ k - 1 + 1 = k /\ \A i \in 1..k : s[i] \in Labels
  BY <1>1
<1>3. Front(s) = SubSeq(s, 1, k)
  BY DEF Front
<1> HIDE DEF k
<1>4. SubSeq(s, 1, k) \in Seq(Labels) /\ Len(SubSeq(s, 1, k)) = k
  BY <1>2, SubSeqProperties
<1> QED BY <1>3, <1>4 DEF k

\* So is a name in lower case.
LEMMA LowerCaseType ==
  ASSUME NEW name \in Seq(Labels), name # <<>>
  PROVE  /\ Len(name) \in Nat /\ Len(name) > 0
         /\ LowerCase(name) \in Seq(Labels)
         /\ Len(LowerCase(name)) = Len(name)
         /\ LowerCase(name) # <<>>
         /\ Last(name) = "" <=> Last(LowerCase(name)) = ""
<1> DEFINE lower == LowerCase(name)
           n == Len(name)
<1>1. n \in Nat /\ n > 0
  BY EmptySeq, LenProperties
<1>2. DOMAIN name = 1..n /\ \A i \in 1..n : name[i] \in Labels
  BY LenProperties, ElementOfSeq
<1>3. lower = [i \in 1..n |-> Lower[name[i]]]
  BY <1>2 DEF LowerCase
<1>4. \A i \in 1..n : Lower[name[i]] \in Labels /\ (Lower[name[i]] = "" <=> name[i] = "")
  BY <1>2, LowerAssumption
<1> HIDE DEF lower, n
<1>5. lower \in [1..n -> Labels]
  BY <1>3, <1>4
<1>6. lower \in Seq(Labels) /\ Len(lower) = n
  <2>1. lower \in Seq(Labels)
    BY <1>1, <1>5, IsASeq
  <2>2. DOMAIN lower = 1..n /\ DOMAIN lower = 1..Len(lower) /\ Len(lower) \in Nat
    BY <1>5, <2>1, LenProperties
  <2> QED BY <1>1, <2>1, <2>2
<1>7. lower # <<>>
  BY <1>1, <1>6, EmptySeq
<1>8. n \in 1..n
  BY <1>1
<1>9. name[n] = "" <=> lower[n] = ""
  BY <1>3, <1>4, <1>8
<1> QED BY <1>1, <1>6, <1>7, <1>9 DEF Last, lower, n

\* A name as the code compares it is the name as it is meant, or both are refused.
Bare(name) == IF Last(name) = "" THEN Front(name) ELSE name

\* What the code makes of a name is its labels in lower case without the root.
LEMMA NormalizeIsBare ==
  ASSUME NEW name \in Seq(Labels), name # <<>>
  PROVE  LET bare == Bare(LowerCase(name))
         IN /\ Normalize(name) \in Seq(Labels)
            /\ (bare # <<>> /\ Valid(bare)) <=> (Normalize(name) # <<"">> /\ Valid(Normalize(name)))
            /\ bare # <<>> /\ Valid(bare) => Normalize(name) = bare
<1> DEFINE lower == LowerCase(name)
           norm == Normalize(name)
           bare == Bare(lower)
<1>1. /\ Len(name) \in Nat /\ Len(name) > 0 /\ lower \in Seq(Labels)
      /\ Len(lower) = Len(name) /\ lower # <<>>
      /\ Last(name) = "" <=> Last(lower) = ""
  BY LowerCaseType
<1>2. norm = IF Len(name) > 1 /\ Last(name) = "" THEN Front(lower) ELSE lower
  BY DEF Normalize
<1>3. bare = IF Last(lower) = "" THEN Front(lower) ELSE lower
  BY DEF Bare
<1> HIDE DEF lower, norm, bare
<1>4. CASE Last(name) # ""
  <2>1. norm = lower /\ bare = lower
    BY <1>1, <1>2, <1>3, <1>4
  <2> QED BY <1>1, <2>1, ValidIsNotEmpty DEF lower, norm, bare
<1>5. CASE Last(name) = "" /\ Len(name) > 1
  <2>1. norm = Front(lower) /\ bare = Front(lower)
    BY <1>1, <1>2, <1>3, <1>5
  <2>2. Front(lower) \in Seq(Labels) /\ Len(Front(lower)) = Len(lower) - 1
    BY <1>1, <1>5, FrontType
  <2>3. Front(lower) # <<>>
    <3>1. \A n, k \in Nat : n > 1 /\ k = n - 1 => k # 0
      OBVIOUS
    <3>2. Len(Front(lower)) \in Nat
      BY <2>2, LenProperties
    <3>3. Len(Front(lower)) # 0
      BY <1>1, <1>5, <2>2, <3>1, <3>2
    <3> QED BY <3>3, <2>2, EmptySeq
  <2> QED BY <2>1, <2>2, <2>3, ValidIsNotEmpty DEF lower, norm, bare
<1>6. CASE Last(name) = "" /\ ~(Len(name) > 1)
  <2>1. norm = lower /\ bare = Front(lower) /\ Last(lower) = ""
    BY <1>1, <1>2, <1>3, <1>6
  <2>2. Len(lower) = 1
    <3>1. \A n \in Nat : n > 0 /\ ~(n > 1) => n = 1
      OBVIOUS
    <3> QED BY <1>1, <1>6, <3>1
  <2>3. 1 \in DOMAIN lower /\ lower[1] = ""
    <3>1. DOMAIN lower = 1..Len(lower)
      BY <1>1, LenProperties
    <3>2. lower[1] = ""
      BY <2>1, <2>2 DEF Last
    <3>3. 1 \in 1..1
      OBVIOUS
    <3> QED BY <2>2, <3>1, <3>2, <3>3
  <2>4. ~Valid(lower)
    BY <2>3 DEF Valid
  <2>5. Front(lower) = <<>>
    BY <2>2 DEF Front
  <2> QED BY <1>1, <2>1, <2>4, <2>5 DEF lower, norm, bare
<1> QED BY <1>4, <1>5, <1>6

\* The matcher of exclude_domain is right about every pattern and host.
LEMMA MatchesIsExcludes ==
  ASSUME NEW p \in Seq(Labels), NEW h \in Seq(Labels), p # <<>>, h # <<>>
  PROVE  Matches(p, h) <=> Excludes(p, h)
<1> DEFINE Named(name) == Bare(name) # <<>> /\ Valid(Bare(name))
<1>1. /\ Normalize(p) \in Seq(Labels)
      /\ Named(LowerCase(p)) <=> (Normalize(p) # <<"">> /\ Valid(Normalize(p)))
      /\ Named(LowerCase(p)) => Normalize(p) = Bare(LowerCase(p))
  BY NormalizeIsBare
<1>2. /\ Normalize(h) \in Seq(Labels)
      /\ Named(LowerCase(h)) <=> (Normalize(h) # <<"">> /\ Valid(Normalize(h)))
      /\ Named(LowerCase(h)) => Normalize(h) = Bare(LowerCase(h))
  BY NormalizeIsBare
<1>3. ASSUME NEW a \in Seq(Labels), NEW b \in Seq(Labels)
      PROVE  MatchParts(a, b) <=> Covers(a, b)
  <2>1. Len(a) \in 0..Len(a) /\ Len(b) \in 0..Len(b)
    <3>1. Len(a) \in Nat /\ Len(b) \in Nat
      BY LenProperties
    <3> QED BY <3>1
  <2>2. Len(b) \in Matched(a, b)[Len(a)] <=> Lays(a, b, Len(a), Len(b))
    BY <2>1, MatchedIsLayout
  <2>3. Lays(a, b, Len(a), Len(b)) <=> Covers(a, b)
    BY LaysIsCovers
  <2> QED BY <2>2, <2>3 DEF MatchParts
<1>4. MatchParts(Normalize(p), Normalize(h)) <=> Covers(Normalize(p), Normalize(h))
  BY <1>1, <1>2, <1>3
<1>5. Excludes(p, h) <=> /\ Named(LowerCase(p)) /\ Named(LowerCase(h))
                         /\ Covers(Bare(LowerCase(p)), Bare(LowerCase(h)))
  BY DEF Excludes, Valid, Bare
<1> HIDE DEF Named
<1> QED BY <1>1, <1>2, <1>4, <1>5 DEF Matches, MatchGlob

-----------------------------------------------------------------------------
(* Rules files *)

\* Division with its remainder.
LEMMA Division ==
  ASSUME NEW a \in Nat, NEW m \in Nat, m > 0
  PROVE  a \div m \in Int /\ a = m * (a \div m) + (a % m) /\ 0 <= a % m /\ a % m <= a
<1>1. a \div m \in Int
  OBVIOUS
<1>2. 0 <= a % m /\ a % m <= a
  OBVIOUS
<1>3. ASSUME NEW q, NEW r, q = a \div m, r = a % m PROVE a = m * q + r
  BY <1>3
<1> QED BY <1>1, <1>2, <1>3

\* Masking an address clears what is behind the prefix, and two addresses agree on what
\* is left if and only if they agree on the prefix.
LEMMA Masking ==
  ASSUME NEW a \in Nat, NEW b \in Nat, NEW m \in Nat, m > 0
  PROVE  /\ a - (a % m) \in Nat
         /\ (a - (a % m)) % m = 0
         /\ b - (b % m) = a - (a % m) <=> b \div m = a \div m
<1>1. /\ a \div m \in Int /\ a = m * (a \div m) + (a % m) /\ a % m <= a /\ a % m \in Int
      /\ b \div m \in Int /\ b = m * (b \div m) + (b % m) /\ b % m \in Int
  BY Division
<1>2. (a - (a % m)) % m = 0
  OBVIOUS
<1>3. b \div m = a \div m => b - (b % m) = a - (a % m)
  OBVIOUS
<1>4. ASSUME NEW q \in Int, NEW p \in Int, m * q = m * p PROVE q = p
  BY <1>4
<1>5. b - (b % m) = a - (a % m) => m * (b \div m) = m * (a \div m)
  BY <1>1
<1> QED BY <1>1, <1>2, <1>3, <1>4, <1>5

\* Powers of two.
LEMMA PowersPositive == Pow2[0] = 1 /\ \A n \in 0..Width : Pow2[n] \in Nat /\ Pow2[n] > 0
<1> DEFINE Pos == {k \in Nat : k > 0}
           step == [x \in (1..Width) \X Pos |-> 2 * x[2]]
           Met(f) == f = [n \in 0..Width |-> IF n = 0 THEN 1 ELSE 2 * f[n - 1]]
           S == {n \in 0..Width : Pow2[n] \in Nat /\ Pow2[n] > 0}
<1>1. Width \in Nat /\ 1 \in Pos
  BY WidthAssumption
<1>2. step \in [(1..Width) \X Pos -> Pos]
  <2>1. \A k \in Pos : 2 * k \in Pos
    OBVIOUS
  <2> QED BY <2>1
<1>3. \A n \in 1..Width : \A k \in Pos : step[<<n, k>>] = 2 * k
  OBVIOUS
<1> HIDE DEF step
<1>4. PICK f \in [0..Width -> Pos] : Recurs(f, Width, 1, step)
  BY <1>1, <1>2, Recursion
<1>5. \A n \in 1..Width : n - 1 \in 0..Width /\ n \in 0..Width /\ n # 0
  BY <1>1
<1>6. \A n \in 0..Width : n = 0 \/ n \in 1..Width
  BY <1>1
<1>7. Met(f)
  BY <1>3, <1>4, <1>5, <1>6 DEF Recurs
<1> HIDE DEF Met
<1>8. Met(Pow2)
  BY <1>7 DEF Pow2, Met
<1> HIDE DEF Pow2
<1>9. Pow2[0] = 1 /\ \A n \in 1..Width : Pow2[n] = 2 * Pow2[n - 1]
  BY <1>1, <1>5, <1>8 DEF Met
<1>10. 0 \in S /\ \A n \in 1..Width : n - 1 \in S => n \in S
  <2>1. 0 \in 0..Width /\ Pow2[0] \in Nat /\ Pow2[0] > 0
    BY <1>1, <1>9
  <2>2. \A k \in Nat : k > 0 => 2 * k \in Nat /\ 2 * k > 0
    OBVIOUS
  <2>3. ASSUME NEW n \in 1..Width, Pow2[n - 1] \in Nat, Pow2[n - 1] > 0
        PROVE  Pow2[n] \in Nat /\ Pow2[n] > 0
    BY <1>9, <2>2, <2>3
  <2> QED BY <1>5, <2>1, <2>3
<1> HIDE DEF S
<1>11. 0..Width \subseteq S
  BY <1>1, <1>10, Induction
<1> QED BY <1>9, <1>11 DEF S

LinePrefixes == [addr : Nat, bits : 0..Width]

\* The prefix a line adds.
PrefixOf(l) == IF l.key = "exclude_ip" THEN [addr |-> l.addr, bits |-> Width]
               ELSE Masked(l.addr, l.bits)
AddsPrefix(l) == l.key \in {"exclude_ip", "exclude_cidr"}

\* The host bits behind a prefix that keeps some.
LEMMA HostPartOf ==
  ASSUME NEW a \in Nat, NEW bits \in 0..Width
  PROVE  /\ Pow2[Width - bits] \in Nat /\ Pow2[Width - bits] > 0
         /\ HostPart(a, bits) = a % Pow2[Width - bits]
<1>1. Width - bits \in 0..Width
  BY WidthAssumption
<1> QED BY <1>1, PowersPositive DEF HostPart

\* The kinds of lines, as loadLine tells them apart.
LEMMA LinesShape ==
  ASSUME NEW l \in RulesLines
  PROVE  /\ l.key \in {"bad", "exclude_ip", "exclude_cidr", "exclude_domain"}
         /\ l = BadLine <=> l.key = "bad"
         /\ AddsPrefix(l) => l.addr \in Nat /\ l.bits \in 0..Width
         /\ l.key = "exclude_ip" => l.bits = Width
         /\ l.key = "exclude_domain" => l.pattern \in Seq(Labels) \ {<<>>}
<1>0. Width \in 0..Width
  BY WidthAssumption
<1>1. CASE l = BadLine
  BY <1>1 DEF BadLine, AddsPrefix
<1>2. ASSUME NEW a \in Addresses, l = IPLine(a) \/ \E bits \in 0..Width : l = CIDRLine(a, bits)
      PROVE  /\ AddsPrefix(l) /\ l # BadLine /\ l.key # "bad" /\ l.key # "exclude_domain"
             /\ l.addr \in Nat /\ l.bits \in 0..Width
             /\ l.key = "exclude_ip" => l.bits = Width
  <2>1. a \in Nat
    BY PowersPositive, WidthAssumption DEF Addresses
  <2> QED BY <1>0, <1>2, <2>1 DEF IPLine, CIDRLine, BadLine, AddsPrefix
<1>3. CASE l = DomainLine(l.pattern) /\ l.pattern \in Seq(Labels) \ {<<>>}
  <2>1. l.key = "exclude_domain"
    BY <1>3 DEF DomainLine
  <2> QED BY <1>3, <2>1 DEF BadLine, AddsPrefix
<1> QED BY <1>1, <1>2, <1>3, LinesAssumption DEF AddsPrefix

\* A line's prefix routes what the line names, and is one the kernel takes.
LEMMA PrefixRoutes ==
  ASSUME NEW l \in RulesLines, AddsPrefix(l)
  PROVE  /\ PrefixOf(l) \in LinePrefixes
         /\ Routable(PrefixOf(l))
         /\ \A a \in Addresses : Routed(PrefixOf(l), a) <=> NamesAddress(l, a)
<1> DEFINE m == Pow2[Width - l.bits]
<1>1. l.addr \in Nat /\ l.bits \in 0..Width
  BY LinesShape
<1>2. m \in Nat /\ m > 0 /\ \A a \in Nat : HostPart(a, l.bits) = a % m
  BY <1>1, HostPartOf
<1>3. \A a \in Addresses : a \in Nat
  BY PowersPositive, WidthAssumption DEF Addresses
<1>4. CASE l.key = "exclude_ip"
  <2>1. l.bits = Width /\ PrefixOf(l) = [addr |-> l.addr, bits |-> Width] /\ Width - Width = 0
    BY <1>4, LinesShape, WidthAssumption DEF PrefixOf
  <2>2. m = 1
    BY <2>1, PowersPositive
  <2>3. \A a \in Nat : a % 1 = 0 /\ a - 0 = a
    OBVIOUS
  <2>4. \A a \in Nat : HostPart(a, Width) = 0
    BY <1>2, <2>1, <2>2, <2>3
  <2>5. PrefixOf(l) \in LinePrefixes /\ Routable(PrefixOf(l))
    BY <1>1, <2>1, <2>4 DEF LinePrefixes, Routable
  <2>6. \A a \in Addresses : Routed(PrefixOf(l), a) <=> a = l.addr
    BY <1>3, <2>1, <2>3, <2>4 DEF Routed
  <2> QED BY <1>4, <2>5, <2>6 DEF NamesAddress
<1>5. CASE l.key = "exclude_cidr"
  <2>1. PrefixOf(l) = [addr |-> l.addr - HostPart(l.addr, l.bits), bits |-> l.bits]
    BY <1>5 DEF PrefixOf, Masked
  <2>2. HostPart(l.addr, l.bits) = l.addr % m
    BY <1>1, <1>2
  <2> HIDE DEF m
  <2>3. /\ l.addr - (l.addr % m) \in Nat
        /\ (l.addr - (l.addr % m)) % m = 0
        /\ \A a \in Nat : a - (a % m) = l.addr - (l.addr % m) <=> a \div m = l.addr \div m
    BY <1>1, <1>2, Masking
  <2>4. PrefixOf(l) \in LinePrefixes /\ Routable(PrefixOf(l))
    BY <1>1, <1>2, <2>1, <2>2, <2>3 DEF LinePrefixes, Routable
  <2>5. \A a \in Addresses : Routed(PrefixOf(l), a) <=> a \div m = l.addr \div m
    BY <1>2, <1>3, <2>1, <2>2, <2>3 DEF Routed
  <2> QED BY <1>5, <2>4, <2>5 DEF NamesAddress, m
<1> QED BY <1>4, <1>5 DEF AddsPrefix

\* What loading makes of lines: a file that is refused, or prefixes and patterns.
Loads == [ok : BOOLEAN, static : Seq(LinePrefixes), domains : Seq(Seq(Labels) \ {<<>>})]

\* One more element.
LEMMA RangeOfAppend ==
  ASSUME NEW S, NEW s \in Seq(S), NEW x \in S
  PROVE  Append(s, x) \in Seq(S) /\ Range(Append(s, x)) = Range(s) \cup {x}
<1>1. /\ Append(s, x) \in Seq(S) /\ Len(Append(s, x)) = Len(s) + 1
      /\ \A i \in 1..Len(s) : Append(s, x)[i] = s[i]
      /\ Append(s, x)[Len(s) + 1] = x
      /\ Len(s) \in Nat
  BY AppendProperties, LenProperties
<1>2. DOMAIN s = 1..Len(s) /\ DOMAIN Append(s, x) = 1..(Len(s) + 1)
  BY <1>1, LenProperties
<1>3. 1..(Len(s) + 1) = 1..Len(s) \cup {Len(s) + 1}
  BY <1>1
<1> QED BY <1>1, <1>2, <1>3 DEF Range

\* A line adds what it says to what has been loaded.
LEMMA LoadLineKeeps ==
  ASSUME NEW s \in Loads, NEW l \in RulesLines
  PROVE  /\ LoadLine(s, l) \in Loads
         /\ LoadLine(s, l).ok <=> s.ok /\ l # BadLine
         /\ LoadLine(s, l).ok =>
               /\ Range(LoadLine(s, l).static) =
                     Range(s.static) \cup IF AddsPrefix(l) THEN {PrefixOf(l)} ELSE {}
               /\ Range(LoadLine(s, l).domains) =
                     Range(s.domains) \cup IF l.key = "exclude_domain" THEN {l.pattern} ELSE {}
<1>1. /\ s.static \in Seq(LinePrefixes) /\ s.domains \in Seq(Seq(Labels) \ {<<>>})
      /\ s.ok \in BOOLEAN /\ s = [ok |-> s.ok, static |-> s.static, domains |-> s.domains]
  BY DEF Loads
<1>2. l.key \in {"bad", "exclude_ip", "exclude_cidr", "exclude_domain"}
  BY LinesShape
<1>3. CASE ~s.ok \/ l.key = "bad"
  <2>1. LoadLine(s, l) = [ok |-> FALSE, static |-> <<>>, domains |-> <<>>]
    BY <1>3 DEF LoadLine, NoRules
  <2>2. <<>> \in Seq(LinePrefixes) /\ <<>> \in Seq(Seq(Labels) \ {<<>>})
    BY EmptySeq
  <2> QED BY <1>3, <2>1, <2>2, LinesShape DEF Loads
<1>4. CASE s.ok /\ AddsPrefix(l)
  <2>1. LoadLine(s, l) = [ok |-> TRUE, static |-> Append(s.static, PrefixOf(l)), domains |-> s.domains]
    BY <1>1, <1>4 DEF LoadLine, AddsPrefix, PrefixOf
  <2>2. l # BadLine /\ l.key # "exclude_domain"
    BY <1>4 DEF BadLine, AddsPrefix
  <2>3. PrefixOf(l) \in LinePrefixes
    BY <1>4, PrefixRoutes
  <2>4. /\ Append(s.static, PrefixOf(l)) \in Seq(LinePrefixes)
        /\ Range(Append(s.static, PrefixOf(l))) = Range(s.static) \cup {PrefixOf(l)}
    BY <1>1, <2>3, RangeOfAppend
  <2> QED BY <1>1, <1>4, <2>1, <2>2, <2>4 DEF Loads
<1>5. CASE s.ok /\ l.key = "exclude_domain"
  <2>1. LoadLine(s, l) = [ok |-> TRUE, static |-> s.static, domains |-> Append(s.domains, l.pattern)]
    BY <1>1, <1>5 DEF LoadLine
  <2>2. l # BadLine /\ ~AddsPrefix(l)
    BY <1>5 DEF BadLine, AddsPrefix
  <2>3. l.pattern \in Seq(Labels) \ {<<>>}
    BY <1>5, LinesShape
  <2>4. /\ Append(s.domains, l.pattern) \in Seq(Seq(Labels) \ {<<>>})
        /\ Range(Append(s.domains, l.pattern)) = Range(s.domains) \cup {l.pattern}
    BY <1>1, <2>3, RangeOfAppend
  <2> QED BY <1>1, <1>5, <2>1, <2>2, <2>4 DEF Loads
<1> QED BY <1>2, <1>3, <1>4, <1>5 DEF AddsPrefix

\* The loading function, line by line.
LEMMA LoadedStep ==
  ASSUME NEW lines \in Seq(RulesLines)
  PROVE  /\ Loaded(lines)[0] = NoRules
         /\ \A n \in 1..Len(lines) : Loaded(lines)[n] = LoadLine(Loaded(lines)[n - 1], lines[n])
<1> DEFINE N == Len(lines)
           step == [x \in (1..N) \X Loads |-> LoadLine(x[2], lines[x[1]])]
           Met(f) == f = [n \in 0..N |-> IF n = 0 THEN NoRules ELSE LoadLine(f[n - 1], lines[n])]
<1>1. Loaded(lines) = CHOOSE f : Met(f)
  BY DEF Loaded
<1>2. N \in Nat /\ \A n \in 1..N : lines[n] \in RulesLines
  BY LenProperties, ElementOfSeq
<1>3. NoRules \in Loads
  BY EmptySeq DEF NoRules, Loads
<1>4. step \in [(1..N) \X Loads -> Loads]
  BY <1>2, LoadLineKeeps
<1>5. \A n \in 1..N : \A s \in Loads : step[<<n, s>>] = LoadLine(s, lines[n])
  OBVIOUS
<1> HIDE DEF N, step
<1>6. PICK f \in [0..N -> Loads] : Recurs(f, N, NoRules, step)
  BY <1>2, <1>3, <1>4, Recursion
<1>7. \A n \in 1..N : n - 1 \in 0..N /\ n \in 0..N /\ n # 0
  BY <1>2
<1>8. 0 \in 0..N /\ \A n \in 0..N : n = 0 \/ n \in 1..N
  BY <1>2
<1>9. Met(f)
  BY <1>5, <1>6, <1>7, <1>8 DEF Recurs
<1> HIDE DEF Met
<1>10. Met(Loaded(lines))
  BY <1>1, <1>9
<1> HIDE DEF Loaded
<1> QED BY <1>7, <1>8, <1>10 DEF Met, N

\* What is loaded of the first n lines is what they say, or they are refused.
Says(lines, n, s) ==
    /\ s \in Loads
    /\ s.ok <=> \A i \in 1..n : lines[i] # BadLine
    /\ s.ok =>
        /\ Range(s.static) = {PrefixOf(lines[i]) : i \in {j \in 1..n : AddsPrefix(lines[j])}}
        /\ Range(s.domains) =
              {lines[i].pattern : i \in {j \in 1..n : lines[j].key = "exclude_domain"}}

\* What is loaded is what the lines name.
LEMMA LoadSays ==
  ASSUME NEW lines \in Seq(RulesLines)
  PROVE  Says(lines, Len(lines), LoadRules(lines))
<1> DEFINE N == Len(lines)
           loaded == Loaded(lines)
           S == {n \in 0..N : Says(lines, n, loaded[n])}
<1>1. N \in Nat /\ \A n \in 1..N : lines[n] \in RulesLines
  BY LenProperties, ElementOfSeq
<1>2. loaded[0] = NoRules /\ \A n \in 1..N : loaded[n] = LoadLine(loaded[n - 1], lines[n])
  BY LoadedStep
<1> HIDE DEF N, loaded
<1>3. Says(lines, 0, loaded[0])
  <2>1. <<>> \in Seq(LinePrefixes) /\ <<>> \in Seq(Seq(Labels) \ {<<>>}) /\ Range(<<>>) = {}
    BY EmptySeq DEF Range
  <2> QED BY <1>2, <2>1 DEF Says, NoRules, Loads
<1>4. ASSUME NEW n \in 1..N, Says(lines, n - 1, loaded[n - 1]) PROVE Says(lines, n, loaded[n])
  <2> DEFINE s == loaded[n - 1]
             t == loaded[n]
             l == lines[n]
  <2>1. /\ t \in Loads
        /\ t.ok <=> s.ok /\ l # BadLine
        /\ t.ok =>
             /\ Range(t.static) = Range(s.static) \cup IF AddsPrefix(l) THEN {PrefixOf(l)} ELSE {}
             /\ Range(t.domains) =
                   Range(s.domains) \cup IF l.key = "exclude_domain" THEN {l.pattern} ELSE {}
    <3>1. s \in Loads /\ l \in RulesLines /\ t = LoadLine(s, l)
      BY <1>1, <1>2, <1>4 DEF Says
    <3> HIDE DEF s, t, l
    <3> QED BY <3>1, LoadLineKeeps
  <2>2. 1..n = 1..(n - 1) \cup {n}
    BY <1>1
  <2> HIDE DEF s, t
  <2>3. t.ok <=> \A i \in 1..n : lines[i] # BadLine
    BY <1>4, <2>1, <2>2 DEF Says, s
  <2>4. ASSUME t.ok
        PROVE  /\ Range(t.static) = {PrefixOf(lines[i]) : i \in {j \in 1..n : AddsPrefix(lines[j])}}
               /\ Range(t.domains) =
                     {lines[i].pattern : i \in {j \in 1..n : lines[j].key = "exclude_domain"}}
    <3>1. Range(s.static) = {PrefixOf(lines[i]) : i \in {j \in 1..(n - 1) : AddsPrefix(lines[j])}}
      BY <1>4, <2>1, <2>4 DEF Says, s
    <3>2. Range(s.domains) =
            {lines[i].pattern : i \in {j \in 1..(n - 1) : lines[j].key = "exclude_domain"}}
      BY <1>4, <2>1, <2>4 DEF Says, s
    <3>3. Range(t.static) = {PrefixOf(lines[i]) : i \in {j \in 1..n : AddsPrefix(lines[j])}}
      BY <2>1, <2>2, <2>4, <3>1
    <3>4. Range(t.domains) =
            {lines[i].pattern : i \in {j \in 1..n : lines[j].key = "exclude_domain"}}
      BY <2>1, <2>2, <2>4, <3>2
    <3> QED BY <3>3, <3>4
  <2> QED BY <2>1, <2>3, <2>4 DEF Says, t
<1>5. 0 \in S /\ \A n \in 1..N : n - 1 \in S => n \in S
  BY <1>1, <1>3, <1>4
<1> HIDE DEF S
<1>6. N \in S
  <2>1. 0..N \subseteq S
    BY <1>1, <1>5, Induction
  <2> QED BY <1>1, <2>1
<1> QED BY <1>6 DEF S, N, loaded, LoadRules

\* So it is for a whole file.
LEMMA RulesRight == ASSUME rules \in Seq(RulesLines) PROVE RulesFileMeansItsLines
<1> DEFINE loaded == LoadRules(rules)
           places == 1..Len(rules)
<1>1. Says(rules, Len(rules), loaded)
  BY LoadSays
<1>2. DOMAIN rules = places /\ \A i \in places : rules[i] \in RulesLines
  BY LenProperties, ElementOfSeq
<1> HIDE DEF loaded, places
<1>3. Range(rules) = {rules[i] : i \in places}
  BY <1>2 DEF Range
<1>4. loaded.ok <=> BadLine \notin Range(rules)
  BY <1>1, <1>3 DEF Says, places
<1>5. ASSUME loaded.ok, NEW prefix \in Range(loaded.static) PROVE Routable(prefix)
  <2>1. PICK i \in places : AddsPrefix(rules[i]) /\ prefix = PrefixOf(rules[i])
    BY <1>1, <1>5 DEF Says, places
  <2> QED BY <1>2, <2>1, PrefixRoutes
<1>6. ASSUME loaded.ok, NEW a \in Addresses
      PROVE  (\E prefix \in Range(loaded.static) : Routed(prefix, a))
                <=> \E l \in Range(rules) : NamesAddress(l, a)
  <2>1. (\E prefix \in Range(loaded.static) : Routed(prefix, a))
           <=> \E i \in places : AddsPrefix(rules[i]) /\ Routed(PrefixOf(rules[i]), a)
    BY <1>1, <1>6 DEF Says, places
  <2>2. \A i \in places : AddsPrefix(rules[i]) =>
            (Routed(PrefixOf(rules[i]), a) <=> NamesAddress(rules[i], a))
    BY <1>2, PrefixRoutes
  <2>3. \A l : NamesAddress(l, a) => AddsPrefix(l)
    BY DEF NamesAddress, AddsPrefix
  <2> QED BY <1>3, <2>1, <2>2, <2>3
<1>7. ASSUME loaded.ok, NEW h \in Hosts
      PROVE  DomainRulesMatch(Range(loaded.domains), h) <=> \E l \in Range(rules) : NamesHost(l, h)
  <2>1. DomainRulesMatch(Range(loaded.domains), h)
           <=> \E i \in places : rules[i].key = "exclude_domain" /\ Matches(rules[i].pattern, h)
    BY <1>1, <1>7 DEF Says, places, DomainRulesMatch
  <2>2. \A i \in places : rules[i].key = "exclude_domain" =>
            (Matches(rules[i].pattern, h) <=> Excludes(rules[i].pattern, h))
    <3>1. h \in Seq(Labels) /\ h # <<>>
      BY NamesAssumption
    <3> QED BY <1>2, <3>1, LinesShape, MatchesIsExcludes
  <2> QED BY <1>3, <2>1, <2>2 DEF NamesHost
<1> QED BY <1>4, <1>5, <1>6, <1>7 DEF RulesFileMeansItsLines, loaded

-----------------------------------------------------------------------------
(* Configuration files *)

\* The parser, line by line.  Its state has no type to speak of (a value is a text, a
\* number or a list), so that the function is made directly.
LEMMA ParsedLinesStep ==
  ASSUME NEW lines, Len(lines) \in Nat
  PROVE  /\ ParsedLines(lines)[0] = NothingParsed
         /\ \A n \in 1..Len(lines) :
              ParsedLines(lines)[n] = ParseLine(ParsedLines(lines)[n - 1], lines[n])
<1> DEFINE N == Len(lines)
           Row(s, n) == ParseLine(s, lines[n])
           Is(f, n) == f = [i \in 0..n |-> IF i = 0 THEN NothingParsed ELSE Row(f[i - 1], i)]
           Met(n) == \E f : Is(f, n)
           S == {n \in 0..N : Met(n)}
<1>1. ParsedLines(lines) = CHOOSE f : Is(f, N)
  BY DEF ParsedLines
<1>2. N \in Nat
  OBVIOUS
<1> HIDE DEF N, Row
<1>3. Met(0)
  <2> DEFINE f == [i \in 0..0 |-> NothingParsed]
  <2>1. Is(f, 0)
    OBVIOUS
  <2> QED BY <2>1
<1>4. ASSUME NEW n \in 1..N, Met(n - 1) PROVE Met(n)
  <2>1. PICK f : Is(f, n - 1)
    BY <1>4
  <2> DEFINE g == [i \in 0..n |-> IF i = n THEN Row(f[n - 1], n) ELSE f[i]]
  <2>2. \A i \in 0..(n - 1) : f[i] = IF i = 0 THEN NothingParsed ELSE Row(f[i - 1], i)
    BY <2>1
  <2>3. n # 0 /\ n \in 0..n /\ \A i \in 0..n : i # n => i \in 0..(n - 1)
    BY <1>2
  <2>4. \A i \in 0..n : i # 0 => i - 1 \in 0..n /\ i - 1 # n
    BY <1>2
  <2>5. /\ g[n] = Row(f[n - 1], n) /\ \A i \in 0..n : i # n => g[i] = f[i]
        /\ g = [i \in 0..n |-> g[i]]
    BY <2>3
  <2> HIDE DEF g
  <2>6. \A i \in 0..n : g[i] = IF i = 0 THEN NothingParsed ELSE Row(g[i - 1], i)
    BY <2>2, <2>3, <2>4, <2>5
  <2>7. Is(g, n)
    BY <2>5, <2>6
  <2> QED BY <2>7
<1> HIDE DEF Met
<1>5. 0 \in S /\ \A n \in 1..N : n - 1 \in S => n \in S
  BY <1>2, <1>3, <1>4
<1> HIDE DEF S
<1>6. Met(N)
  <2>1. 0..N \subseteq S
    BY <1>2, <1>5, Induction
  <2> QED BY <1>2, <2>1 DEF S
<1>7. Is(ParsedLines(lines), N)
  <2>1. \E f : Is(f, N)
    BY <1>6 DEF Met
  <2> HIDE DEF Is
  <2> QED BY <1>1, <2>1
<1>8. 0 \in 0..N /\ \A n \in 1..N : n \in 0..N /\ n # 0
  BY <1>2
<1> HIDE DEF ParsedLines
<1> QED BY <1>7, <1>8 DEF N, Row

\* Lists are joined line by line.
LEMMA JoinedStep ==
  ASSUME NEW lines, Len(lines) \in Nat, NEW S, NEW key
  PROVE  /\ Joined(lines, S, key)[0] = <<>>
         /\ \A n \in 1..Len(lines) : Joined(lines, S, key)[n] =
              IF n \in S /\ Gives(lines[n], key)
              THEN Joined(lines, S, key)[n - 1] \o lines[n].value
              ELSE Joined(lines, S, key)[n - 1]
<1> DEFINE N == Len(lines)
           Row(s, n) == IF n \in S /\ Gives(lines[n], key) THEN s \o lines[n].value ELSE s
           Is(f, n) == f = [i \in 0..n |-> IF i = 0 THEN <<>> ELSE Row(f[i - 1], i)]
           Met(n) == \E f : Is(f, n)
           T == {n \in 0..N : Met(n)}
<1>1. Joined(lines, S, key) = CHOOSE f : Is(f, N)
  BY DEF Joined
<1>2. N \in Nat
  OBVIOUS
<1> HIDE DEF N, Row
<1>3. Met(0)
  <2> DEFINE f == [i \in 0..0 |-> <<>>]
  <2>1. Is(f, 0)
    OBVIOUS
  <2> QED BY <2>1
<1>4. ASSUME NEW n \in 1..N, Met(n - 1) PROVE Met(n)
  <2>1. PICK f : Is(f, n - 1)
    BY <1>4
  <2> DEFINE g == [i \in 0..n |-> IF i = n THEN Row(f[n - 1], n) ELSE f[i]]
  <2>2. \A i \in 0..(n - 1) : f[i] = IF i = 0 THEN <<>> ELSE Row(f[i - 1], i)
    BY <2>1
  <2>3. n # 0 /\ n \in 0..n /\ \A i \in 0..n : i # n => i \in 0..(n - 1)
    BY <1>2
  <2>4. \A i \in 0..n : i # 0 => i - 1 \in 0..n /\ i - 1 # n
    BY <1>2
  <2>5. /\ g[n] = Row(f[n - 1], n) /\ \A i \in 0..n : i # n => g[i] = f[i]
        /\ g = [i \in 0..n |-> g[i]]
    BY <2>3
  <2> HIDE DEF g
  <2>6. \A i \in 0..n : g[i] = IF i = 0 THEN <<>> ELSE Row(g[i - 1], i)
    BY <2>2, <2>3, <2>4, <2>5
  <2>7. Is(g, n)
    BY <2>5, <2>6
  <2> QED BY <2>7
<1> HIDE DEF Met
<1>5. 0 \in T /\ \A n \in 1..N : n - 1 \in T => n \in T
  BY <1>2, <1>3, <1>4
<1> HIDE DEF T
<1>6. Met(N)
  <2>1. 0..N \subseteq T
    BY <1>2, <1>5, Induction
  <2> QED BY <1>2, <2>1 DEF T
<1>7. Is(Joined(lines, S, key), N)
  <2>1. \E f : Is(f, N)
    BY <1>6 DEF Met
  <2> HIDE DEF Is
  <2> QED BY <1>1, <2>1
<1>8. 0 \in 0..N /\ \A n \in 1..N : n \in 0..N /\ n # 0
  BY <1>2
<1> HIDE DEF Joined
<1> QED BY <1>7, <1>8 DEF N, Row

\* Headers of peers are found line by line.
LEMMA PeerHeadersStep ==
  ASSUME NEW lines, Len(lines) \in Nat
  PROVE  /\ PeerHeaders(lines)[0] = <<>>
         /\ \A n \in 1..Len(lines) :
              /\ PeerHeaders(lines)[n] \in Seq(Nat)
              /\ PeerHeaders(lines)[n] = IF lines[n] = Header("peer")
                                        THEN Append(PeerHeaders(lines)[n - 1], n)
                                        ELSE PeerHeaders(lines)[n - 1]
<1> DEFINE N == Len(lines)
           Row(s, n) == IF lines[n] = Header("peer") THEN Append(s, n) ELSE s
           step == [x \in (1..N) \X Seq(Nat) |-> Row(x[2], x[1])]
           Met(f) == f = [n \in 0..N |-> IF n = 0 THEN <<>> ELSE Row(f[n - 1], n)]
<1>1. PeerHeaders(lines) = CHOOSE f : Met(f)
  BY DEF PeerHeaders
<1>2. N \in Nat /\ <<>> \in Seq(Nat)
  BY EmptySeq
<1>3. step \in [(1..N) \X Seq(Nat) -> Seq(Nat)]
  BY <1>2, AppendProperties
<1>4. \A n \in 1..N : \A s \in Seq(Nat) : step[<<n, s>>] = Row(s, n)
  OBVIOUS
<1> HIDE DEF N, Row, step
<1>5. PICK f \in [0..N -> Seq(Nat)] : Recurs(f, N, <<>>, step)
  BY <1>2, <1>3, Recursion
<1>6. \A n \in 1..N : n - 1 \in 0..N /\ n \in 0..N /\ n # 0
  BY <1>2
<1>7. 0 \in 0..N /\ \A n \in 0..N : n = 0 \/ n \in 1..N
  BY <1>2
<1>8. Met(f)
  BY <1>4, <1>5, <1>6, <1>7 DEF Recurs
<1> HIDE DEF Met
<1>9. Met(PeerHeaders(lines))
  BY <1>1, <1>8
<1> HIDE DEF PeerHeaders
<1> DEFINE h == PeerHeaders(lines)
           T == {n \in 0..N : h[n] \in Seq(Nat)}
<1>10. h[0] = <<>> /\ \A n \in 1..N : h[n] = Row(h[n - 1], n)
  BY <1>6, <1>7, <1>9 DEF Met
<1> HIDE DEF h
<1>11. 0 \in T /\ \A n \in 1..N : n - 1 \in T => n \in T
  <2>1. ASSUME NEW n \in 1..N, h[n - 1] \in Seq(Nat) PROVE h[n] \in Seq(Nat)
    <3>1. n \in Nat
      BY <1>2
    <3>2. Append(h[n - 1], n) \in Seq(Nat)
      BY <2>1, <3>1, AppendProperties
    <3> QED BY <1>10, <2>1, <3>2 DEF Row
  <2> QED BY <1>2, <1>6, <1>7, <1>10, <2>1
<1> HIDE DEF T
<1>12. 0..N \subseteq T
  BY <1>2, <1>11, Induction
<1> QED BY <1>6, <1>10, <1>12 DEF N, T, Row, h

\* The largest member of a set of numbers, when one more is larger than all.
LEMMA MaxOfMore ==
  ASSUME NEW S \in SUBSET Nat, NEW n \in Nat, \A i \in S : i < n
  PROVE  Max(S \cup {n}) = n
<1>1. n \in S \cup {n} /\ \A i \in S \cup {n} : n >= i
  OBVIOUS
<1>2. \A m \in S \cup {n} : (\A i \in S \cup {n} : m >= i) => m = n
  OBVIOUS
<1> QED BY <1>1, <1>2 DEF Max

\* The header a line stands under is itself, or that of the line before it.
LEMMA HeaderStep ==
  ASSUME NEW lines, NEW n \in Nat \ {0}
  PROVE  /\ HeaderOf(lines, 0) = 0
         /\ HeaderOf(lines, n) = IF lines[n].what = "section" THEN n ELSE HeaderOf(lines, n - 1)
<1> DEFINE H(m) == {0} \cup {h \in 1..m : lines[h].what = "section"}
<1>1. HeaderOf(lines, 0) = 0
  <2> DEFINE None == {i \in Nat : FALSE}
  <2>1. H(0) = None \cup {0}
    OBVIOUS
  <2>2. None \in SUBSET Nat /\ 0 \in Nat /\ \A i \in None : i < 0
    OBVIOUS
  <2> HIDE DEF None
  <2>3. Max(None \cup {0}) = 0
    BY <2>2, MaxOfMore
  <2> QED BY <2>1, <2>3 DEF HeaderOf
<1>2. 1..n = 1..(n - 1) \cup {n} /\ H(n - 1) \in SUBSET Nat /\ \A i \in H(n - 1) : i < n
  OBVIOUS
<1>3. CASE lines[n].what = "section"
  <2>1. H(n) = H(n - 1) \cup {n}
    BY <1>2, <1>3
  <2> HIDE DEF H
  <2>2. Max(H(n)) = n
    BY <1>2, <2>1, MaxOfMore
  <2> QED BY <1>1, <1>3, <2>2 DEF HeaderOf, H
<1>4. CASE lines[n].what # "section"
  <2>1. H(n) = H(n - 1)
    BY <1>2, <1>4
  <2>2. HeaderOf(lines, n) = HeaderOf(lines, n - 1)
    BY <2>1 DEF HeaderOf
  <2> QED BY <1>1, <1>4, <2>2
<1> QED BY <1>1, <1>3, <1>4

\* What one more line says, to those it is for and to others.
LEMMA SaidStep ==
  ASSUME NEW lines, Len(lines) \in Nat, NEW S, NEW n \in 1..Len(lines), NEW default
  PROVE  /\ n \notin S \/ lines[n].what # "pair" =>
              Said(lines, S, n, default) = Said(lines, S, n - 1, default)
         /\ n \in S /\ lines[n].what = "pair" =>
              Said(lines, S, n, default) =
                 Assign(Said(lines, S, n - 1, default), lines[n].key, lines[n].value)
<1> DEFINE given(m, key) == {i \in S \cap (1..m) : Gives(lines[i], key)}
           joined(key) == Joined(lines, S, key)
           said(m) == Said(lines, S, m, default)
           says(key) == n \in S /\ Gives(lines[n], key)
<1>1. 1..n = 1..(n - 1) \cup {n} /\ n \in Nat /\ \A i \in 1..(n - 1) : i \in Nat /\ i < n
  OBVIOUS
<1>2. \A m : said(m) = [key \in DOMAIN default |->
              IF key \in Lists THEN joined(key)[m]
              ELSE IF given(m, key) = {} THEN default[key] ELSE lines[Max(given(m, key))].value]
  BY DEF Said
<1>3. \A key : given(n, key) = given(n - 1, key) \cup IF says(key) THEN {n} ELSE {}
  BY <1>1
<1>4. \A key : joined(key)[n] = IF says(key) THEN joined(key)[n - 1] \o lines[n].value
                               ELSE joined(key)[n - 1]
  BY JoinedStep
<1>5. \A key : says(key) => Max(given(n, key)) = n
  <2> SUFFICES ASSUME NEW key, says(key) PROVE Max(given(n, key)) = n
    OBVIOUS
  <2>1. given(n - 1, key) \in SUBSET Nat /\ \A i \in given(n - 1, key) : i < n
    BY <1>1
  <2>2. given(n, key) = given(n - 1, key) \cup {n}
    BY <1>3
  <2> HIDE DEF given
  <2> QED BY <1>1, <2>1, <2>2, MaxOfMore
<1> HIDE DEF given, joined
<1>6. ASSUME NEW key \in DOMAIN default
      PROVE  said(n)[key] = IF ~says(key) THEN said(n - 1)[key]
                            ELSE IF key \in Lists THEN said(n - 1)[key] \o lines[n].value
                            ELSE lines[n].value
  <2>1. CASE ~says(key)
    <3>1. given(n, key) = given(n - 1, key) /\ joined(key)[n] = joined(key)[n - 1]
      BY <1>3, <1>4, <2>1
    <3> HIDE DEF says
    <3> QED BY <1>2, <2>1, <3>1
  <2>2. CASE says(key)
    <3>1. n \in given(n, key)
      BY <1>3, <2>2
    <3> HIDE DEF says
    <3> QED BY <1>2, <1>4, <1>5, <2>2, <3>1
  <2> QED BY <2>1, <2>2
<1>7. \A m : DOMAIN said(m) = DOMAIN default /\ said(m) = [key \in DOMAIN default |-> said(m)[key]]
  BY <1>2
<1> HIDE DEF said
<1>8. ASSUME n \notin S \/ lines[n].what # "pair" PROVE said(n) = said(n - 1)
  <2>1. \A key : ~says(key)
    BY <1>8 DEF Gives
  <2> HIDE DEF says
  <2> QED BY <1>6, <1>7, <2>1
<1>9. ASSUME n \in S, lines[n].what = "pair"
      PROVE  said(n) = Assign(said(n - 1), lines[n].key, lines[n].value)
  <2> DEFINE k == lines[n].key
             v == lines[n].value
             new == Assign(said(n - 1), k, v)
  <2>1. \A key : says(key) <=> key = k /\ v # NotANumber
    BY <1>9 DEF Gives
  <2> HIDE DEF says
  <2>2. DOMAIN new = DOMAIN default /\ new = [key \in DOMAIN default |-> new[key]]
    BY <1>7 DEF Assign
  <2>3. \A key \in DOMAIN default : said(n)[key] = new[key]
    <3>1. CASE k \notin DOMAIN default \/ v = NotANumber
      BY <1>6, <1>7, <2>1, <3>1 DEF Assign
    <3>2. CASE k \in DOMAIN default /\ v # NotANumber
      BY <1>6, <1>7, <2>1, <3>2 DEF Assign
    <3> QED BY <3>1, <3>2
  <2> HIDE DEF new
  <2> QED BY <1>7, <2>2, <2>3 DEF new
<1> QED BY <1>8, <1>9 DEF said

\* The first elements and the last one are the sequence.
LEMMA Completed ==
  ASSUME NEW m \in Nat, NEW f, f = [k \in 1..m |-> f[k]]
  PROVE  [k \in 1..(m - 1) |-> f[k]] \o (IF m = 0 THEN <<>> ELSE <<f[m]>>) = f
<1> DEFINE S == {f[k] : k \in 1..m}
           p == [k \in 1..(m - 1) |-> f[k]]
           c == IF m = 0 THEN <<>> ELSE <<f[m]>>
<1>1. CASE m = 0
  <2>1. p = <<>> /\ f = <<>>
    BY <1>1
  <2>2. c = <<>> /\ <<>> \in Seq(S)
    BY <1>1, EmptySeq
  <2>3. <<>> \o <<>> = <<>>
    BY <2>2, ConcatProperties, EmptySeq
  <2> QED BY <2>1, <2>2, <2>3
<1>2. CASE m # 0
  <2>1. m - 1 \in Nat /\ \A k \in 1..(m - 1) : k \in 1..m
    BY <1>2
  <2>2. p \in Seq(S) /\ Len(p) = m - 1
    <3>1. p \in [1..(m - 1) -> S]
      BY <2>1
    <3>2. p \in Seq(S)
      BY <2>1, <3>1, SeqDef, SMTT(30)
    <3> QED BY <2>1, <3>1, <3>2, LenProperties
  <2>3. c = <<f[m]>> /\ c \in Seq(S) /\ Len(c) = 1 /\ c[1] = f[m]
    <3>1. f[m] \in S
      BY <1>2
    <3> HIDE DEF S
    <3> QED BY <1>2, <3>1
  <2> HIDE DEF S, c
  <2>4. /\ p \o c \in Seq(S) /\ Len(p \o c) = (m - 1) + 1
        /\ \A i \in 1..((m - 1) + 1) : (p \o c)[i] = IF i <= m - 1 THEN p[i] ELSE c[i - (m - 1)]
    <3> HIDE DEF p
    <3>1. /\ p \o c \in Seq(S) /\ Len(p \o c) = Len(p) + Len(c)
          /\ \A i \in 1..(Len(p) + Len(c)) : (p \o c)[i] = IF i <= Len(p) THEN p[i] ELSE c[i - Len(p)]
      BY <2>2, <2>3, ConcatProperties
    <3> QED BY <2>2, <2>3, <3>1
  <2>5. (m - 1) + 1 = m /\ \A i \in 1..m : (i <= m - 1 /\ i \in 1..(m - 1)) \/ (i = m /\ ~(i <= m - 1) /\ i - (m - 1) = 1)
    OBVIOUS
  <2>6. \A i \in 1..m : (p \o c)[i] = f[i]
    BY <2>3, <2>4, <2>5
  <2>7. p \o c = [i \in 1..m |-> (p \o c)[i]]
    BY <2>4, <2>5, LenProperties
  <2> QED BY <2>6, <2>7 DEF c
<1> QED BY <1>1, <1>2

\* No line says nothing.
LEMMA NothingSaid ==
  ASSUME NEW lines, Len(lines) \in Nat, NEW S
  PROVE  /\ Said(lines, S, 0, EmptyInterface) = EmptyInterface
         /\ Said(lines, S, 0, EmptyPeer) = EmptyPeer
<1>1. \A key : {i \in S \cap (1..0) : Gives(lines[i], key)} = {}
  OBVIOUS
<1>2. \A key : Joined(lines, S, key)[0] = <<>>
  BY JoinedStep
<1>3. /\ DOMAIN EmptyInterface = {"privatekey", "address", "dns", "mtu", "jc", "h1"}
      /\ EmptyInterface["address"] = <<>> /\ EmptyInterface["dns"] = <<>>
      /\ EmptyInterface = [key \in DOMAIN EmptyInterface |-> EmptyInterface[key]]
  <2>1. DOMAIN EmptyInterface = {"privatekey", "address", "dns", "mtu", "jc", "h1"}
    BY DEF EmptyInterface
  <2>2. EmptyInterface["address"] = <<>> /\ EmptyInterface["dns"] = <<>>
    BY DEF EmptyInterface
  <2>3. EmptyInterface = [key \in DOMAIN EmptyInterface |-> EmptyInterface[key]]
    BY DEF EmptyInterface
  <2> QED BY <2>1, <2>2, <2>3
<1>4. /\ DOMAIN EmptyPeer =
            {"publickey", "presharedkey", "endpoint", "allowedips", "persistentkeepalive"}
      /\ EmptyPeer["allowedips"] = <<>>
      /\ EmptyPeer = [key \in DOMAIN EmptyPeer |-> EmptyPeer[key]]
  <2>1. DOMAIN EmptyPeer =
          {"publickey", "presharedkey", "endpoint", "allowedips", "persistentkeepalive"}
    BY DEF EmptyPeer
  <2>2. EmptyPeer["allowedips"] = <<>>
    BY DEF EmptyPeer
  <2>3. EmptyPeer = [key \in DOMAIN EmptyPeer |-> EmptyPeer[key]]
    BY DEF EmptyPeer
  <2> QED BY <2>1, <2>2, <2>3
<1>5. ASSUME NEW d, d = [key \in DOMAIN d |-> d[key]],
             \A key \in DOMAIN d : key \in Lists => d[key] = <<>>
      PROVE  Said(lines, S, 0, d) = d
  BY <1>1, <1>2, <1>5 DEF Said
<1>6. /\ \A key \in DOMAIN EmptyInterface : key \in Lists => EmptyInterface[key] = <<>>
      /\ \A key \in DOMAIN EmptyPeer : key \in Lists => EmptyPeer[key] = <<>>
  BY <1>3, <1>4 DEF Lists
<1> QED BY <1>3, <1>4, <1>5, <1>6

\* What the parser's state has to do with the first n lines.  "headers" are the peers'.
Heads(lines, n, headers) ==
    LET m == Len(headers)
        at == HeaderOf(lines, n)
    IN /\ headers \in Seq(Nat)
       /\ at \in 0..n /\ (at # 0 => lines[at].what = "section")
       /\ \A k \in 1..m : /\ headers[k] \in 1..n /\ lines[headers[k]] = Header("peer")
                          /\ headers[k] <= at
                          /\ k # m => headers[k] < headers[m]
       /\ at # 0 /\ lines[at].key = "peer" => m > 0 /\ at = headers[m]

\* One more line has one more header of a peer, or none.
LEMMA HeadsStep ==
  ASSUME NEW lines, Len(lines) \in Nat, NEW n \in 1..Len(lines),
         lines[n].what = "section" => lines[n] = Header(lines[n].key),
         Heads(lines, n - 1, PeerHeaders(lines)[n - 1])
  PROVE  Heads(lines, n, PeerHeaders(lines)[n])
<1> DEFINE old == PeerHeaders(lines)[n - 1]
           new == PeerHeaders(lines)[n]
           at == HeaderOf(lines, n)
           was == HeaderOf(lines, n - 1)
<1>1. n \in Nat \ {0} /\ n - 1 \in Nat
  OBVIOUS
<1>2. at = IF lines[n].what = "section" THEN n ELSE was
  BY <1>1, HeaderStep
<1>3. /\ old \in Seq(Nat)
      /\ was \in 0..(n - 1) /\ (was # 0 => lines[was].what = "section")
      /\ \A k \in 1..Len(old) : /\ old[k] \in 1..(n - 1) /\ lines[old[k]] = Header("peer")
                                /\ old[k] <= was /\ (k # Len(old) => old[k] < old[Len(old)])
      /\ was # 0 /\ lines[was].key = "peer" => Len(old) > 0 /\ was = old[Len(old)]
  BY DEF Heads
<1>4. Len(old) \in Nat /\ DOMAIN old = 1..Len(old)
  BY <1>3, LenProperties
<1>5. new = IF lines[n] = Header("peer") THEN Append(old, n) ELSE old
  BY PeerHeadersStep
<1> HIDE DEF old, new, at, was
<1>6. CASE lines[n] = Header("peer")
  <2>1. /\ new \in Seq(Nat) /\ Len(new) = Len(old) + 1 /\ new[Len(old) + 1] = n
        /\ \A k \in 1..Len(old) : new[k] = old[k]
    BY <1>1, <1>3, <1>5, <1>6, AppendProperties
  <2>2. at = n /\ lines[n].what = "section" /\ lines[n].key = "peer"
    <3>1. lines[n].what = "section" /\ lines[n].key = "peer"
      <4>1. Header("peer").what = "section" /\ Header("peer").key = "peer"
        BY DEF Header
      <4> QED BY <1>6, <4>1
    <3> QED BY <1>2, <3>1
  <2>3. \A k \in 1..Len(old) : old[k] < n /\ old[k] \in 1..n
    BY <1>1, <1>3
  <2>4. \A k \in 1..(Len(old) + 1) : k \in 1..Len(old) \/ k = Len(old) + 1
    BY <1>4
  <2>5. n \in 1..n /\ n \in 0..n /\ n <= n /\ n # 0
    BY <1>1
  <2>6. ASSUME NEW k \in 1..Len(new)
        PROVE  /\ new[k] \in 1..n /\ lines[new[k]] = Header("peer")
               /\ new[k] <= at /\ (k # Len(new) => new[k] < new[Len(new)])
    <3>1. CASE k \in 1..Len(old)
      <4>1. new[k] = old[k] /\ new[Len(new)] = n /\ old[k] < n /\ old[k] \in 1..n
        BY <2>1, <2>3, <3>1
      <4>2. old[k] <= n
        BY <1>1, <4>1
      <4> QED BY <1>3, <2>2, <3>1, <4>1, <4>2
    <3>2. CASE k = Len(old) + 1
      BY <1>6, <2>1, <2>2, <2>5, <3>2
    <3> QED BY <2>1, <2>4, <3>1, <3>2
  <2>7. Len(new) > 0 /\ new[Len(new)] = n
    BY <1>4, <2>1
  <2> QED BY <2>1, <2>2, <2>5, <2>6, <2>7 DEF Heads, new, at
<1>7. CASE lines[n] # Header("peer")
  <2>1. new = old
    BY <1>5, <1>7
  <2>2. /\ at \in 0..n /\ was <= at /\ (at # 0 => lines[at].what = "section")
        /\ at # 0 /\ lines[at].key = "peer" => at = was /\ was # 0
    <3>1. CASE lines[n].what = "section"
      <4>1. lines[n].key # "peer"
        BY <1>7, <3>1
      <4> QED BY <1>1, <1>2, <1>3, <3>1, <4>1
    <3>2. CASE lines[n].what # "section"
      BY <1>1, <1>2, <1>3, <3>2
    <3> QED BY <3>1, <3>2
  <2>3. \A k \in 1..Len(old) : old[k] \in 1..n /\ old[k] <= at
    BY <1>1, <1>3, <2>2
  <2> QED BY <1>3, <2>1, <2>2, <2>3 DEF Heads, new, at
<1> QED BY <1>6, <1>7

\* What stands under a header, of the first n lines, as a peer.
PeerUnder(lines, h, n) == Said(lines, Under(lines, h), n, EmptyPeer)

\* The parser's state after n lines is what they say: the interface's lines, one peer
\* for each header, the last of them still open.
Describes(lines, n, s) ==
    LET headers == PeerHeaders(lines)[n]
        m == Len(headers)
        at == HeaderOf(lines, n)
    IN /\ Heads(lines, n, headers)
       /\ s = [section |-> IF at = 0 THEN "" ELSE lines[at].key,
               interface |-> Said(lines, InInterface(lines), n, EmptyInterface),
               peers |-> [k \in 1..(m - 1) |-> PeerUnder(lines, headers[k], n)],
               current |-> IF m = 0 THEN <<>> ELSE <<PeerUnder(lines, headers[m], n)>>]
       /\ \A h \in Nat : h > n => PeerUnder(lines, h, n) = EmptyPeer

\* Whom a line is for: those under its header.
LEMMA SaidTo ==
  ASSUME NEW lines, Len(lines) \in Nat, DOMAIN lines = 1..Len(lines), NEW n \in 1..Len(lines)
  PROVE  LET at == HeaderOf(lines, n)
             pair == lines[n].what = "pair"
             key == lines[n].key
             value == lines[n].value
             inside == at \in DOMAIN lines /\ lines[at] = Header("interface")
         IN /\ Said(lines, InInterface(lines), n, EmptyInterface) =
                  IF inside /\ pair
                  THEN Assign(Said(lines, InInterface(lines), n - 1, EmptyInterface), key, value)
                  ELSE Said(lines, InInterface(lines), n - 1, EmptyInterface)
            /\ \A h : PeerUnder(lines, h, n) = IF h = at /\ pair
                                               THEN Assign(PeerUnder(lines, h, n - 1), key, value)
                                               ELSE PeerUnder(lines, h, n - 1)
<1>1. n \in InInterface(lines) <=>
         HeaderOf(lines, n) \in DOMAIN lines /\ lines[HeaderOf(lines, n)] = Header("interface")
  BY DEF InInterface, Under
<1>2. \A h : n \in Under(lines, h) <=> h = HeaderOf(lines, n)
  BY DEF Under
<1>3. Said(lines, InInterface(lines), n, EmptyInterface) =
         IF n \in InInterface(lines) /\ lines[n].what = "pair"
         THEN Assign(Said(lines, InInterface(lines), n - 1, EmptyInterface), lines[n].key, lines[n].value)
         ELSE Said(lines, InInterface(lines), n - 1, EmptyInterface)
  BY SaidStep
<1>4. ASSUME NEW h
      PROVE  PeerUnder(lines, h, n) =
                IF n \in Under(lines, h) /\ lines[n].what = "pair"
                THEN Assign(PeerUnder(lines, h, n - 1), lines[n].key, lines[n].value)
                ELSE PeerUnder(lines, h, n - 1)
  BY SaidStep DEF PeerUnder
<1> QED BY <1>1, <1>2, <1>3, <1>4

\* One more line, in the parser and in the meaning.
LEMMA DescribesStep ==
  ASSUME NEW lines, Len(lines) \in Nat, DOMAIN lines = 1..Len(lines), NEW n \in 1..Len(lines),
         lines[n].what = "section" => lines[n] = Header(lines[n].key),
         \A i \in 1..Len(lines) : lines[i].what = "section" => lines[i] = Header(lines[i].key),
         NEW s, Describes(lines, n - 1, s)
  PROVE  Describes(lines, n, ParseLine(s, lines[n]))
<1> DEFINE this == lines[n]
           t == ParseLine(s, this)
           old == PeerHeaders(lines)[n - 1]
           new == PeerHeaders(lines)[n]
           m == Len(old)
           at == HeaderOf(lines, n)
           was == HeaderOf(lines, n - 1)
           before == Said(lines, InInterface(lines), n - 1, EmptyInterface)
           after == Said(lines, InInterface(lines), n, EmptyInterface)
           P(h) == PeerUnder(lines, h, n - 1)
           Q(h) == PeerUnder(lines, h, n)
           inside == at \in DOMAIN lines /\ lines[at] = Header("interface")
<1>1. n \in Nat \ {0} /\ n - 1 \in Nat /\ n \in DOMAIN lines
  OBVIOUS
<1>2. Heads(lines, n - 1, old)
  BY DEF Describes
<1>3. Heads(lines, n, new)
  BY <1>2, HeadsStep
<1>4. at = IF this.what = "section" THEN n ELSE was
  BY <1>1, HeaderStep
<1>5. /\ after = IF inside /\ this.what = "pair" THEN Assign(before, this.key, this.value) ELSE before
      /\ \A h : Q(h) = IF h = at /\ this.what = "pair" THEN Assign(P(h), this.key, this.value) ELSE P(h)
  BY SaidTo
<1>6. new = IF this = Header("peer") THEN Append(old, n) ELSE old
  BY PeerHeadersStep
<1>7. /\ s = [section |-> IF was = 0 THEN "" ELSE lines[was].key, interface |-> before,
              peers |-> [k \in 1..(m - 1) |-> P(old[k])],
              current |-> IF m = 0 THEN <<>> ELSE <<P(old[m])>>]
      /\ \A h \in Nat : h > n - 1 => P(h) = EmptyPeer
  BY DEF Describes
<1>8. /\ old \in Seq(Nat) /\ m \in Nat /\ was \in 0..(n - 1)
      /\ \A k \in 1..m : /\ old[k] \in 1..(n - 1) /\ lines[old[k]] = Header("peer")
                         /\ old[k] <= was /\ (k # m => old[k] < old[m])
      /\ was # 0 => lines[was].what = "section"
      /\ was # 0 /\ lines[was].key = "peer" => m > 0 /\ was = old[m]
  BY <1>2, LenProperties DEF Heads
<1>9. at \in 0..n
  BY <1>3 DEF Heads
<1>10. \A h \in Nat : h > n => Q(h) = EmptyPeer
  <2> SUFFICES ASSUME NEW h \in Nat, h > n PROVE Q(h) = EmptyPeer
    OBVIOUS
  <2>1. h # at /\ h > n - 1
    BY <1>1, <1>9
  <2> QED BY <1>5, <1>7, <2>1
<1>11. /\ Header("peer").what = "section" /\ Header("peer").key = "peer"
       /\ Header("interface").what = "section" /\ Header("interface").key = "interface"
  BY DEF Header
<1> HIDE DEF this, t, old, new, at, was, before, after, P, Q, inside
<1>12. t = [section |-> IF at = 0 THEN "" ELSE lines[at].key, interface |-> after,
            peers |-> [k \in 1..(Len(new) - 1) |-> Q(new[k])],
            current |-> IF Len(new) = 0 THEN <<>> ELSE <<Q(new[Len(new)])>>]
  <2>1. CASE this = Header("peer")
    <3>1. this.what = "section" /\ this.key = "peer" /\ this.what # "pair" /\ at = n /\ n # 0
      BY <1>1, <1>4, <1>11, <2>1
    <3>2. after = before /\ \A h : Q(h) = P(h)
      BY <1>5, <3>1
    <3>3. t = [section |-> "peer", interface |-> before,
               peers |-> [k \in 1..(m - 1) |-> P(old[k])] \o IF m = 0 THEN <<>> ELSE <<P(old[m])>>,
               current |-> <<EmptyPeer>>]
      BY <1>7, <3>1 DEF ParseLine, EnterSection, t
    <3>4. [k \in 1..(m - 1) |-> P(old[k])] \o (IF m = 0 THEN <<>> ELSE <<P(old[m])>>)
             = [k \in 1..m |-> P(old[k])]
      <4> DEFINE f == [k \in 1..m |-> P(old[k])]
      <4>1. f = [k \in 1..m |-> f[k]]
        OBVIOUS
      <4>2. [k \in 1..(m - 1) |-> P(old[k])] = [k \in 1..(m - 1) |-> f[k]]
        BY <1>8
      <4>3. m # 0 => P(old[m]) = f[m]
        BY <1>8
      <4> HIDE DEF f
      <4>4. [k \in 1..(m - 1) |-> f[k]] \o (IF m = 0 THEN <<>> ELSE <<f[m]>>) = f
        BY <1>8, <4>1, Completed
      <4> QED BY <4>2, <4>3, <4>4 DEF f
    <3>5. Len(new) = m + 1 /\ new[m + 1] = n /\ \A k \in 1..m : new[k] = old[k]
      BY <1>1, <1>6, <1>8, <2>1, AppendProperties DEF m
    <3>6. Len(new) - 1 = m /\ Len(new) # 0
      BY <1>8, <3>5
    <3>7. [k \in 1..(Len(new) - 1) |-> Q(new[k])] = [k \in 1..m |-> P(old[k])]
      BY <3>2, <3>5, <3>6
    <3>8. Q(new[Len(new)]) = EmptyPeer
      <4>1. n > n - 1 /\ n \in Nat
        BY <1>1
      <4> QED BY <1>7, <3>2, <3>5, <4>1
    <3>9. lines[at].key = "peer"
      BY <3>1 DEF this
    <3> QED BY <3>1, <3>2, <3>3, <3>4, <3>6, <3>7, <3>8, <3>9
  <2>2. CASE this # Header("peer")
    <3>1. new = old
      BY <1>6, <2>2
    <3>2. CASE this.what = "section"
      <4>1. this.key # "peer" /\ at = n /\ n # 0 /\ lines[at].key = this.key
        BY <1>1, <1>4, <2>2, <3>2 DEF this
      <4>2. after = before /\ \A h : Q(h) = P(h)
        BY <1>5, <3>2
      <4>3. t = [s EXCEPT !.section = this.key]
        BY <3>2, <4>1 DEF ParseLine, EnterSection, t
      <4> QED BY <1>7, <3>1, <4>1, <4>2, <4>3 DEF m
    <3>3. CASE this.what = "pair" /\ was # 0 /\ lines[was].key = "interface"
      <4>1. at = was /\ inside
        BY <1>1, <1>4, <1>8, <3>3 DEF inside
      <4>2. after = Assign(before, this.key, this.value)
        BY <1>5, <3>3, <4>1
      <4>3. \A k \in 1..m : Q(old[k]) = P(old[k])
        <5>1. \A k \in 1..m : old[k] # at
          BY <1>8, <1>11, <3>3, <4>1
        <5> QED BY <1>5, <5>1
      <4>4. t = [s EXCEPT !.interface = Assign(@, this.key, this.value)]
        BY <1>7, <3>3 DEF ParseLine, t
      <4>5. /\ [k \in 1..(m - 1) |-> Q(old[k])] = [k \in 1..(m - 1) |-> P(old[k])]
            /\ m # 0 => Q(old[m]) = P(old[m])
        <5>1. (\A k \in 1..(m - 1) : k \in 1..m) /\ (m # 0 => m \in 1..m)
          BY <1>8
        <5> QED BY <4>3, <5>1
      <4> QED BY <1>7, <3>1, <3>3, <4>1, <4>2, <4>4, <4>5 DEF m
    <3>4. CASE this.what = "pair" /\ was # 0 /\ lines[was].key = "peer"
      <4>1. at = was /\ m > 0 /\ m # 0 /\ was = old[m] /\ ~inside
        BY <1>4, <1>8, <1>11, <3>4 DEF inside
      <4>2. after = before /\ Q(old[m]) = Assign(P(old[m]), this.key, this.value)
        BY <1>5, <3>4, <4>1
      <4>3. \A k \in 1..(m - 1) : Q(old[k]) = P(old[k])
        <5>1. \A k \in 1..(m - 1) : k \in 1..m /\ k # m
          BY <1>8
        <5>2. \A k \in 1..m : k # m => old[k] \in 1..(n - 1) /\ old[k] < old[m]
          BY <1>8
        <5>3. old[m] \in Int /\ old[m] = at
          BY <1>8, <4>1
        <5>4. ASSUME NEW k \in 1..(m - 1) PROVE old[k] # at
          <6>1. old[k] \in Int /\ old[k] < old[m]
            BY <1>1, <5>1, <5>2, SMTT(30)
          <6> QED BY <5>3, <6>1
        <5> QED BY <1>5, <5>4
      <4>4. s.current = <<P(old[m])>> /\ s.section = "peer"
        BY <1>7, <3>4, <4>1
      <4>5. t = [s EXCEPT !.current = <<Assign(P(old[m]), this.key, this.value)>>]
        BY <3>4, <4>4 DEF ParseLine, t
      <4> QED BY <1>7, <3>1, <3>4, <4>1, <4>2, <4>3, <4>5 DEF m
    <3>5. CASE this.what # "section" /\ ~(this.what = "pair" /\ was # 0 /\ lines[was].key \in {"interface", "peer"})
      <4>1. at = was
        BY <1>4, <3>5
      <4>2. after = before /\ \A k \in 1..m : Q(old[k]) = P(old[k])
        <5>1. this.what = "pair" => ~inside
          BY <1>11, <3>5, <4>1 DEF inside
        <5>2. this.what = "pair" => \A k \in 1..m : old[k] # at
          BY <1>8, <1>11, <3>5, <4>1
        <5> QED BY <1>5, <5>1, <5>2
      <4>3. t = s
        BY <1>7, <3>5 DEF ParseLine, t
      <4>4. /\ [k \in 1..(m - 1) |-> Q(old[k])] = [k \in 1..(m - 1) |-> P(old[k])]
            /\ m # 0 => Q(old[m]) = P(old[m])
        <5>1. (\A k \in 1..(m - 1) : k \in 1..m) /\ (m # 0 => m \in 1..m)
          BY <1>8
        <5> QED BY <4>2, <5>1
      <4> QED BY <1>7, <3>1, <4>1, <4>2, <4>3, <4>4 DEF m
    <3> QED BY <3>2, <3>3, <3>4, <3>5
  <2> QED BY <2>1, <2>2
<1> QED BY <1>3, <1>10, <1>12 DEF Describes, t, this, new, at, after, Q

\* The parser finds in a file what its sections say, whatever they are and in whatever
\* order.
LEMMA ParseIsMeaning ==
  ASSUME NEW L, NEW lines \in Seq(L), \A l \in L : l.what = "section" => l = Header(l.key)
  PROVE  Parse(lines) = Meaning(lines)
<1> DEFINE N == Len(lines)
           state == ParsedLines(lines)
           Right(n) == Describes(lines, n, state[n])
           S == {n \in 0..N : Right(n)}
<1>1. N \in Nat /\ DOMAIN lines = 1..N /\ \A i \in 1..N : lines[i] \in L
  BY LenProperties, ElementOfSeq
<1>2. state[0] = NothingParsed /\ \A n \in 1..N : state[n] = ParseLine(state[n - 1], lines[n])
  BY <1>1, ParsedLinesStep
<1>3. \A i \in 1..N : lines[i].what = "section" => lines[i] = Header(lines[i].key)
  BY <1>1
<1> HIDE DEF state
<1>4. Right(0)
  <2>1. PeerHeaders(lines)[0] = <<>> /\ HeaderOf(lines, 0) = 0
    BY <1>1, PeerHeadersStep, HeaderStep, 1 \in Nat \ {0}
  <2>2. Heads(lines, 0, <<>>)
    BY <2>1, EmptySeq DEF Heads
  <2>3. [k \in 1..(0 - 1) |-> PeerUnder(lines, <<>>[k], 0)] = <<>>
    OBVIOUS
  <2>4. /\ Said(lines, InInterface(lines), 0, EmptyInterface) = EmptyInterface
        /\ \A h : PeerUnder(lines, h, 0) = EmptyPeer
    BY <1>1, NothingSaid DEF PeerUnder
  <2>5. Len(<<>>) = 0
    BY EmptySeq
  <2> QED BY <1>2, <2>1, <2>2, <2>3, <2>4, <2>5, ZenonT(60) DEF Describes, NothingParsed
<1>5. ASSUME NEW n \in 1..N, Right(n - 1) PROVE Right(n)
  <2>1. Describes(lines, n, ParseLine(state[n - 1], lines[n]))
    BY <1>1, <1>3, <1>5, DescribesStep
  <2> QED BY <1>2, <2>1
<1>6. 0 \in S /\ \A n \in 1..N : n - 1 \in S => n \in S
  BY <1>1, <1>4, <1>5
<1> HIDE DEF S
<1>7. Right(N)
  <2>1. 0..N \subseteq S
    BY <1>1, <1>6, Induction
  <2> QED BY <1>1, <2>1 DEF S
<1> DEFINE headers == PeerHeaders(lines)[N]
           m == Len(headers)
           f == [k \in 1..m |-> PeerUnder(lines, headers[k], N)]
<1>8. m \in Nat /\ DOMAIN headers = 1..m
  BY <1>7, LenProperties DEF Describes, Heads
<1>9. /\ Parse(lines).interface = Said(lines, InInterface(lines), N, EmptyInterface)
      /\ Parse(lines).peers = [k \in 1..(m - 1) |-> PeerUnder(lines, headers[k], N)]
                              \o IF m = 0 THEN <<>> ELSE <<PeerUnder(lines, headers[m], N)>>
      /\ Parse(lines) = [interface |-> Parse(lines).interface, peers |-> Parse(lines).peers]
  <2> DEFINE inter == Said(lines, InInterface(lines), N, EmptyInterface)
             first == [k \in 1..(m - 1) |-> PeerUnder(lines, headers[k], N)]
             open == IF m = 0 THEN <<>> ELSE <<PeerUnder(lines, headers[m], N)>>
             section == IF HeaderOf(lines, N) = 0 THEN "" ELSE lines[HeaderOf(lines, N)].key
  <2>1. Parse(lines) = [interface |-> state[N].interface, peers |-> state[N].peers \o state[N].current]
    BY DEF Parse, Parsed, state
  <2>2. state[N] = [section |-> section, interface |-> inter, peers |-> first, current |-> open]
    BY <1>7 DEF Describes
  <2> HIDE DEF N, headers, m, inter, first, open, section
  <2>3. Parse(lines) = [interface |-> inter, peers |-> first \o open]
    BY <2>1, <2>2
  <2>4. Parse(lines).interface = inter /\ Parse(lines).peers = first \o open
    BY <2>3
  <2> QED BY <2>3, <2>4 DEF inter, first, open
<1>10. [k \in 1..(m - 1) |-> PeerUnder(lines, headers[k], N)]
          \o (IF m = 0 THEN <<>> ELSE <<PeerUnder(lines, headers[m], N)>>) = f
  <2>1. f = [k \in 1..m |-> f[k]]
    OBVIOUS
  <2>2. /\ \A k \in 1..(m - 1) : k \in 1..m /\ f[k] = PeerUnder(lines, headers[k], N)
        /\ m # 0 => f[m] = PeerUnder(lines, headers[m], N)
    BY <1>8
  <2> HIDE DEF f, m, N, headers
  <2>3. [k \in 1..(m - 1) |-> f[k]] \o (IF m = 0 THEN <<>> ELSE <<f[m]>>) = f
    BY <1>8, <2>1, Completed
  <2> QED BY <2>2, <2>3
<1>11. Meaning(lines) =
          [interface |-> Said(lines, InInterface(lines), N, EmptyInterface), peers |-> f]
  BY <1>8 DEF Meaning, PeerUnder
<1> HIDE DEF N, f, m, headers
<1> QED BY <1>9, <1>10, <1>11

-----------------------------------------------------------------------------
(* What is written for the device, and what the device makes of it *)

\* What is written for the device, and what a device keeps of it, for values in V.
UAPIKeys == {"private_key", "jc", "h1", "replace_peers", "public_key", "preshared_key",
             "endpoint", "persistent_keepalive_interval", "allowed_ip"}
UAPILines(V) == UAPIKeys \X V
CIDRs == CIDRs4 \cup CIDRs6
PeerStates(V) == [key : V, presharedkey : V, endpoint : V, keepalive : V]
Devices(V) ==
    [ok : BOOLEAN, private : V, jc : V, h1 : V, at : Keys \cup {Empty},
     peers : [Keys -> PeerStates(V)], allowed : [CIDRs -> V]]
Known(V) == Keys \cup {Empty, 0, "true"} \subseteq V

\* A device that has read nothing.
LEMMA NewDeviceType ==
  ASSUME NEW V, Known(V)
  PROVE  NewDevice \in Devices(V)
<1>1. NoPeer \in PeerStates(V)
  BY DEF Known, NoPeer, PeerStates
<1>2. [k \in Keys |-> NoPeer] \in [Keys -> PeerStates(V)]
  BY <1>1
<1>3. [p \in CIDRs |-> Empty] \in [CIDRs -> V]
  BY DEF Known
<1> QED BY <1>2, <1>3 DEF NewDevice, Devices, Known, CIDRs

\* A field of the peer the lines are about.
LEMMA SetPeerType ==
  ASSUME NEW V, Known(V), NEW d \in Devices(V), NEW v \in V,
         NEW f \in {"presharedkey", "endpoint", "keepalive"}
  PROVE  /\ SetPeer(d, f, v) \in Devices(V)
         /\ ~d.ok => ~SetPeer(d, f, v).ok
<1>1. CASE d.at = Empty
  BY <1>1 DEF SetPeer, Devices
<1>2. CASE d.at # Empty
  <2>1. d.at \in Keys /\ d.peers \in [Keys -> PeerStates(V)]
    BY <1>2 DEF Devices
  <2>2. [d.peers[d.at] EXCEPT ![f] = v] \in PeerStates(V)
    <3>1. d.peers[d.at] \in PeerStates(V)
      BY <2>1
    <3> QED BY <3>1 DEF PeerStates
  <2>3. [d.peers EXCEPT ![d.at] = [d.peers[d.at] EXCEPT ![f] = v]] \in [Keys -> PeerStates(V)]
    BY <2>1, <2>2
  <2>4. SetPeer(d, f, v) = [d EXCEPT !.peers = [d.peers EXCEPT ![d.at] = [d.peers[d.at] EXCEPT ![f] = v]]]
    BY <1>2 DEF SetPeer
  <2> QED BY <2>3, <2>4 DEF Devices
<1> QED BY <1>1, <1>2

\* The device never takes back that it has rejected a line.
LEMMA IpcLineType ==
  ASSUME NEW V, Known(V), NEW d \in Devices(V), NEW l \in UAPILines(V)
  PROVE  /\ IpcLine(d, l) \in Devices(V)
         /\ ~d.ok => ~IpcLine(d, l).ok
<1> DEFINE v == l[2]
<1>1. l[1] \in UAPIKeys /\ v \in V
  BY DEF UAPILines
<1> HIDE DEF v
<1>2. CASE l[1] \in {"private_key", "jc", "h1"}
  BY <1>1, <1>2 DEF IpcLine, Devices, v
<1>3. CASE l[1] = "replace_peers"
  BY <1>3, NewDeviceType DEF IpcLine, Devices
<1>4. CASE l[1] = "public_key"
  <2>1. CASE v \notin Keys
    BY <1>4, <2>1 DEF IpcLine, Devices, v
  <2>2. CASE v \in Keys
    <3>1. d.peers \in [Keys -> PeerStates(V)] /\ d.peers[v] \in PeerStates(V)
      BY <2>2 DEF Devices
    <3>2. [d.peers[v] EXCEPT !.key = v] \in PeerStates(V)
      BY <1>1, <3>1 DEF PeerStates
    <3>3. [d.peers EXCEPT ![v] = [d.peers[v] EXCEPT !.key = v]] \in [Keys -> PeerStates(V)]
      BY <3>1, <3>2
    <3>4. IpcLine(d, l) = [d EXCEPT !.at = v, !.peers = [d.peers EXCEPT ![v] = [d.peers[v] EXCEPT !.key = v]]]
      BY <1>4, <2>2 DEF IpcLine, v
    <3> QED BY <2>2, <3>3, <3>4 DEF Devices
  <2> QED BY <2>1, <2>2
<1>5. CASE l[1] = "preshared_key"
  BY <1>1, <1>5, SetPeerType DEF IpcLine, v
<1>6. CASE l[1] = "endpoint"
  <2>1. CASE v \in Literal
    BY <1>1, <1>6, <2>1, SetPeerType DEF IpcLine, v
  <2>2. CASE v \notin Literal
    BY <1>6, <2>2 DEF IpcLine, Devices, v
  <2> QED BY <2>1, <2>2
<1>7. CASE l[1] = "persistent_keepalive_interval"
  BY <1>1, <1>7, SetPeerType DEF IpcLine, v
<1>8. CASE l[1] = "allowed_ip"
  <2>1. CASE v \notin CIDRs \/ d.at = Empty
    BY <1>8, <2>1 DEF IpcLine, Devices, v, CIDRs
  <2>2. CASE v \in CIDRs /\ d.at # Empty
    <3>1. IpcLine(d, l) = [d EXCEPT !.allowed = [d.allowed EXCEPT ![v] = d.at]]
      BY <1>8, <2>2 DEF IpcLine, v, CIDRs
    <3>2. d.at \in V /\ d.allowed \in [CIDRs -> V]
      BY DEF Devices, Known
    <3>3. [d.allowed EXCEPT ![v] = d.at] \in [CIDRs -> V]
      BY <3>2
    <3> QED BY <3>1, <3>3 DEF Devices
  <2> QED BY <2>1, <2>2
<1> QED BY <1>1, <1>2, <1>3, <1>4, <1>5, <1>6, <1>7, <1>8 DEF UAPIKeys

\* A function that goes on line by line is what the device reads.
LEMMA ReadIs ==
  ASSUME NEW d, NEW lines, Len(lines) \in Nat, NEW f,
         f[0] = d, \A n \in 1..Len(lines) : f[n] = IpcLine(f[n - 1], lines[n])
  PROVE  IpcRead(d, lines) = f[Len(lines)]
<1> DEFINE N == Len(lines)
           Row(s, n) == IpcLine(s, lines[n])
           Is(g) == g = [n \in 0..N |-> IF n = 0 THEN d ELSE Row(g[n - 1], n)]
           read == CHOOSE g : Is(g)
           S == {n \in 0..N : read[n] = f[n]}
           g == [n \in 0..N |-> f[n]]
<1>1. IpcRead(d, lines) = read[N]
  BY DEF IpcRead
<1>2. N \in Nat /\ f[0] = d /\ \A n \in 1..N : f[n] = Row(f[n - 1], n)
  OBVIOUS
<1> HIDE DEF N, Row
<1>3. 0 \in 0..N /\ N \in 0..N /\ \A n \in 1..N : n \in 0..N /\ n # 0 /\ n - 1 \in 0..N
  BY <1>2
<1>4. \A n \in 0..N : n = 0 \/ n \in 1..N
  BY <1>2
<1>5. Is(g)
  BY <1>2, <1>3, <1>4
<1> HIDE DEF g
<1>6. Is(read)
  <2> HIDE DEF Is
  <2> QED BY <1>5
<1> HIDE DEF read
<1>7. 0 \in S /\ \A n \in 1..N : n - 1 \in S => n \in S
  BY <1>2, <1>3, <1>6
<1> HIDE DEF S
<1>8. 0..N \subseteq S
  BY <1>2, <1>7, Induction
<1> QED BY <1>1, <1>3, <1>8 DEF S, N

\* The devices from line to line.
LEMMA ReadStates ==
  ASSUME NEW V, Known(V), NEW d \in Devices(V), NEW lines \in Seq(UAPILines(V))
  PROVE  \E f \in [0..Len(lines) -> Devices(V)] :
            f[0] = d /\ \A n \in 1..Len(lines) : f[n] = IpcLine(f[n - 1], lines[n])
<1> DEFINE N == Len(lines)
           D == Devices(V)
           step == [x \in (1..N) \X D |-> IpcLine(x[2], lines[x[1]])]
<1>1. N \in Nat /\ \A n \in 1..N : lines[n] \in UAPILines(V)
  BY LenProperties, ElementOfSeq
<1>2. step \in [(1..N) \X D -> D]
  BY <1>1, IpcLineType
<1>3. \A n \in 1..N : \A s \in D : step[<<n, s>>] = IpcLine(s, lines[n])
  OBVIOUS
<1> HIDE DEF N, D, step
<1>4. PICK f \in [0..N -> D] : Recurs(f, N, d, step)
  BY <1>1, <1>2, Recursion DEF D
<1>5. \A n \in 1..N : n - 1 \in 0..N
  BY <1>1
<1>6. ASSUME NEW n \in 1..N PROVE f[n] = IpcLine(f[n - 1], lines[n])
  <2>1. f[n] = step[<<n, f[n - 1]>>]
    BY <1>4 DEF Recurs
  <2>2. f[n - 1] \in D
    BY <1>4, <1>5
  <2> QED BY <1>3, <2>1, <2>2
<1>7. f[0] = d
  BY <1>4 DEF Recurs
<1> QED BY <1>4, <1>6, <1>7 DEF N, D

\* What is read stays a device, and a rejected line stays rejected.
LEMMA ReadType ==
  ASSUME NEW V, Known(V), NEW d \in Devices(V), NEW lines \in Seq(UAPILines(V))
  PROVE  /\ IpcRead(d, lines) \in Devices(V)
         /\ ~d.ok => ~IpcRead(d, lines).ok
<1> DEFINE N == Len(lines)
<1>1. N \in Nat /\ \A n \in 1..N : lines[n] \in UAPILines(V)
  BY LenProperties, ElementOfSeq
<1>2. PICK f \in [0..N -> Devices(V)] :
        f[0] = d /\ \A n \in 1..N : f[n] = IpcLine(f[n - 1], lines[n])
  BY ReadStates
<1>3. IpcRead(d, lines) = f[N]
  BY <1>1, <1>2, ReadIs
<1> DEFINE S == {n \in 0..N : ~f[n].ok}
<1> HIDE DEF N
<1>4. N \in 0..N /\ \A n \in 1..N : n - 1 \in 0..N /\ n \in 0..N
  BY <1>1
<1>5. ASSUME ~d.ok PROVE ~f[N].ok
  <2>1. 0 \in S
    BY <1>1, <1>2, <1>5
  <2>2. \A n \in 1..N : n - 1 \in S => n \in S
    BY <1>1, <1>2, <1>4, IpcLineType
  <2> HIDE DEF S
  <2>3. 0..N \subseteq S
    BY <1>1, <2>1, <2>2, Induction
  <2> QED BY <1>4, <2>3 DEF S
<1> QED BY <1>2, <1>3, <1>4, <1>5 DEF N

\* To read one text after another is to read both.
LEMMA ReadConcat ==
  ASSUME NEW V, Known(V), NEW d \in Devices(V),
         NEW a \in Seq(UAPILines(V)), NEW b \in Seq(UAPILines(V))
  PROVE  a \o b \in Seq(UAPILines(V)) /\ IpcRead(d, a \o b) = IpcRead(IpcRead(d, a), b)
<1> DEFINE A == Len(a)
           B == Len(b)
           c == a \o b
<1>1. A \in Nat /\ B \in Nat
  BY LenProperties
<1>2. /\ c \in Seq(UAPILines(V)) /\ Len(c) = A + B
      /\ \A i \in 1..(A + B) : c[i] = IF i <= A THEN a[i] ELSE b[i - A]
  BY ConcatProperties
<1> HIDE DEF A, B, c
<1>3. PICK f \in [0..A -> Devices(V)] : f[0] = d /\ \A n \in 1..A : f[n] = IpcLine(f[n - 1], a[n])
  BY ReadStates DEF A
<1>4. IpcRead(d, a) = f[A] /\ f[A] \in Devices(V)
  BY <1>1, <1>3, ReadIs DEF A
<1> DEFINE m == f[A]
<1> HIDE DEF m
<1>5. PICK g \in [0..B -> Devices(V)] : g[0] = m /\ \A n \in 1..B : g[n] = IpcLine(g[n - 1], b[n])
  <2>1. m \in Devices(V)
    BY <1>4 DEF m
  <2>2. \E g \in [0..Len(b) -> Devices(V)] :
            g[0] = m /\ \A n \in 1..Len(b) : g[n] = IpcLine(g[n - 1], b[n])
    BY <2>1, ReadStates
  <2> QED BY <2>2 DEF B
<1>6. IpcRead(m, b) = g[B]
  BY <1>1, <1>5, ReadIs DEF B
<1> DEFINE h == [n \in 0..(A + B) |-> IF n <= A THEN f[n] ELSE g[n - A]]
<1>7. h[0] = d
  BY <1>1, <1>3
<1>8. ASSUME NEW n \in 1..(A + B) PROVE h[n] = IpcLine(h[n - 1], c[n])
  <2>1. n \in 0..(A + B) /\ n - 1 \in 0..(A + B)
    BY <1>1
  <2>2. CASE n <= A
    <3>1. n \in 1..A /\ n - 1 <= A
      BY <1>1, <2>2
    <3> QED BY <1>2, <1>3, <2>1, <2>2, <3>1
  <2>3. CASE n = A + 1
    <3>1. n - A = 1 /\ ~(n <= A) /\ n - 1 <= A /\ n - 1 = A /\ 1 \in 1..B /\ 1 - 1 = 0
      BY <1>1, <2>3
    <3>2. h[n - 1] = f[A] /\ h[n] = g[1] /\ c[n] = b[1]
      BY <1>2, <2>1, <3>1
    <3>3. g[1] = IpcLine(g[1 - 1], b[1])
      BY <1>5, <3>1
    <3> HIDE DEF h
    <3> QED BY <1>5, <3>1, <3>2, <3>3 DEF m
  <2>4. CASE n > A + 1
    <3>1. n - A \in 1..B /\ ~(n <= A) /\ ~(n - 1 <= A) /\ (n - 1) - A = (n - A) - 1
      BY <1>1, <2>4
    <3>2. h[n - 1] = g[(n - A) - 1] /\ h[n] = g[n - A] /\ c[n] = b[n - A]
      BY <1>2, <2>1, <3>1
    <3> HIDE DEF h
    <3> QED BY <1>5, <3>1, <3>2
  <2> QED BY <1>1, <2>2, <2>3, <2>4
<1>9. h[A + B] = g[B]
  <2>1. A + B \in 0..(A + B) /\ (A + B <= A => B = 0) /\ (A + B) - A = B
    BY <1>1
  <2>2. B = 0 => A + B = A
    BY <1>1
  <2> QED BY <1>5, <2>1, <2>2 DEF m
<1> HIDE DEF h
<1>10. IpcRead(d, c) = h[A + B]
  <2>1. Len(c) \in Nat /\ \A n \in 1..Len(c) : h[n] = IpcLine(h[n - 1], c[n])
    BY <1>1, <1>2, <1>8
  <2>2. IpcRead(d, c) = h[Len(c)]
    BY <1>7, <2>1, ReadIs
  <2> QED BY <1>2, <2>2
<1> QED BY <1>2, <1>4, <1>6, <1>9, <1>10 DEF c, m

\* To read one line.
LEMMA ReadOne ==
  ASSUME NEW V, Known(V), NEW d \in Devices(V), NEW l \in UAPILines(V)
  PROVE  <<l>> \in Seq(UAPILines(V)) /\ IpcRead(d, <<l>>) = IpcLine(d, l)
<1> DEFINE lines == <<l>>
           f == [n \in 0..1 |-> IF n = 0 THEN d ELSE IpcLine(d, l)]
<1>1. lines \in Seq(UAPILines(V)) /\ Len(lines) = 1 /\ lines[1] = l
  OBVIOUS
<1>2. f[0] = d /\ f[1] = IpcLine(d, l)
  OBVIOUS
<1> HIDE DEF f, lines
<1>3. \A n \in 1..1 : f[n] = IpcLine(f[n - 1], lines[n])
  <2>1. \A n \in 1..1 : n = 1 /\ n - 1 = 0
    OBVIOUS
  <2> QED BY <1>1, <1>2, <2>1
<1>4. IpcRead(d, lines) = f[1]
  <2>1. Len(lines) \in Nat /\ \A n \in 1..Len(lines) : f[n] = IpcLine(f[n - 1], lines[n])
    BY <1>1, <1>3
  <2>2. IpcRead(d, lines) = f[Len(lines)]
    BY <1>2, <2>1, ReadIs
  <2> QED BY <1>1, <2>2
<1> QED BY <1>1, <1>2, <1>4 DEF lines

\* To read nothing.
LEMMA ReadNone ==
  ASSUME NEW V, NEW d
  PROVE  <<>> \in Seq(UAPILines(V)) /\ IpcRead(d, <<>>) = d
<1> DEFINE f == [n \in 0..0 |-> d]
<1>1. <<>> \in Seq(UAPILines(V)) /\ Len(<<>>) = 0 /\ f[0] = d /\ \A n \in 1..0 : FALSE
  BY EmptySeq
<1> HIDE DEF f
<1>2. \A n \in 1..Len(<<>>) : f[n] = IpcLine(f[n - 1], <<>>[n])
  BY <1>1
<1>3. IpcRead(d, <<>>) = f[Len(<<>>)]
  BY <1>1, <1>2, ReadIs
<1> QED BY <1>1, <1>3

\* The prefixes of a peer are all taken, or the device rejects them.
LEMMA ReadAllowed ==
  ASSUME NEW V, Known(V), NEW d \in Devices(V), d.at # Empty, NEW ps \in Seq(V)
  PROVE  LET lines == [i \in DOMAIN ps |-> <<"allowed_ip", ps[i]>>]
             r == IpcRead(d, lines)
         IN /\ r.ok <=> d.ok /\ Range(ps) \subseteq CIDRs
            /\ r.private = d.private /\ r.jc = d.jc /\ r.h1 = d.h1 /\ r.at = d.at
            /\ r.peers = d.peers
            /\ \A x \in CIDRs : r.allowed[x] = IF x \in Range(ps) THEN d.at ELSE d.allowed[x]
<1> DEFINE N == Len(ps)
           lines == [i \in DOMAIN ps |-> <<"allowed_ip", ps[i]>>]
           ok(n) == d.ok /\ \A i \in 1..n : ps[i] \in CIDRs
           taken(n) == [p \in CIDRs |-> IF \E i \in 1..n : ps[i] = p THEN d.at ELSE d.allowed[p]]
           With(o, t) == [ok |-> o, private |-> d.private, jc |-> d.jc, h1 |-> d.h1, at |-> d.at,
                          peers |-> d.peers, allowed |-> t]
           f == [n \in 0..N |-> With(ok(n), taken(n))]
<1>1. N \in Nat /\ DOMAIN ps = 1..N /\ \A i \in 1..N : ps[i] \in V
  BY LenProperties, ElementOfSeq
<1>2. lines \in Seq(UAPILines(V)) /\ Len(lines) = N /\ \A i \in 1..N : lines[i] = <<"allowed_ip", ps[i]>>
  <2>1. lines \in [1..N -> UAPILines(V)]
    BY <1>1 DEF UAPILines, UAPIKeys
  <2>2. lines \in Seq(UAPILines(V))
    BY <1>1, <2>1, SeqDef
  <2>3. \A i \in 1..N : lines[i] = <<"allowed_ip", ps[i]>>
    BY <1>1
  <2> HIDE DEF lines, N
  <2>4. Len(lines) = N
    BY <1>1, <2>1, <2>2, LenProperties
  <2> QED BY <2>2, <2>3, <2>4
<1>3. d.ok \in BOOLEAN /\ d.allowed \in [CIDRs -> V]
  BY DEF Devices
<1>4. d = With(d.ok, d.allowed)
  BY DEF Devices
<1>10. f[0] = d
  <2>1. 0 \in 0..N /\ 1..0 = {}
    BY <1>1
  <2>2. ok(0) = d.ok
    BY <1>3, <2>1
  <2>3. taken(0) = [p \in CIDRs |-> d.allowed[p]]
    BY <2>1
  <2> HIDE DEF ok, taken
  <2>4. taken(0) = d.allowed
    BY <1>3, <2>3
  <2> HIDE DEF With
  <2> QED BY <1>4, <2>1, <2>2, <2>4
<1>5. ASSUME NEW n \in 1..N PROVE f[n] = IpcLine(f[n - 1], lines[n])
  <2> DEFINE s == f[n - 1]
             v == ps[n]
  <2>1. n \in 0..N /\ n - 1 \in 0..N /\ 1..n = 1..(n - 1) \cup {n}
    BY <1>1
  <2>2. f[n] = With(ok(n), taken(n)) /\ s = With(ok(n - 1), taken(n - 1))
    BY <2>1
  <2>3. ok(n) = (ok(n - 1) /\ v \in CIDRs)
    BY <2>1
  <2>4. taken(n) = [p \in CIDRs |-> IF p = v THEN d.at ELSE taken(n - 1)[p]]
    BY <2>1
  <2>5. taken(n - 1) = [p \in CIDRs |-> taken(n - 1)[p]]
    OBVIOUS
  <2> HIDE DEF f, ok, taken, s
  <2>6. IpcLine(s, <<"allowed_ip", v>>) =
          IF v \notin CIDRs THEN [s EXCEPT !.ok = FALSE]
          ELSE [s EXCEPT !.allowed = [s.allowed EXCEPT ![v] = s.at]]
    <3>1. s.at # Empty
      BY <2>2
    <3> HIDE DEF With
    <3> QED BY <3>1 DEF IpcLine, CIDRs
  <2>7. CASE v \notin CIDRs
    <3>1. taken(n) = taken(n - 1) /\ ok(n) = FALSE
      BY <2>3, <2>4, <2>5, <2>7
    <3>2. \A o, t, x : [With(o, t) EXCEPT !.ok = x] = With(x, t)
      OBVIOUS
    <3>3. \A x : [s EXCEPT !.ok = x] = With(x, taken(n - 1))
      <4> HIDE DEF With
      <4> QED BY <2>2, <3>2
    <3>4. [s EXCEPT !.ok = FALSE] = With(FALSE, taken(n - 1))
      <4> HIDE DEF With
      <4> QED BY <3>3
    <3> QED BY <1>2, <2>2, <2>6, <2>7, <3>1, <3>4 DEF s
  <2>8. CASE v \in CIDRs
    <3>1. [taken(n - 1) EXCEPT ![v] = d.at] = taken(n)
      BY <2>4, <2>5, <2>8
    <3>2. ok(n) = ok(n - 1)
      BY <2>3, <2>8 DEF ok
    <3>3. [s EXCEPT !.allowed = [s.allowed EXCEPT ![v] = s.at]] = With(ok(n - 1), [taken(n - 1) EXCEPT ![v] = d.at])
      BY <2>2
    <3> QED BY <1>2, <2>2, <2>6, <2>8, <3>1, <3>2, <3>3 DEF s
  <2> QED BY <2>7, <2>8
<1>6. f[N] = With(ok(N), taken(N))
  BY <1>1
<1>7. /\ ok(N) <=> d.ok /\ Range(ps) \subseteq CIDRs
      /\ \A x \in CIDRs : taken(N)[x] = IF x \in Range(ps) THEN d.at ELSE d.allowed[x]
  BY <1>1 DEF Range
<1> HIDE DEF f, ok, taken, lines
<1>8. IpcRead(d, lines) = f[N]
  <2>1. Len(lines) \in Nat /\ \A n \in 1..Len(lines) : f[n] = IpcLine(f[n - 1], lines[n])
    BY <1>1, <1>2, <1>5
  <2>2. IpcRead(d, lines) = f[Len(lines)]
    BY <1>10, <2>1, ReadIs
  <2> QED BY <1>2, <2>2
<1> DEFINE r == IpcRead(d, lines)
<1>9. /\ r.ok = ok(N) /\ r.private = d.private /\ r.jc = d.jc /\ r.h1 = d.h1 /\ r.at = d.at
      /\ r.peers = d.peers /\ r.allowed = taken(N)
  BY <1>6, <1>8
<1> HIDE DEF r
<1>11. r.ok <=> d.ok /\ Range(ps) \subseteq CIDRs
  BY <1>7, <1>9
<1> QED BY <1>2, <1>7, <1>9, <1>11 DEF lines, r

\* Peers of a configuration, and those the device can be given.
PeerConfigs(V) ==
    [publickey : V, presharedkey : V, endpoint : V, allowedips : Seq(V),
     persistentkeepalive : V \cap Int]
Takeable(p) ==
    /\ p.publickey \in Keys
    /\ p.endpoint \in Literal \cup {Empty}
    /\ Range(p.allowedips) \subseteq CIDRs

\* What the lines of one peer make of a device.
Gets(d, p, r) ==
    /\ r.private = d.private /\ r.jc = d.jc /\ r.h1 = d.h1
    /\ \A k \in Keys :
        /\ r.peers[k].key = IF k = p.publickey THEN k ELSE d.peers[k].key
        /\ r.peers[k].presharedkey =
              IF k = p.publickey /\ p.presharedkey # Empty THEN p.presharedkey
              ELSE d.peers[k].presharedkey
        /\ r.peers[k].endpoint =
              IF k = p.publickey /\ p.endpoint # Empty THEN p.endpoint ELSE d.peers[k].endpoint
        /\ r.peers[k].keepalive =
              IF k = p.publickey /\ p.persistentkeepalive > 0 THEN p.persistentkeepalive
              ELSE d.peers[k].keepalive
    /\ \A c \in CIDRs :
          r.allowed[c] = IF c \in Range(p.allowedips) THEN p.publickey ELSE d.allowed[c]

\* One field of the peer the lines are about changes, and nothing else.
LEMMA SetPeerSets ==
  ASSUME NEW V, NEW d \in Devices(V), d.at # Empty, NEW v,
         NEW f \in {"presharedkey", "endpoint", "keepalive"}
  PROVE  LET r == SetPeer(d, f, v) IN
         /\ r.ok = d.ok /\ r.private = d.private /\ r.jc = d.jc /\ r.h1 = d.h1 /\ r.at = d.at
         /\ r.allowed = d.allowed
         /\ \A k \in Keys : \A g \in {"key", "presharedkey", "endpoint", "keepalive"} :
               r.peers[k][g] = IF k = d.at /\ g = f THEN v ELSE d.peers[k][g]
<1> DEFINE q == [d.peers[d.at] EXCEPT ![f] = v]
           ps == [d.peers EXCEPT ![d.at] = q]
<1>1. d.at \in Keys /\ d.peers \in [Keys -> PeerStates(V)]
  BY DEF Devices
<1>2. SetPeer(d, f, v) = [d EXCEPT !.peers = ps]
  BY DEF SetPeer
<1>3. \A g \in {"key", "presharedkey", "endpoint", "keepalive"} : q[g] = IF g = f THEN v ELSE d.peers[d.at][g]
  <2>1. d.peers[d.at] \in PeerStates(V)
    BY <1>1
  <2> QED BY <2>1 DEF PeerStates
<1>4. \A k \in Keys : ps[k] = IF k = d.at THEN q ELSE d.peers[k]
  BY <1>1
<1> HIDE DEF q, ps
<1>5. /\ SetPeer(d, f, v).ok = d.ok /\ SetPeer(d, f, v).private = d.private
      /\ SetPeer(d, f, v).jc = d.jc /\ SetPeer(d, f, v).h1 = d.h1 /\ SetPeer(d, f, v).at = d.at
      /\ SetPeer(d, f, v).allowed = d.allowed /\ SetPeer(d, f, v).peers = ps
  BY <1>2 DEF Devices
<1> QED BY <1>3, <1>4, <1>5

\* What is written of a peer sets up that peer, takes its prefixes from the others, and
\* leaves the rest alone; a device rejects it for what is in it, never for what came before.
LEMMA PeerLinesGet ==
  ASSUME NEW V, Known(V), NEW d \in Devices(V), NEW p \in PeerConfigs(V)
  PROVE  /\ PeerLines(p) \in Seq(UAPILines(V))
         /\ IpcRead(d, PeerLines(p)) \in Devices(V)
         /\ IpcRead(d, PeerLines(p)).ok <=> d.ok /\ Takeable(p)
         /\ IpcRead(d, PeerLines(p)).ok => Gets(d, p, IpcRead(d, PeerLines(p)))
<1> DEFINE T == Seq(UAPILines(V))
           pk == p.publickey
           ps == p.allowedips
           a == <<<<"public_key", pk>>>>
           b == Optional(p.presharedkey # Empty, "preshared_key", p.presharedkey)
           c == Optional(p.endpoint # Empty, "endpoint", p.endpoint)
           e == [i \in DOMAIN ps |-> <<"allowed_ip", ps[i]>>]
           g == Optional(p.persistentkeepalive > 0, "persistent_keepalive_interval",
                         p.persistentkeepalive)
           d1 == IpcRead(d, a)
           d2 == IpcRead(d1, b)
           d3 == IpcRead(d2, c)
           d4 == IpcRead(d3, e)
           d5 == IpcRead(d4, g)
<1>1. /\ pk \in V /\ p.presharedkey \in V /\ p.endpoint \in V /\ ps \in Seq(V)
      /\ p.persistentkeepalive \in V /\ p.persistentkeepalive \in Int
  BY DEF PeerConfigs
<1> HIDE DEF T, pk, ps
<1>2. <<"public_key", pk>> \in UAPILines(V)
  BY <1>1 DEF UAPILines, UAPIKeys
<1>3. a \in T /\ d1 = IpcLine(d, <<"public_key", pk>>) /\ d1 \in Devices(V) /\ (~d.ok => ~d1.ok)
  BY <1>2, ReadOne, IpcLineType DEF T
<1> HIDE DEF a, d1
<1>4. b \in T /\ d2 = IF p.presharedkey # Empty THEN IpcLine(d1, <<"preshared_key", p.presharedkey>>) ELSE d1
  <2>1. <<"preshared_key", p.presharedkey>> \in UAPILines(V)
    BY <1>1 DEF UAPILines, UAPIKeys
  <2>2. CASE p.presharedkey # Empty
    <3>1. b = <<<<"preshared_key", p.presharedkey>>>>
      BY <2>2 DEF Optional
    <3> QED BY <1>3, <2>1, <2>2, <3>1, ReadOne DEF T, d2
  <2>3. CASE ~(p.presharedkey # Empty)
    <3>1. b = <<>>
      BY <2>3 DEF Optional
    <3> QED BY <1>3, <2>3, <3>1, ReadNone DEF T, d2
  <2> QED BY <2>2, <2>3
<1>5. d2 \in Devices(V) /\ (~d1.ok => ~d2.ok)
  BY <1>3, <1>4, ReadType DEF T
<1> HIDE DEF b, d2
<1>6. c \in T /\ d3 = IF p.endpoint # Empty THEN IpcLine(d2, <<"endpoint", p.endpoint>>) ELSE d2
  <2>1. <<"endpoint", p.endpoint>> \in UAPILines(V)
    BY <1>1 DEF UAPILines, UAPIKeys
  <2>2. CASE p.endpoint # Empty
    <3>1. c = <<<<"endpoint", p.endpoint>>>>
      BY <2>2 DEF Optional
    <3> QED BY <1>5, <2>1, <2>2, <3>1, ReadOne DEF T, d3
  <2>3. CASE ~(p.endpoint # Empty)
    <3>1. c = <<>>
      BY <2>3 DEF Optional
    <3> QED BY <1>5, <2>3, <3>1, ReadNone DEF T, d3
  <2> QED BY <2>2, <2>3
<1>7. d3 \in Devices(V) /\ (~d2.ok => ~d3.ok)
  BY <1>5, <1>6, ReadType DEF T
<1> HIDE DEF c, d3
<1>8. e \in T
  <2>1. Len(ps) \in Nat /\ DOMAIN ps = 1..Len(ps) /\ \A i \in 1..Len(ps) : ps[i] \in V
    BY <1>1, LenProperties, ElementOfSeq
  <2>2. e \in [1..Len(ps) -> UAPILines(V)]
    BY <2>1 DEF UAPILines, UAPIKeys
  <2> QED BY <2>1, <2>2, SeqDef DEF T
<1>9. d3.at # Empty =>
        /\ d4.ok <=> d3.ok /\ Range(ps) \subseteq CIDRs
        /\ d4.private = d3.private /\ d4.jc = d3.jc /\ d4.h1 = d3.h1 /\ d4.at = d3.at
        /\ d4.peers = d3.peers
        /\ \A x \in CIDRs : d4.allowed[x] = IF x \in Range(ps) THEN d3.at ELSE d3.allowed[x]
  BY <1>1, <1>7, ReadAllowed
<1> HIDE DEF e
<1>10. d4 \in Devices(V) /\ (~d3.ok => ~d4.ok)
  BY <1>7, <1>8, ReadType DEF T
<1> HIDE DEF d4
<1>11. g \in T /\ d5 = IF p.persistentkeepalive > 0
                       THEN IpcLine(d4, <<"persistent_keepalive_interval", p.persistentkeepalive>>)
                       ELSE d4
  <2>1. <<"persistent_keepalive_interval", p.persistentkeepalive>> \in UAPILines(V)
    BY <1>1 DEF UAPILines, UAPIKeys
  <2>2. CASE p.persistentkeepalive > 0
    <3>1. g = <<<<"persistent_keepalive_interval", p.persistentkeepalive>>>>
      BY <2>2 DEF Optional
    <3> QED BY <1>10, <2>1, <2>2, <3>1, ReadOne DEF T, d5
  <2>3. CASE ~(p.persistentkeepalive > 0)
    <3>1. g = <<>>
      BY <2>3 DEF Optional
    <3> QED BY <1>10, <2>3, <3>1, ReadNone DEF T, d5
  <2> QED BY <2>2, <2>3
<1>12. d5 \in Devices(V) /\ (~d4.ok => ~d5.ok)
  BY <1>10, <1>11, ReadType DEF T
<1> HIDE DEF g, d5
<1>13. PeerLines(p) = (((a \o b) \o c) \o e) \o g
  BY DEF PeerLines, a, b, c, e, g, pk, ps
<1>14. PeerLines(p) \in T /\ IpcRead(d, PeerLines(p)) = d5
  <2>1. a \o b \in T /\ IpcRead(d, a \o b) = d2
    BY <1>3, <1>4, ReadConcat DEF T, d1, d2
  <2> DEFINE ab == a \o b
             abc == ab \o c
             abce == abc \o e
  <2> HIDE DEF ab
  <2>2. abc \in T /\ IpcRead(d, abc) = d3
    <3>1. ab \in T /\ IpcRead(d, ab) = d2
      BY <2>1 DEF ab
    <3> QED BY <1>6, <3>1, ReadConcat DEF T, d3
  <2> HIDE DEF abc
  <2>3. abce \in T /\ IpcRead(d, abce) = d4
    BY <1>8, <2>2, ReadConcat DEF T, d4
  <2> HIDE DEF abce
  <2>4. abce \o g \in T /\ IpcRead(d, abce \o g) = d5
    BY <1>11, <2>3, ReadConcat DEF T, d5
  <2> QED BY <1>13, <2>4 DEF ab, abc, abce
<1> DEFINE Fields == {"key", "presharedkey", "endpoint", "keepalive"}
<1>15. CASE pk \notin Keys
  <2>1. ~d1.ok
    BY <1>3, <1>15 DEF IpcLine, Devices
  <2>2. ~d5.ok
    BY <1>5, <1>7, <1>10, <1>12, <2>1
  <2> QED BY <1>12, <1>14, <1>15, <2>2 DEF Takeable, pk, T
<1>16. CASE pk \in Keys
  <2>0. pk # Empty
    BY <1>16, KeysAssumption
  <2>1. /\ d1.ok = d.ok /\ d1.private = d.private /\ d1.jc = d.jc /\ d1.h1 = d.h1
        /\ d1.at = pk /\ d1.allowed = d.allowed
        /\ \A k \in Keys : \A x \in Fields :
              d1.peers[k][x] = IF k = pk /\ x = "key" THEN pk ELSE d.peers[k][x]
    <3> DEFINE q == [d.peers[pk] EXCEPT !.key = pk]
               qs == [d.peers EXCEPT ![pk] = q]
    <3>1. d1 = [d EXCEPT !.at = pk, !.peers = qs]
      BY <1>3, <1>16 DEF IpcLine
    <3>2. d.peers \in [Keys -> PeerStates(V)]
      BY DEF Devices
    <3>3. \A x \in Fields : q[x] = IF x = "key" THEN pk ELSE d.peers[pk][x]
      <4>1. d.peers[pk] \in PeerStates(V)
        BY <1>16, <3>2
      <4> QED BY <4>1 DEF PeerStates
    <3>4. \A k \in Keys : qs[k] = IF k = pk THEN q ELSE d.peers[k]
      BY <1>16, <3>2
    <3> HIDE DEF q, qs
    <3>5. /\ d1.ok = d.ok /\ d1.private = d.private /\ d1.jc = d.jc /\ d1.h1 = d.h1
          /\ d1.at = pk /\ d1.allowed = d.allowed /\ d1.peers = qs
      BY <3>1 DEF Devices
    <3> QED BY <3>3, <3>4, <3>5
  <2>2. /\ d2.ok = d1.ok /\ d2.private = d1.private /\ d2.jc = d1.jc /\ d2.h1 = d1.h1
        /\ d2.at = pk /\ d2.allowed = d1.allowed
        /\ \A k \in Keys : \A x \in Fields :
              d2.peers[k][x] = IF k = pk /\ x = "presharedkey" /\ p.presharedkey # Empty THEN p.presharedkey
                               ELSE d1.peers[k][x]
    <3>1. CASE p.presharedkey = Empty
      BY <1>4, <2>1, <3>1
    <3>2. CASE p.presharedkey # Empty
      <4>1. d2 = SetPeer(d1, "presharedkey", p.presharedkey)
        BY <1>4, <3>2 DEF IpcLine
      <4> QED BY <1>3, <2>0, <2>1, <3>2, <4>1, SetPeerSets
    <3> QED BY <3>1, <3>2
  <2>3. CASE p.endpoint \notin Literal \cup {Empty}
    <3>1. ~d3.ok
      BY <1>5, <1>6, <2>3 DEF IpcLine, Devices
    <3>2. ~d5.ok
      BY <1>10, <1>12, <3>1
    <3> QED BY <1>12, <1>14, <2>3, <3>2 DEF Takeable, T
  <2>4. CASE p.endpoint \in Literal \cup {Empty}
    <3>1. /\ d3.ok = d2.ok /\ d3.private = d2.private /\ d3.jc = d2.jc /\ d3.h1 = d2.h1
          /\ d3.at = pk /\ d3.allowed = d2.allowed
          /\ \A k \in Keys : \A x \in Fields :
                d3.peers[k][x] = IF k = pk /\ x = "endpoint" /\ p.endpoint # Empty THEN p.endpoint
                                 ELSE d2.peers[k][x]
      <4>1. CASE p.endpoint = Empty
        BY <1>6, <2>2, <4>1
      <4>2. CASE p.endpoint # Empty
        <5>1. d3 = SetPeer(d2, "endpoint", p.endpoint)
          BY <1>6, <2>4, <4>2 DEF IpcLine
        <5> QED BY <1>5, <2>0, <2>2, <4>2, <5>1, SetPeerSets
      <4> QED BY <4>1, <4>2
    <3>2. /\ d4.ok <=> d3.ok /\ Range(ps) \subseteq CIDRs
          /\ d4.private = d3.private /\ d4.jc = d3.jc /\ d4.h1 = d3.h1 /\ d4.at = pk
          /\ d4.peers = d3.peers
          /\ \A x \in CIDRs : d4.allowed[x] = IF x \in Range(ps) THEN pk ELSE d3.allowed[x]
      BY <1>9, <2>0, <3>1
    <3>3. /\ d5.ok = d4.ok /\ d5.private = d4.private /\ d5.jc = d4.jc /\ d5.h1 = d4.h1
          /\ d5.allowed = d4.allowed
          /\ \A k \in Keys : \A x \in Fields :
                d5.peers[k][x] = IF k = pk /\ x = "keepalive" /\ p.persistentkeepalive > 0
                                 THEN p.persistentkeepalive ELSE d4.peers[k][x]
      <4>1. CASE ~(p.persistentkeepalive > 0)
        BY <1>11, <4>1
      <4>2. CASE p.persistentkeepalive > 0
        <5>1. d5 = SetPeer(d4, "keepalive", p.persistentkeepalive)
          BY <1>11, <4>2 DEF IpcLine
        <5> QED BY <1>10, <2>0, <3>2, <4>2, <5>1, SetPeerSets
      <4> QED BY <4>1, <4>2
    <3>4. d5.ok <=> d.ok /\ Takeable(p)
      <4>1. d.ok \in BOOLEAN
        BY DEF Devices
      <4> QED BY <1>16, <2>1, <2>2, <2>4, <3>1, <3>2, <3>3, <4>1 DEF Takeable, pk, ps
    <3>5. \A k \in Keys :
            /\ d5.peers[k].key = IF k = pk THEN k ELSE d.peers[k].key
            /\ d5.peers[k].presharedkey =
                  IF k = pk /\ p.presharedkey # Empty THEN p.presharedkey ELSE d.peers[k].presharedkey
            /\ d5.peers[k].endpoint =
                  IF k = pk /\ p.endpoint # Empty THEN p.endpoint ELSE d.peers[k].endpoint
            /\ d5.peers[k].keepalive =
                  IF k = pk /\ p.persistentkeepalive > 0 THEN p.persistentkeepalive
                  ELSE d.peers[k].keepalive
      BY <2>1, <2>2, <3>1, <3>2, <3>3
    <3>6. Gets(d, p, d5)
      BY <2>1, <2>2, <3>1, <3>2, <3>3, <3>5 DEF Gets, pk, ps
    <3> QED BY <1>12, <1>14, <3>4, <3>6 DEF T
  <2> QED BY <2>3, <2>4
<1> QED BY <1>15, <1>16

\* A configuration whose values are in V.
IsConfig(V, cfg) ==
    /\ cfg = [interface |-> cfg.interface, peers |-> cfg.peers]
    /\ cfg.interface.privatekey \in V /\ cfg.interface.h1 \in V
    /\ cfg.interface.jc \in V \cap Int
    /\ cfg.peers \in Seq(PeerConfigs(V))

\* What is written of the peers, peer by peer.
LEMMA PeersLinesStep ==
  ASSUME NEW V, Known(V), NEW peers \in Seq(PeerConfigs(V))
  PROVE  \E w \in [0..Len(peers) -> Seq(UAPILines(V))] :
            /\ w[0] = <<>> /\ \A n \in 1..Len(peers) : w[n] = w[n - 1] \o PeerLines(peers[n])
            /\ PeersLines(peers) = w[Len(peers)]
<1> DEFINE N == Len(peers)
           T == Seq(UAPILines(V))
           step == [x \in (1..N) \X T |-> x[2] \o PeerLines(peers[x[1]])]
           Row(s, n) == s \o PeerLines(peers[n])
           Is(f) == f = [n \in 0..N |-> IF n = 0 THEN <<>> ELSE Row(f[n - 1], n)]
           w == CHOOSE f : Is(f)
           S == {n \in 0..N : w[n] \in T}
<1>1. N \in Nat /\ \A n \in 1..N : peers[n] \in PeerConfigs(V)
  BY LenProperties, ElementOfSeq
<1>2. \A n \in 1..N : PeerLines(peers[n]) \in T
  BY <1>1, NewDeviceType, PeerLinesGet
<1>3. <<>> \in T /\ \A n \in 1..N : \A s \in T : Row(s, n) \in T
  BY <1>2, EmptySeq, ConcatProperties
<1>4. PeersLines(peers) = w[N]
  BY DEF PeersLines
<1>5. step \in [(1..N) \X T -> T] /\ \A n \in 1..N : \A s \in T : step[<<n, s>>] = Row(s, n)
  BY <1>3
<1> HIDE DEF N, T, step, Row
<1>6. PICK f \in [0..N -> T] : Recurs(f, N, <<>>, step)
  BY <1>1, <1>3, <1>5, Recursion
<1>7. /\ 0 \in 0..N /\ \A n \in 1..N : n - 1 \in 0..N /\ n \in 0..N /\ n # 0
      /\ \A n \in 0..N : n = 0 \/ n \in 1..N
  BY <1>1
<1>8. Is(f)
  BY <1>5, <1>6, <1>7 DEF Recurs
<1>9. Is(w)
  <2> HIDE DEF Is
  <2> QED BY <1>8
<1> HIDE DEF w
<1>10. w[0] = <<>> /\ \A n \in 1..N : w[n] = Row(w[n - 1], n)
  BY <1>7, <1>9
<1>11. 0 \in S /\ \A n \in 1..N : n - 1 \in S => n \in S
  BY <1>3, <1>7, <1>10
<1> HIDE DEF S
<1>12. 0..N \subseteq S
  BY <1>1, <1>11, Induction
<1>13. w = [n \in 0..N |-> w[n]] /\ \A n \in 0..N : w[n] \in T
  BY <1>9, <1>12 DEF S
<1>14. w \in [0..N -> T]
  BY <1>13
<1> QED BY <1>4, <1>10, <1>14 DEF N, T, Row

\* The last of some places up to n is n, or it is the last up to n - 1.
LEMMA LastOfMore ==
  ASSUME NEW T, NEW n \in Nat \ {0}
  PROVE  /\ n \in T => T \cap (1..n) # {} /\ Max(T \cap (1..n)) = n
         /\ n \notin T => T \cap (1..n) = T \cap (1..(n - 1))
<1> DEFINE S == T \cap (1..(n - 1))
<1>1. 1..n = 1..(n - 1) \cup {n} /\ \A i \in 1..(n - 1) : i < n /\ i \in Nat
  OBVIOUS
<1>2. S \in SUBSET Nat /\ \A i \in S : i < n
  BY <1>1
<1>3. n \in T => T \cap (1..n) = S \cup {n}
  BY <1>1
<1>4. n \notin T => T \cap (1..n) = S
  BY <1>1
<1> HIDE DEF S
<1>5. Max(S \cup {n}) = n
  BY <1>2, MaxOfMore
<1> QED BY <1>3, <1>4, <1>5 DEF S

\* What the first n peers give, peer by peer and prefix by prefix.
GivenBy(cfg, key, field) ==
    {i \in DOMAIN cfg.peers :
        cfg.peers[i].publickey = key /\ ~LeftOut(field, cfg.peers[i][field])}
FirstGiven(cfg, n, key, field) ==
    LET some == GivenBy(cfg, key, field) \cap (1..n)
    IN IF some = {} THEN EmptyPeer[field] ELSE cfg.peers[Max(some)][field]
ListedBy(cfg, prefix) == {i \in DOMAIN cfg.peers : prefix \in Range(cfg.peers[i].allowedips)}
FirstAllowed(cfg, n, prefix) ==
    LET some == ListedBy(cfg, prefix) \cap (1..n)
    IN IF some = {} THEN Empty ELSE cfg.peers[Max(some)].publickey

\* The n-th peer's say comes after that of the peers before it.
LEMMA FirstStep ==
  ASSUME NEW cfg, Len(cfg.peers) \in Nat, DOMAIN cfg.peers = 1..Len(cfg.peers)
  PROVE  /\ \A key, field : FirstGiven(cfg, 0, key, field) = EmptyPeer[field]
         /\ \A prefix : FirstAllowed(cfg, 0, prefix) = Empty
         /\ \A n \in 1..Len(cfg.peers) :
              /\ \A key, field : FirstGiven(cfg, n, key, field) =
                    IF cfg.peers[n].publickey = key /\ ~LeftOut(field, cfg.peers[n][field])
                    THEN cfg.peers[n][field] ELSE FirstGiven(cfg, n - 1, key, field)
              /\ \A prefix : FirstAllowed(cfg, n, prefix) =
                    IF prefix \in Range(cfg.peers[n].allowedips) THEN cfg.peers[n].publickey
                    ELSE FirstAllowed(cfg, n - 1, prefix)
         /\ \A key, field : FirstGiven(cfg, Len(cfg.peers), key, field) = Given(cfg, key, field)
         /\ \A prefix : FirstAllowed(cfg, Len(cfg.peers), prefix) = AllowedTo(cfg, prefix)
<1> DEFINE N == Len(cfg.peers)
<1>1. \A T : T \cap (1..0) = {}
  OBVIOUS
<1>2. (\A key, field : FirstGiven(cfg, 0, key, field) = EmptyPeer[field])
      /\ \A prefix : FirstAllowed(cfg, 0, prefix) = Empty
  BY <1>1 DEF FirstGiven, FirstAllowed
<1>3. ASSUME NEW n \in 1..N
      PROVE  /\ \A key, field : FirstGiven(cfg, n, key, field) =
                    IF cfg.peers[n].publickey = key /\ ~LeftOut(field, cfg.peers[n][field])
                    THEN cfg.peers[n][field] ELSE FirstGiven(cfg, n - 1, key, field)
             /\ \A prefix : FirstAllowed(cfg, n, prefix) =
                    IF prefix \in Range(cfg.peers[n].allowedips) THEN cfg.peers[n].publickey
                    ELSE FirstAllowed(cfg, n - 1, prefix)
  <2>1. n \in Nat \ {0}
    OBVIOUS
  <2>2. ASSUME NEW key, NEW field
        PROVE  FirstGiven(cfg, n, key, field) =
                 IF cfg.peers[n].publickey = key /\ ~LeftOut(field, cfg.peers[n][field])
                 THEN cfg.peers[n][field] ELSE FirstGiven(cfg, n - 1, key, field)
    <3> DEFINE T == GivenBy(cfg, key, field)
    <3>1. n \in T <=> cfg.peers[n].publickey = key /\ ~LeftOut(field, cfg.peers[n][field])
      BY DEF GivenBy
    <3> HIDE DEF T
    <3>2. /\ n \in T => T \cap (1..n) # {} /\ Max(T \cap (1..n)) = n
          /\ n \notin T => T \cap (1..n) = T \cap (1..(n - 1))
      BY <2>1, LastOfMore
    <3>3. CASE n \in T
      BY <3>1, <3>2, <3>3 DEF FirstGiven, T
    <3>4. CASE n \notin T
      <4>1. FirstGiven(cfg, n, key, field) = FirstGiven(cfg, n - 1, key, field)
        BY <3>2, <3>4 DEF FirstGiven, T
      <4> QED BY <3>1, <3>4, <4>1
    <3> QED BY <3>3, <3>4
  <2>3. ASSUME NEW prefix
        PROVE  FirstAllowed(cfg, n, prefix) =
                 IF prefix \in Range(cfg.peers[n].allowedips) THEN cfg.peers[n].publickey
                 ELSE FirstAllowed(cfg, n - 1, prefix)
    <3> DEFINE T == ListedBy(cfg, prefix)
    <3>1. n \in T <=> prefix \in Range(cfg.peers[n].allowedips)
      BY DEF ListedBy
    <3> HIDE DEF T
    <3>2. /\ n \in T => T \cap (1..n) # {} /\ Max(T \cap (1..n)) = n
          /\ n \notin T => T \cap (1..n) = T \cap (1..(n - 1))
      BY <2>1, LastOfMore
    <3>3. CASE n \in T
      BY <3>1, <3>2, <3>3 DEF FirstAllowed, T
    <3>4. CASE n \notin T
      <4>1. FirstAllowed(cfg, n, prefix) = FirstAllowed(cfg, n - 1, prefix)
        BY <3>2, <3>4 DEF FirstAllowed, T
      <4> QED BY <3>1, <3>4, <4>1
    <3> QED BY <3>3, <3>4
  <2> QED BY <2>2, <2>3
<1>4. ASSUME NEW key, NEW field PROVE FirstGiven(cfg, N, key, field) = Given(cfg, key, field)
  <2>1. GivenBy(cfg, key, field) \cap (1..N) = GivenBy(cfg, key, field)
    BY DEF GivenBy
  <2> QED BY <2>1 DEF FirstGiven, Given, GivenBy
<1>5. ASSUME NEW prefix PROVE FirstAllowed(cfg, N, prefix) = AllowedTo(cfg, prefix)
  <2>1. ListedBy(cfg, prefix) \cap (1..N) = ListedBy(cfg, prefix)
    BY DEF ListedBy
  <2> QED BY <2>1 DEF FirstAllowed, AllowedTo, ListedBy
<1> QED BY <1>2, <1>3, <1>4, <1>5

\* A device that has the interface and the first n peers of a configuration.
HasFirst(d, cfg, n) ==
    /\ d.private = cfg.interface.privatekey
    /\ d.jc = IF cfg.interface.jc > 0 THEN cfg.interface.jc ELSE 0
    /\ d.h1 = cfg.interface.h1
    /\ \A k \in Keys :
        /\ d.peers[k].key = IF \E i \in 1..n : cfg.peers[i].publickey = k THEN k ELSE Empty
        /\ d.peers[k].presharedkey = FirstGiven(cfg, n, k, "presharedkey")
        /\ d.peers[k].endpoint = FirstGiven(cfg, n, k, "endpoint")
        /\ d.peers[k].keepalive = FirstGiven(cfg, n, k, "persistentkeepalive")
    /\ \A c \in CIDRs : d.allowed[c] = FirstAllowed(cfg, n, c)
Reads(V, d, cfg, n) ==
    /\ d \in Devices(V)
    /\ d.ok <=> \A i \in 1..n : Takeable(cfg.peers[i])
    /\ d.ok => HasFirst(d, cfg, n)

\* One more peer.
LEMMA HasFirstStep ==
  ASSUME NEW V, NEW cfg, IsConfig(V, cfg), NEW n \in 1..Len(cfg.peers),
         NEW d, HasFirst(d, cfg, n - 1), NEW r, Gets(d, cfg.peers[n], r)
  PROVE  HasFirst(r, cfg, n)
<1> DEFINE p == cfg.peers[n]
<1>1. /\ Len(cfg.peers) \in Nat /\ DOMAIN cfg.peers = 1..Len(cfg.peers)
      /\ p.persistentkeepalive \in Int
  <2>1. p \in PeerConfigs(V)
    BY ElementOfSeq DEF IsConfig
  <2> QED BY <2>1, LenProperties DEF IsConfig, PeerConfigs
<1>2. /\ \A k, f : FirstGiven(cfg, n, k, f) =
            IF p.publickey = k /\ ~LeftOut(f, p[f]) THEN p[f] ELSE FirstGiven(cfg, n - 1, k, f)
      /\ \A c : FirstAllowed(cfg, n, c) =
            IF c \in Range(p.allowedips) THEN p.publickey ELSE FirstAllowed(cfg, n - 1, c)
  BY <1>1, FirstStep
<1>3. /\ LeftOut("presharedkey", p.presharedkey) <=> p.presharedkey = Empty
      /\ LeftOut("endpoint", p.endpoint) <=> p.endpoint = Empty
      /\ LeftOut("persistentkeepalive", p.persistentkeepalive) <=> ~(p.persistentkeepalive > 0)
  BY <1>1 DEF LeftOut, Numbers
<1>4. 1..n = 1..(n - 1) \cup {n}
  BY <1>1
<1>5. \A k : (\E i \in 1..n : cfg.peers[i].publickey = k)
               <=> p.publickey = k \/ \E i \in 1..(n - 1) : cfg.peers[i].publickey = k
  BY <1>4
<1> HIDE DEF p
<1>6. r.private = d.private /\ r.jc = d.jc /\ r.h1 = d.h1
  BY DEF Gets, p
<1>7. ASSUME NEW k \in Keys
      PROVE  /\ r.peers[k].key = IF \E i \in 1..n : cfg.peers[i].publickey = k THEN k ELSE Empty
             /\ r.peers[k].presharedkey = FirstGiven(cfg, n, k, "presharedkey")
             /\ r.peers[k].endpoint = FirstGiven(cfg, n, k, "endpoint")
             /\ r.peers[k].keepalive = FirstGiven(cfg, n, k, "persistentkeepalive")
  <2>1. /\ r.peers[k].key = IF k = p.publickey THEN k ELSE d.peers[k].key
        /\ r.peers[k].presharedkey =
              IF k = p.publickey /\ p.presharedkey # Empty THEN p.presharedkey
              ELSE d.peers[k].presharedkey
        /\ r.peers[k].endpoint =
              IF k = p.publickey /\ p.endpoint # Empty THEN p.endpoint ELSE d.peers[k].endpoint
        /\ r.peers[k].keepalive =
              IF k = p.publickey /\ p.persistentkeepalive > 0 THEN p.persistentkeepalive
              ELSE d.peers[k].keepalive
    BY DEF Gets, p
  <2>2. /\ d.peers[k].key = IF \E i \in 1..(n - 1) : cfg.peers[i].publickey = k THEN k ELSE Empty
        /\ d.peers[k].presharedkey = FirstGiven(cfg, n - 1, k, "presharedkey")
        /\ d.peers[k].endpoint = FirstGiven(cfg, n - 1, k, "endpoint")
        /\ d.peers[k].keepalive = FirstGiven(cfg, n - 1, k, "persistentkeepalive")
    BY DEF HasFirst
  <2>3. r.peers[k].key = IF \E i \in 1..n : cfg.peers[i].publickey = k THEN k ELSE Empty
    BY <1>5, <2>1, <2>2
  <2>4. r.peers[k].presharedkey = FirstGiven(cfg, n, k, "presharedkey")
    BY <1>2, <1>3, <2>1, <2>2
  <2>5. r.peers[k].endpoint = FirstGiven(cfg, n, k, "endpoint")
    BY <1>2, <1>3, <2>1, <2>2
  <2>6. r.peers[k].keepalive = FirstGiven(cfg, n, k, "persistentkeepalive")
    BY <1>2, <1>3, <2>1, <2>2
  <2> QED BY <2>3, <2>4, <2>5, <2>6
<1>8. ASSUME NEW c \in CIDRs PROVE r.allowed[c] = FirstAllowed(cfg, n, c)
  BY <1>2 DEF Gets, HasFirst, p
<1> QED BY <1>6, <1>7, <1>8 DEF HasFirst

\* The lines before the peers.
HeadLines(cfg) ==
    ((<<<<"private_key", cfg.interface.privatekey>>>>
      \o Optional(cfg.interface.jc > 0, "jc", cfg.interface.jc))
     \o Optional(cfg.interface.h1 # Empty, "h1", cfg.interface.h1))
    \o <<<<"replace_peers", "true">>>>

\* Before the peers there is the interface, and no peer is left from before.
LEMMA HeadReads ==
  ASSUME NEW V, Known(V), NEW cfg, IsConfig(V, cfg)
  PROVE  /\ HeadLines(cfg) \in Seq(UAPILines(V))
         /\ Reads(V, IpcRead(NewDevice, HeadLines(cfg)), cfg, 0)
<1> DEFINE T == Seq(UAPILines(V))
           i == cfg.interface
           a == <<<<"private_key", i.privatekey>>>>
           b == Optional(i.jc > 0, "jc", i.jc)
           c == Optional(i.h1 # Empty, "h1", i.h1)
           e == <<<<"replace_peers", "true">>>>
           d0 == NewDevice
           d1 == IpcRead(d0, a)
           d2 == IpcRead(d1, b)
           d3 == IpcRead(d2, c)
           d4 == IpcRead(d3, e)
           Same(x, y) == x.ok = y.ok /\ x.peers = y.peers /\ x.allowed = y.allowed
<1>1. i.privatekey \in V /\ i.h1 \in V /\ i.jc \in V /\ i.jc \in Int /\ "true" \in V
  BY DEF IsConfig, Known
<1>2. /\ d0 \in Devices(V) /\ d0.ok = TRUE /\ d0.jc = 0 /\ d0.h1 = Empty
      /\ d0.peers = NewDevice.peers /\ d0.allowed = NewDevice.allowed
  BY NewDeviceType DEF NewDevice
<1> HIDE DEF T, i, d0
<1>3. /\ <<"private_key", i.privatekey>> \in UAPILines(V)
      /\ <<"jc", i.jc>> \in UAPILines(V)
      /\ <<"h1", i.h1>> \in UAPILines(V)
      /\ <<"replace_peers", "true">> \in UAPILines(V)
  BY <1>1 DEF UAPILines, UAPIKeys
<1>4. a \in T /\ d1 = IpcLine(d0, <<"private_key", i.privatekey>>) /\ d1 \in Devices(V)
  <2> DEFINE x == <<"private_key", i.privatekey>>
  <2>1. a = <<x>> /\ x \in UAPILines(V) /\ d0 \in Devices(V)
    BY <1>2, <1>3
  <2> HIDE DEF x
  <2>2. <<x>> \in T /\ IpcRead(d0, <<x>>) = IpcLine(d0, x)
    BY <2>1, ReadOne DEF T
  <2>3. IpcLine(d0, x) \in Devices(V)
    BY <2>1, IpcLineType
  <2> HIDE DEF a
  <2> QED BY <2>1, <2>2, <2>3 DEF x
<1> HIDE DEF a, d1
<1>5. Same(d1, d0) /\ d1.private = i.privatekey /\ d1.jc = 0 /\ d1.h1 = Empty
  <2>1. d1 = [d0 EXCEPT !.private = i.privatekey]
    BY <1>4 DEF IpcLine
  <2> QED BY <1>2, <2>1 DEF Devices
<1>6. /\ b \in T /\ d2 \in Devices(V) /\ Same(d2, d1) /\ d2.private = d1.private
      /\ d2.h1 = d1.h1 /\ d2.jc = IF i.jc > 0 THEN i.jc ELSE 0
  <2>1. CASE i.jc > 0
    <3>1. b = <<<<"jc", i.jc>>>>
      BY <2>1 DEF Optional
    <3>2. b \in T /\ d2 = IpcLine(d1, <<"jc", i.jc>>) /\ d2 \in Devices(V)
      <4> DEFINE x == <<"jc", i.jc>>
      <4>1. b = <<x>> /\ x \in UAPILines(V) /\ d1 \in Devices(V)
        BY <1>3, <1>4, <3>1
      <4> HIDE DEF x, b
      <4>2. <<x>> \in T /\ IpcRead(d1, <<x>>) = IpcLine(d1, x)
        BY <4>1, ReadOne DEF T
      <4>3. IpcLine(d1, x) \in Devices(V)
        BY <4>1, IpcLineType
      <4> QED BY <4>1, <4>2, <4>3 DEF x, d2
    <3> HIDE DEF b, d2
    <3>3. d2 = [d1 EXCEPT !.jc = i.jc]
      BY <3>2 DEF IpcLine
    <3> QED BY <1>4, <2>1, <3>2, <3>3 DEF Devices
  <2>2. CASE ~(i.jc > 0)
    <3>1. b = <<>>
      BY <2>2 DEF Optional
    <3>2. b \in T /\ d2 = d1
      BY <3>1, ReadNone DEF T
    <3> HIDE DEF b, d2
    <3> QED BY <1>4, <1>5, <2>2, <3>2
  <2> QED BY <2>1, <2>2
<1> HIDE DEF b, d2
<1>7. /\ c \in T /\ d3 \in Devices(V) /\ Same(d3, d2) /\ d3.private = d2.private
      /\ d3.jc = d2.jc /\ d3.h1 = i.h1
  <2>1. CASE i.h1 # Empty
    <3>1. c = <<<<"h1", i.h1>>>>
      BY <2>1 DEF Optional
    <3>2. c \in T /\ d3 = IpcLine(d2, <<"h1", i.h1>>) /\ d3 \in Devices(V)
      <4> DEFINE x == <<"h1", i.h1>>
      <4>1. c = <<x>> /\ x \in UAPILines(V) /\ d2 \in Devices(V)
        BY <1>3, <1>6, <3>1
      <4> HIDE DEF x, c
      <4>2. <<x>> \in T /\ IpcRead(d2, <<x>>) = IpcLine(d2, x)
        BY <4>1, ReadOne DEF T
      <4>3. IpcLine(d2, x) \in Devices(V)
        BY <4>1, IpcLineType
      <4> QED BY <4>1, <4>2, <4>3 DEF x, d3
    <3> HIDE DEF c, d3
    <3>3. d3 = [d2 EXCEPT !.h1 = i.h1]
      BY <3>2 DEF IpcLine
    <3> QED BY <1>6, <2>1, <3>2, <3>3 DEF Devices
  <2>2. CASE i.h1 = Empty
    <3>1. c = <<>>
      BY <2>2 DEF Optional
    <3>2. c \in T /\ d3 = d2
      BY <3>1, ReadNone DEF T
    <3> HIDE DEF c, d3
    <3> QED BY <1>5, <1>6, <2>2, <3>2
  <2> QED BY <2>1, <2>2
<1> HIDE DEF c, d3
<1>8. e \in T /\ d4 = IpcLine(d3, <<"replace_peers", "true">>) /\ d4 \in Devices(V)
  BY <1>3, <1>7, ReadOne, IpcLineType DEF T
<1> HIDE DEF e, d4
<1>9. /\ d4.ok = d3.ok /\ d4.private = d3.private /\ d4.jc = d3.jc /\ d4.h1 = d3.h1
      /\ d4.peers = NewDevice.peers /\ d4.allowed = NewDevice.allowed
  <2>1. d4 = [d3 EXCEPT !.peers = NewDevice.peers, !.allowed = NewDevice.allowed]
    BY <1>8 DEF IpcLine
  <2> QED BY <1>7, <2>1 DEF Devices
<1> DEFINE ab == a \o b
           abc == ab \o c
           abce == abc \o e
<1>10. HeadLines(cfg) = abce
  BY DEF HeadLines, a, b, c, e, i
<1> HIDE DEF ab
<1>11. ab \in T /\ IpcRead(d0, ab) = d2
  BY <1>2, <1>4, <1>6, ReadConcat DEF T, ab, d1, d2
<1> HIDE DEF abc
<1>12. abc \in T /\ IpcRead(d0, abc) = d3
  BY <1>2, <1>7, <1>11, ReadConcat DEF T, abc, d3
<1> HIDE DEF abce
<1>13. abce \in T /\ IpcRead(d0, abce) = d4
  BY <1>2, <1>8, <1>12, ReadConcat DEF T, abce, d4
<1>14. d4.ok = TRUE
  BY <1>2, <1>5, <1>6, <1>7, <1>9
<1>15. HasFirst(d4, cfg, 0)
  <2>1. d4.private = i.privatekey /\ d4.h1 = i.h1 /\ d4.jc = IF i.jc > 0 THEN i.jc ELSE 0
    BY <1>5, <1>6, <1>7, <1>9
  <2>2. /\ \A key, field : FirstGiven(cfg, 0, key, field) = EmptyPeer[field]
        /\ \A prefix : FirstAllowed(cfg, 0, prefix) = Empty
    <3>1. Len(cfg.peers) \in Nat /\ DOMAIN cfg.peers = 1..Len(cfg.peers)
      BY LenProperties DEF IsConfig
    <3> QED BY <3>1, FirstStep
  <2>3. \A k \in Keys : /\ d4.peers[k].key = Empty /\ d4.peers[k].presharedkey = Empty
                        /\ d4.peers[k].endpoint = Empty /\ d4.peers[k].keepalive = 0
    BY <1>9 DEF NewDevice, NoPeer
  <2>4. \A x \in CIDRs : d4.allowed[x] = Empty
    BY <1>9 DEF NewDevice, CIDRs
  <2>5. /\ EmptyPeer.presharedkey = Empty /\ EmptyPeer.endpoint = Empty
        /\ EmptyPeer.persistentkeepalive = 0
    BY DEF EmptyPeer
  <2>6. \A n \in 1..0 : FALSE
    OBVIOUS
  <2> QED BY <2>1, <2>2, <2>3, <2>4, <2>5, <2>6 DEF HasFirst, i
<1>16. \A n \in 1..0 : FALSE
  OBVIOUS
<1> QED BY <1>8, <1>10, <1>13, <1>14, <1>15, <1>16 DEF Reads, T, d0

\* What the program writes of a configuration makes a device that has it, if it is one
\* a device can be given, and is rejected otherwise.
LEMMA DeviceHas ==
  ASSUME NEW V, Known(V), NEW cfg, IsConfig(V, cfg)
  PROVE  LET d == IpcSet(ToUAPI(cfg)) IN
         /\ d.ok <=> DeviceTakes(cfg)
         /\ d.ok => Has(d, cfg)
<1> DEFINE N == Len(cfg.peers)
           T == Seq(UAPILines(V))
           d0 == IpcRead(NewDevice, HeadLines(cfg))
<1>1. N \in Nat /\ DOMAIN cfg.peers = 1..N /\ \A n \in 1..N : cfg.peers[n] \in PeerConfigs(V)
  BY LenProperties, ElementOfSeq DEF IsConfig
<1>2. HeadLines(cfg) \in T /\ Reads(V, d0, cfg, 0)
  BY HeadReads
<1> HIDE DEF N, T
<1>3. PICK w \in [0..N -> T] :
        /\ w[0] = <<>> /\ \A n \in 1..N : w[n] = w[n - 1] \o PeerLines(cfg.peers[n])
        /\ PeersLines(cfg.peers) = w[N]
  BY PeersLinesStep DEF IsConfig, N, T
<1> DEFINE D(n) == IpcRead(d0, w[n])
           S == {n \in 0..N : Reads(V, D(n), cfg, n)}
<1>4. IpcSet(ToUAPI(cfg)) = D(N)
  <2>1. ToUAPI(cfg) = HeadLines(cfg) \o w[N]
    BY <1>3 DEF ToUAPI, HeadLines
  <2>2. w[N] \in T
    BY <1>1, <1>3
  <2>3. IpcRead(NewDevice, HeadLines(cfg) \o w[N]) = IpcRead(d0, w[N])
    BY <1>2, <2>2, NewDeviceType, ReadConcat DEF T
  <2> QED BY <2>1, <2>3 DEF IpcSet
<1> HIDE DEF d0
<1>5. Reads(V, D(0), cfg, 0)
  BY <1>2, <1>3, ReadNone
<1>6. ASSUME NEW n \in 1..N, Reads(V, D(n - 1), cfg, n - 1) PROVE Reads(V, D(n), cfg, n)
  <2> DEFINE p == cfg.peers[n]
             before == D(n - 1)
             after == D(n)
  <2>1. n - 1 \in 0..N /\ n \in 0..N /\ 1..n = 1..(n - 1) \cup {n}
    BY <1>1
  <2>2. w[n - 1] \in T /\ w[n] = w[n - 1] \o PeerLines(p) /\ p \in PeerConfigs(V)
    BY <1>1, <1>3, <2>1
  <2>3. before \in Devices(V)
    BY <1>6 DEF Reads
  <2>4. d0 \in Devices(V)
    BY <1>2 DEF Reads
  <2>5. PeerLines(p) \in T
    BY <2>2, <2>3, PeerLinesGet DEF T
  <2> HIDE DEF p
  <2>6. IpcRead(d0, w[n - 1] \o PeerLines(p)) = IpcRead(before, PeerLines(p))
    BY <2>2, <2>4, <2>5, ReadConcat DEF T
  <2>7. after = IpcRead(before, PeerLines(p))
    BY <2>2, <2>6
  <2> HIDE DEF before, after
  <2>8. /\ after \in Devices(V)
        /\ after.ok <=> before.ok /\ Takeable(p)
        /\ after.ok => Gets(before, p, after)
    BY <2>2, <2>3, <2>7, PeerLinesGet
  <2>9. /\ before.ok <=> \A i \in 1..(n - 1) : Takeable(cfg.peers[i])
        /\ before.ok => HasFirst(before, cfg, n - 1)
    BY <1>6 DEF Reads, before
  <2>10. after.ok <=> \A i \in 1..n : Takeable(cfg.peers[i])
    BY <2>1, <2>8, <2>9 DEF p
  <2>11. after.ok => HasFirst(after, cfg, n)
    BY <2>8, <2>9, HasFirstStep DEF N, p
  <2>12. Reads(V, after, cfg, n)
    BY <2>8, <2>10, <2>11 DEF Reads
  <2> QED BY <2>12 DEF after
<1> HIDE DEF D
<1>7. 0 \in S /\ \A n \in 1..N : n - 1 \in S => n \in S
  BY <1>1, <1>5, <1>6
<1> HIDE DEF S
<1>8. Reads(V, D(N), cfg, N)
  <2>1. 0..N \subseteq S
    BY <1>1, <1>7, Induction
  <2> QED BY <1>1, <2>1 DEF S
<1> DEFINE d == D(N)
<1>9. /\ d \in Devices(V)
      /\ d.ok <=> \A i \in 1..N : Takeable(cfg.peers[i])
      /\ d.ok => HasFirst(d, cfg, N)
  BY <1>8 DEF Reads
<1> HIDE DEF d
<1>10. d.ok <=> DeviceTakes(cfg)
  BY <1>1, <1>9 DEF DeviceTakes, Takeable, CIDRs
<1>11. ASSUME d.ok PROVE Has(d, cfg)
  <2>1. HasFirst(d, cfg, N) /\ \A i \in 1..N : cfg.peers[i].publickey \in Keys
    BY <1>9, <1>11 DEF Takeable
  <2>2. \A key, field : FirstGiven(cfg, N, key, field) = Given(cfg, key, field)
    BY <1>1, FirstStep DEF N
  <2>3. \A prefix : FirstAllowed(cfg, N, prefix) = AllowedTo(cfg, prefix)
    BY <1>1, FirstStep DEF N
  <2>4. d.jc = Max({0, cfg.interface.jc})
    <3> DEFINE jc == cfg.interface.jc
    <3>1. jc \in Int /\ d.jc = IF jc > 0 THEN jc ELSE 0
      BY <2>1 DEF IsConfig, HasFirst
    <3>2. \A x \in {0, jc} : (\A y \in {0, jc} : x >= y) <=> x = IF jc > 0 THEN jc ELSE 0
      BY <3>1
    <3>3. (IF jc > 0 THEN jc ELSE 0) \in {0, jc}
      BY <3>1
    <3> HIDE DEF jc
    <3>4. Max({0, jc}) = IF jc > 0 THEN jc ELSE 0
      BY <3>2, <3>3 DEF Max
    <3> QED BY <3>1, <3>4 DEF jc
  <2>5. {k \in Keys : d.peers[k].key = k} = {cfg.peers[i].publickey : i \in DOMAIN cfg.peers}
    <3>1. \A k \in Keys : d.peers[k].key = IF \E i \in 1..N : cfg.peers[i].publickey = k THEN k ELSE Empty
      BY <2>1 DEF HasFirst
    <3>2. \A k \in Keys : k # Empty
      BY KeysAssumption
    <3> QED BY <1>1, <2>1, <3>1, <3>2
  <2>6. \A k \in Keys :
          /\ d.peers[k].presharedkey = Given(cfg, k, "presharedkey")
          /\ d.peers[k].endpoint = Given(cfg, k, "endpoint")
          /\ d.peers[k].keepalive = Given(cfg, k, "persistentkeepalive")
    BY <2>1, <2>2 DEF HasFirst
  <2>7. \A c \in DOMAIN d.allowed : d.allowed[c] = AllowedTo(cfg, c)
    <3>1. DOMAIN d.allowed = CIDRs
      BY <1>9 DEF Devices
    <3> QED BY <2>1, <2>3, <3>1 DEF HasFirst
  <2>8. d.private = cfg.interface.privatekey /\ d.h1 = cfg.interface.h1
    BY <2>1 DEF HasFirst
  <2> QED BY <2>4, <2>5, <2>6, <2>7, <2>8 DEF Has
<1> QED BY <1>4, <1>10, <1>11 DEF d

\* A section whose texts, numbers and list items are in V.
Typed(V, entity) ==
    /\ entity = [x \in DOMAIN entity |-> entity[x]]
    /\ \A x \in DOMAIN entity :
        /\ x \in Texts => entity[x] \in V
        /\ x \in Numbers => entity[x] \in V \cap Int
        /\ x \in Lists => entity[x] \in Seq(V)
InterfaceKeys == {"privatekey", "address", "dns", "mtu", "jc", "h1"}
PeerKeys == {"publickey", "presharedkey", "endpoint", "allowedips", "persistentkeepalive"}

\* A line whose value, if it is not ignored, has the type of its key.
TypedLine(V, l) ==
    l.what = "pair" /\ l.value # NotANumber =>
        /\ l.key \in Texts => l.value \in V
        /\ l.key \in Numbers => l.value \in V \cap Int
        /\ l.key \in Lists => l.value \in Seq(V)

\* A line sets one key, to a value of its type.
LEMMA AssignType ==
  ASSUME NEW V, NEW entity, Typed(V, entity), NEW l, l.what = "pair", TypedLine(V, l)
  PROVE  /\ Typed(V, Assign(entity, l.key, l.value))
         /\ DOMAIN Assign(entity, l.key, l.value) = DOMAIN entity
<1> DEFINE key == l.key
           value == l.value
           r == Assign(entity, key, value)
<1>1. /\ value # NotANumber /\ key \in Texts => value \in V
      /\ value # NotANumber /\ key \in Numbers => value \in V \cap Int
      /\ value # NotANumber /\ key \in Lists => value \in Seq(V)
  BY DEF TypedLine
<1> HIDE DEF key, value
<1>2. CASE key \notin DOMAIN entity \/ value = NotANumber
  BY <1>2 DEF Assign, key, value
<1>3. CASE key \in DOMAIN entity /\ value # NotANumber /\ key \in Lists
  <2> DEFINE w == entity[key] \o value
  <2>1. w \in Seq(V)
    BY <1>1, <1>3, ConcatProperties DEF Typed
  <2>2. r = [entity EXCEPT ![key] = w]
    BY <1>3 DEF Assign
  <2> HIDE DEF w, r
  <2>3. key \notin Texts /\ key \notin Numbers
    BY <1>3 DEF Lists, Texts, Numbers
  <2> QED BY <1>3, <2>1, <2>2, <2>3 DEF Typed, r, key, value
<1>4. CASE key \in DOMAIN entity /\ value # NotANumber /\ key \notin Lists
  <2>1. r = [entity EXCEPT ![key] = value]
    BY <1>4 DEF Assign
  <2> HIDE DEF r
  <2> QED BY <1>1, <1>4, <2>1 DEF Typed, r, key, value
<1> QED BY <1>2, <1>3, <1>4

\* A peer is a section with the keys of a peer.
LEMMA PeerIsTyped ==
  ASSUME NEW V, NEW p
  PROVE  p \in PeerConfigs(V) <=> Typed(V, p) /\ DOMAIN p = PeerKeys
<1>1. ASSUME p \in PeerConfigs(V) PROVE Typed(V, p) /\ DOMAIN p = PeerKeys
  BY <1>1 DEF PeerConfigs, Typed, PeerKeys, Texts, Numbers, Lists
<1>2. ASSUME Typed(V, p), DOMAIN p = PeerKeys PROVE p \in PeerConfigs(V)
  BY <1>2 DEF PeerConfigs, Typed, PeerKeys, Texts, Numbers, Lists
<1> QED BY <1>1, <1>2

\* What the parser has so far.
TypedState(V, s) ==
    /\ s = [section |-> s.section, interface |-> s.interface, peers |-> s.peers,
            current |-> s.current]
    /\ Typed(V, s.interface) /\ DOMAIN s.interface = InterfaceKeys
    /\ s.peers \in Seq(PeerConfigs(V)) /\ s.current \in Seq(PeerConfigs(V))

\* Where the parser begins.
LEMMA NothingTyped ==
  ASSUME NEW V, Known(V)
  PROVE  EmptyPeer \in PeerConfigs(V) /\ TypedState(V, NothingParsed)
<1>1. EmptyPeer \in PeerConfigs(V)
  BY EmptySeq DEF EmptyPeer, PeerConfigs, Known
<1>2. Typed(V, EmptyInterface) /\ DOMAIN EmptyInterface = InterfaceKeys
  <2> DEFINE i == EmptyInterface
  <2>1. /\ DOMAIN i = InterfaceKeys /\ i = [x \in DOMAIN i |-> i[x]]
        /\ i.privatekey = Empty /\ i.h1 = Empty /\ i.mtu = 0 /\ i.jc = 0
        /\ i.address = <<>> /\ i.dns = <<>>
    BY DEF EmptyInterface, InterfaceKeys
  <2>2. <<>> \in Seq(V) /\ Empty \in V /\ 0 \in V \cap Int
    BY EmptySeq DEF Known
  <2> HIDE DEF i
  <2>3. Typed(V, i)
    BY <2>1, <2>2 DEF Typed, InterfaceKeys, Texts, Numbers, Lists
  <2> QED BY <2>1, <2>3 DEF i
<1>3. <<>> \in Seq(PeerConfigs(V))
  BY EmptySeq
<1> DEFINE Start(x) == [section |-> x, interface |-> EmptyInterface, peers |-> <<>>, current |-> <<>>]
<1>4. \A x : TypedState(V, Start(x))
  BY <1>2, <1>3 DEF TypedState
<1> HIDE DEF Start
<1>5. TypedState(V, Start(""))
  BY <1>4, Zenon
<1>6. Start("") = NothingParsed
  BY Zenon DEF Start, NothingParsed
<1> QED BY <1>1, <1>5, <1>6

\* One more line.
LEMMA LineTyped ==
  ASSUME NEW V, Known(V), NEW s, TypedState(V, s), NEW l, TypedLine(V, l)
  PROVE  TypedState(V, ParseLine(s, l))
<1> DEFINE P == PeerConfigs(V)
           r == ParseLine(s, l)
<1>1. EmptyPeer \in P
  BY NothingTyped
<1>2. /\ s = [section |-> s.section, interface |-> s.interface, peers |-> s.peers,
              current |-> s.current]
      /\ Typed(V, s.interface) /\ DOMAIN s.interface = InterfaceKeys
      /\ s.peers \in Seq(P) /\ s.current \in Seq(P)
  BY DEF TypedState
<1> HIDE DEF P
<1>3. CASE l.what = "section"
  <2>1. r = EnterSection(s, l.key)
    BY <1>3 DEF ParseLine
  <2>2. CASE l.key # "peer"
    <3>1. r = [s EXCEPT !.section = l.key]
      BY <2>1, <2>2 DEF EnterSection
    <3> HIDE DEF r
    <3> QED BY <1>2, <3>1 DEF TypedState, P, r
  <2>3. CASE l.key = "peer"
    <3> DEFINE ps == s.peers \o s.current
               one == <<EmptyPeer>>
    <3>1. r = [s EXCEPT !.section = l.key, !.peers = ps, !.current = one]
      BY <2>1, <2>3 DEF EnterSection
    <3>2. ps \in Seq(P) /\ one \in Seq(P)
      BY <1>1, <1>2, ConcatProperties
    <3> HIDE DEF r, ps, one
    <3> QED BY <1>2, <3>1, <3>2 DEF TypedState, P, r
  <2> QED BY <2>2, <2>3
<1>4. CASE l.what = "pair" /\ s.section = "interface"
  <2> DEFINE a == Assign(s.interface, l.key, l.value)
  <2>1. r = [s EXCEPT !.interface = a]
    BY <1>4 DEF ParseLine
  <2>2. Typed(V, a) /\ DOMAIN a = InterfaceKeys
    BY <1>2, <1>4, AssignType
  <2> HIDE DEF r, a
  <2> QED BY <1>2, <2>1, <2>2 DEF TypedState, P, r
<1>5. CASE l.what = "pair" /\ s.section = "peer"
  <2> DEFINE p == IF s.current = <<>> THEN EmptyPeer ELSE s.current[1]
             a == Assign(p, l.key, l.value)
             one == <<a>>
  <2>1. r = [s EXCEPT !.current = one]
    BY <1>5 DEF ParseLine
  <2>2. p \in P
    <3>1. s.current # <<>> => s.current[1] \in P
      <4>1. s.current # <<>> => Len(s.current) \in Nat /\ Len(s.current) # 0
        BY <1>2, EmptySeq, LenProperties
      <4>2. s.current # <<>> => 1 \in 1..Len(s.current)
        BY <4>1
      <4> QED BY <1>2, <4>2, ElementOfSeq
    <3> QED BY <1>1, <3>1
  <2> HIDE DEF p
  <2>3. Typed(V, p) /\ DOMAIN p = PeerKeys
    BY <2>2, PeerIsTyped DEF P
  <2>4. Typed(V, a) /\ DOMAIN a = PeerKeys
    BY <1>5, <2>3, AssignType
  <2> HIDE DEF a
  <2>5. a \in P
    BY <2>4, PeerIsTyped DEF P
  <2>6. one \in Seq(P)
    BY <2>5
  <2> HIDE DEF r, one
  <2> QED BY <1>2, <2>1, <2>6 DEF TypedState, P, r
<1>6. CASE /\ l.what # "section" /\ ~(l.what = "pair" /\ s.section = "interface")
           /\ ~(l.what = "pair" /\ s.section = "peer")
  BY <1>6 DEF ParseLine
<1> QED BY <1>3, <1>4, <1>5, <1>6

\* The parser makes a configuration of what stands in the lines.
LEMMA ParseType ==
  ASSUME NEW V, Known(V), NEW L, \A l \in L : TypedLine(V, l), NEW lines \in Seq(L)
  PROVE  IsConfig(V, Parse(lines))
<1> DEFINE N == Len(lines)
           state == ParsedLines(lines)
           S == {n \in 0..N : TypedState(V, state[n])}
<1>1. N \in Nat /\ \A n \in 1..N : lines[n] \in L
  BY LenProperties, ElementOfSeq
<1>2. state[0] = NothingParsed /\ \A n \in 1..N : state[n] = ParseLine(state[n - 1], lines[n])
  BY <1>1, ParsedLinesStep
<1> HIDE DEF state
<1>3. TypedState(V, state[0])
  BY <1>2, NothingTyped
<1>4. \A n \in 1..N : TypedState(V, state[n - 1]) => TypedState(V, state[n])
  BY <1>1, <1>2, LineTyped
<1>5. 0 \in S /\ \A n \in 1..N : n - 1 \in S => n \in S
  BY <1>1, <1>3, <1>4
<1> HIDE DEF S
<1>6. TypedState(V, state[N])
  <2>1. 0..N \subseteq S
    BY <1>1, <1>5, Induction
  <2> QED BY <1>1, <2>1 DEF S
<1> DEFINE s == state[N]
           i == s.interface
           ps == s.peers \o s.current
           cfg == [interface |-> i, peers |-> ps]
<1>7. Parse(lines) = cfg
  BY DEF Parse, Parsed, state
<1>8. Typed(V, i) /\ DOMAIN i = InterfaceKeys /\ ps \in Seq(PeerConfigs(V))
  BY <1>6, ConcatProperties DEF TypedState
<1> HIDE DEF s, i, ps
<1>9. i.privatekey \in V /\ i.h1 \in V /\ i.jc \in V \cap Int
  BY <1>8 DEF Typed, InterfaceKeys, Texts, Numbers, Lists
<1>10. IsConfig(V, cfg)
  BY <1>8, <1>9 DEF IsConfig
<1> QED BY <1>7, <1>10

\* A resolved configuration is one, and the endpoint is the only thing that changes.
LEMMA ResolvedIs ==
  ASSUME NEW V, NEW cfg, IsConfig(V, cfg), NEW e \in V
  PROVE  LET r == Resolved(cfg, e) IN
         /\ IsConfig(V, r) /\ DOMAIN r.peers = DOMAIN cfg.peers
         /\ \A i \in DOMAIN cfg.peers :
              /\ r.peers[i].publickey = cfg.peers[i].publickey
              /\ r.peers[i].endpoint = IF cfg.peers[i].endpoint = Empty THEN Empty ELSE e
<1> DEFINE N == Len(cfg.peers)
           with(p) == IF p.endpoint = Empty THEN p ELSE [p EXCEPT !.endpoint = e]
           ps == [i \in DOMAIN cfg.peers |-> with(cfg.peers[i])]
           r == Resolved(cfg, e)
<1>1. N \in Nat /\ DOMAIN cfg.peers = 1..N /\ \A n \in 1..N : cfg.peers[n] \in PeerConfigs(V)
  BY LenProperties, ElementOfSeq DEF IsConfig
<1>2. \A p \in PeerConfigs(V) :
        /\ with(p) \in PeerConfigs(V) /\ with(p).publickey = p.publickey
        /\ with(p).endpoint = IF p.endpoint = Empty THEN Empty ELSE e
  BY DEF PeerConfigs
<1>3. r = [cfg EXCEPT !.peers = ps]
  BY DEF Resolved
<1> HIDE DEF with, r, N
<1>4. ps \in [1..N -> PeerConfigs(V)] /\ DOMAIN ps = 1..N /\ \A i \in 1..N : ps[i] = with(cfg.peers[i])
  BY <1>1, <1>2
<1> HIDE DEF ps
<1>5. ps \in Seq(PeerConfigs(V))
  BY <1>1, <1>4, SeqDef
<1>6. r = [interface |-> cfg.interface, peers |-> ps]
  BY <1>3 DEF IsConfig
<1>7. r.interface = cfg.interface /\ r.peers = ps
  BY <1>6
<1>8. IsConfig(V, r)
  BY <1>5, <1>6, <1>7 DEF IsConfig
<1> QED BY <1>1, <1>2, <1>4, <1>7, <1>8 DEF r

\* In tunnel mode the peer with the endpoint is the only one the device has an endpoint for.
LEMMA OneEndpoint ==
  ASSUME NEW V, NEW cfg, IsConfig(V, cfg), Cardinality(EndpointPeers(cfg)) = 1,
         NEW e \in V, e # Empty, NEW d, Has(d, Resolved(cfg, e)), DeviceTakes(Resolved(cfg, e))
  PROVE  {d.peers[k].endpoint : k \in Keys} \ {Empty} = {e}
<1> DEFINE r == Resolved(cfg, e)
           N == Len(cfg.peers)
<1>1. N \in Nat /\ DOMAIN cfg.peers = 1..N
  BY LenProperties DEF IsConfig
<1>2. /\ DOMAIN r.peers = DOMAIN cfg.peers
      /\ \A i \in DOMAIN cfg.peers :
            r.peers[i].endpoint = IF cfg.peers[i].endpoint = Empty THEN Empty ELSE e
  BY ResolvedIs
<1>3. Has(d, r) /\ DeviceTakes(r)
  OBVIOUS
<1> HIDE DEF r, N
<1>4. PICK i : EndpointPeers(cfg) = {i}
  <2>1. EndpointPeers(cfg) \subseteq 1..N
    BY <1>1 DEF EndpointPeers
  <2>2. IsFiniteSet(EndpointPeers(cfg))
    BY <1>1, <2>1, FS_Interval, FS_Subset
  <2> QED BY <2>2, FS_Singleton
<1>5. i \in DOMAIN r.peers /\ i \in Nat
      /\ \A j \in DOMAIN r.peers : r.peers[j].endpoint = IF j = i THEN e ELSE Empty
  BY <1>1, <1>2, <1>4 DEF EndpointPeers
<1> DEFINE key == r.peers[i].publickey
<1>6. key \in Keys
  BY <1>3, <1>5 DEF DeviceTakes
<1> HIDE DEF key
<1>7. ASSUME NEW k \in Keys
      PROVE  d.peers[k].endpoint = IF k = key THEN e ELSE Empty
  <2> DEFINE some == {j \in DOMAIN r.peers :
                        r.peers[j].publickey = k /\ ~LeftOut("endpoint", r.peers[j].endpoint)}
  <2>1. d.peers[k].endpoint = Given(r, k, "endpoint")
    BY <1>3 DEF Has
  <2>2. \A x : LeftOut("endpoint", x) <=> x = Empty
    BY DEF LeftOut, Numbers
  <2>3. some = IF k = key THEN {i} ELSE {}
    BY <1>5, <2>2 DEF key
  <2>4. Given(r, k, "endpoint") = IF some = {} THEN EmptyPeer.endpoint ELSE r.peers[Max(some)].endpoint
    BY DEF Given
  <2> HIDE DEF some
  <2>5. Max({i}) = i
    BY <1>5, MaxOfMore DEF Max
  <2>6. EmptyPeer.endpoint = Empty
    BY DEF EmptyPeer
  <2> QED BY <1>5, <2>1, <2>3, <2>4, <2>5, <2>6
<1> QED BY <1>6, <1>7

-----------------------------------------------------------------------------
(* Command lines *)

\* Options read from a state on end in a state.
Turns(s, args, r) ==
    \E f : /\ f[0] = s /\ f[Len(args)] = r
           /\ \A n \in 1..Len(args) : f[n] = ReadArgument(f[n - 1], args[n])

\* Recursion without a type: what is made one by one exists.
LEMMA FlagsTurn ==
  ASSUME NEW args, Len(args) \in Nat
  PROVE  Turns(NoFlags, args, ReadFlags(args))
<1> DEFINE N == Len(args)
           Row(s, n) == ReadArgument(s, args[n])
           Is(f, n) == f = [i \in 0..n |-> IF i = 0 THEN NoFlags ELSE Row(f[i - 1], i)]
           Met(n) == \E f : Is(f, n)
           S == {n \in 0..N : Met(n)}
           read == CHOOSE f : Is(f, N)
<1>1. ReadFlags(args) = read[N]
  BY DEF ReadFlags
<1>2. N \in Nat
  OBVIOUS
<1> HIDE DEF N, Row
<1>3. Met(0)
  <2> DEFINE f == [i \in 0..0 |-> NoFlags]
  <2>1. Is(f, 0)
    OBVIOUS
  <2> QED BY <2>1
<1>4. ASSUME NEW n \in 1..N, Met(n - 1) PROVE Met(n)
  <2>1. PICK f : Is(f, n - 1)
    BY <1>4
  <2> DEFINE g == [i \in 0..n |-> IF i = n THEN Row(f[n - 1], n) ELSE f[i]]
  <2>2. \A i \in 0..(n - 1) : f[i] = IF i = 0 THEN NoFlags ELSE Row(f[i - 1], i)
    BY <2>1
  <2>3. n # 0 /\ n \in 0..n /\ \A i \in 0..n : i # n => i \in 0..(n - 1)
    BY <1>2
  <2>4. \A i \in 0..n : i # 0 => i - 1 \in 0..n /\ i - 1 # n
    BY <1>2
  <2>5. /\ g[n] = Row(f[n - 1], n) /\ \A i \in 0..n : i # n => g[i] = f[i]
        /\ g = [i \in 0..n |-> g[i]]
    BY <2>3
  <2> HIDE DEF g
  <2>6. \A i \in 0..n : g[i] = IF i = 0 THEN NoFlags ELSE Row(g[i - 1], i)
    BY <2>2, <2>3, <2>4, <2>5
  <2>7. Is(g, n)
    BY <2>5, <2>6
  <2> QED BY <2>7
<1> HIDE DEF Met
<1>5. 0 \in S /\ \A n \in 1..N : n - 1 \in S => n \in S
  BY <1>2, <1>3, <1>4
<1> HIDE DEF S
<1>6. Is(read, N)
  <2>1. 0..N \subseteq S
    BY <1>2, <1>5, Induction
  <2>2. \E f : Is(f, N)
    BY <1>2, <2>1 DEF S, Met
  <2> HIDE DEF Is
  <2> QED BY <2>2
<1>7. 0 \in 0..N /\ \A n \in 1..N : n \in 0..N /\ n # 0
  BY <1>2
<1> HIDE DEF read
<1>8. read[0] = NoFlags /\ \A n \in 1..N : read[n] = Row(read[n - 1], n)
  BY <1>6, <1>7
<1> QED BY <1>1, <1>8 DEF Turns, N, Row

\* Arguments one after the other are two turns.
LEMMA TurnsConcat ==
  ASSUME NEW G, NEW a \in Seq(G), NEW b \in Seq(G), NEW s, NEW r, Turns(s, a \o b, r)
  PROVE  \E m : Turns(s, a, m) /\ Turns(m, b, r)
<1> DEFINE A == Len(a)
           B == Len(b)
           c == a \o b
<1>1. /\ A \in Nat /\ B \in Nat /\ Len(c) = A + B
      /\ \A i \in 1..A : c[i] = a[i]
      /\ \A i \in 1..B : c[A + i] = b[i]
  BY LenProperties, ConcatProperties
<1>2. PICK f : /\ f[0] = s /\ f[Len(c)] = r
               /\ \A n \in 1..Len(c) : f[n] = ReadArgument(f[n - 1], c[n])
  BY DEF Turns
<1> DEFINE g == [n \in 0..B |-> f[A + n]]
<1> HIDE DEF A, B, c
<1>3. f[0] = s /\ f[A + B] = r /\ \A n \in 1..(A + B) : f[n] = ReadArgument(f[n - 1], c[n])
  BY <1>1, <1>2
<1>4. \A n \in 1..A : f[n] = ReadArgument(f[n - 1], a[n])
  BY <1>1, <1>3
<1>5. Turns(s, a, f[A])
  BY <1>3, <1>4 DEF Turns, A
<1>6. g[0] = f[A] /\ g[B] = r
  BY <1>1, <1>3
<1>7. ASSUME NEW n \in 1..B PROVE g[n] = ReadArgument(g[n - 1], b[n])
  <2>1. A + n \in 1..(A + B) /\ n \in 0..B /\ n - 1 \in 0..B /\ (A + n) - 1 = A + (n - 1)
    BY <1>1
  <2>2. g[n] = f[A + n] /\ g[n - 1] = f[A + (n - 1)]
    BY <2>1
  <2>3. f[A + n] = ReadArgument(f[(A + n) - 1], c[A + n])
    BY <1>3, <2>1
  <2> HIDE DEF g
  <2> QED BY <1>1, <2>1, <2>2, <2>3
<1> HIDE DEF g
<1>8. Turns(f[A], b, r)
  BY <1>6, <1>7 DEF Turns, B
<1> QED BY <1>5, <1>8

\* One argument is one turn.
LEMMA TurnsOne ==
  ASSUME NEW s, NEW x, NEW r, Turns(s, <<x>>, r)
  PROVE  r = ReadArgument(s, x)
<1> DEFINE l == <<x>>
<1>1. Len(l) = 1 /\ l[1] = x
  OBVIOUS
<1> HIDE DEF l
<1>2. PICK f : f[0] = s /\ f[Len(l)] = r /\ \A n \in 1..Len(l) : f[n] = ReadArgument(f[n - 1], l[n])
  BY DEF Turns, l
<1>3. 1 \in 1..Len(l) /\ 1 - 1 = 0
  BY <1>1
<1> QED BY <1>1, <1>2, <1>3

\* No argument is none.
LEMMA TurnsNone ==
  ASSUME NEW s, NEW r, Turns(s, <<>>, r)
  PROVE  r = s
<1>1. Len(<<>>) = 0
  BY EmptySeq
<1> QED BY <1>1 DEF Turns

\* An error stays one, whatever follows.
LEMMA TurnsStuck ==
  ASSUME NEW s, ~s.ok, NEW args, Len(args) \in Nat, NEW r, Turns(s, args, r)
  PROVE  r = s
<1> DEFINE N == Len(args)
<1>1. PICK f : f[0] = s /\ f[N] = r /\ \A n \in 1..N : f[n] = ReadArgument(f[n - 1], args[n])
  BY DEF Turns
<1> DEFINE S == {n \in 0..N : f[n] = s}
<1>2. \A x : ReadArgument(s, x) = s
  BY DEF ReadArgument
<1>3. N \in Nat
  OBVIOUS
<1> HIDE DEF N
<1>4. 0 \in S /\ \A n \in 1..N : n - 1 \in S => n \in S
  BY <1>1, <1>2, <1>3
<1> HIDE DEF S
<1>5. 0..N \subseteq S
  BY <1>3, <1>4, Induction
<1> QED BY <1>1, <1>3, <1>5 DEF S

\* What the flags can be.
Names == {"config", "app", "port"}
FlagStates(G) ==
    [ok : BOOLEAN, reading : BOOLEAN, wants : Names \cup {"none"}, rest : Seq(G),
     dry : BOOLEAN, values : [Names -> G \cup {Unset}]]

\* The options that take a value, one by one.
LEMMA TakesNames ==
  /\ DOMAIN Takes = Names
  /\ TakingOptions = {"-c", "-a", "-s"}
  /\ Takes["config"] = {"-c"} /\ Takes["app"] = {"-a"} /\ Takes["port"] = {"-s"}
<1>1. DOMAIN Takes = Names
  BY DEF Takes, Names
<1>2. Takes["config"] = {"-c"} /\ Takes["app"] = {"-a"} /\ Takes["port"] = {"-s"}
  BY DEF Takes
<1>3. TakingOptions = Takes["config"] \cup Takes["app"] \cup Takes["port"]
  BY <1>1 DEF TakingOptions, Names
<1> HIDE DEF Takes
<1> QED BY <1>1, <1>2, <1>3

\* Once the options are over, the rest is kept as it is.
LEMMA TurnsRest ==
  ASSUME NEW G, NEW s \in FlagStates(G), s.ok, ~s.reading,
         NEW args \in Seq(G), NEW r, Turns(s, args, r)
  PROVE  /\ r.ok = s.ok /\ r.wants = s.wants /\ r.dry = s.dry /\ r.values = s.values
         /\ r.rest = s.rest \o args
<1> DEFINE N == Len(args)
           M == Len(s.rest)
           u == s.rest \o args
           Part(n) == SubSeq(u, 1, M + n)
<1>1. N \in Nat /\ M \in Nat /\ s.rest \in Seq(G)
  BY LenProperties DEF FlagStates
<1>2. /\ u \in Seq(G) /\ Len(u) = M + N
      /\ \A i \in 1..M : u[i] = s.rest[i]
      /\ \A i \in 1..N : u[M + i] = args[i]
  BY <1>1, ConcatProperties
<1>3. PICK f : f[0] = s /\ f[N] = r /\ \A n \in 1..N : f[n] = ReadArgument(f[n - 1], args[n])
  BY DEF Turns
<1> HIDE DEF N, M, u
<1>4. \A n \in 0..N : /\ Part(n) \in Seq(G) /\ Len(Part(n)) = M + n
                      /\ \A i \in 1..(M + n) : Part(n)[i] = u[i]
  <2> SUFFICES ASSUME NEW n \in 0..N
               PROVE  /\ Part(n) \in Seq(G) /\ Len(Part(n)) = M + n
                      /\ \A i \in 1..(M + n) : Part(n)[i] = u[i]
    OBVIOUS
  <2> DEFINE k == M + n
  <2>1. k \in 0..Len(u) /\ k \in Int /\ 1 <= k + 1 /\ k - 1 + 1 = k
    BY <1>1, <1>2
  <2>2. \A i \in 1..k : u[i] \in G
    BY <1>2, <2>1, ElementOfSeq
  <2> HIDE DEF k
  <2>3. SubSeq(u, 1, k) = [i \in 1..k |-> u[i]]
    BY <1>2, <2>1
  <2>4. [i \in 1..k |-> u[i]] \in Seq(G) /\ Len([i \in 1..k |-> u[i]]) = k
    BY <2>1, <2>2
  <2> QED BY <2>3, <2>4 DEF k
<1>5. Part(0) = s.rest
  <2>1. 0 \in 0..N /\ M + 0 = M
    BY <1>1
  <2>2. Part(0) \in Seq(G) /\ Len(Part(0)) = M /\ \A i \in 1..M : Part(0)[i] = s.rest[i]
    BY <1>2, <1>4, <2>1
  <2> HIDE DEF Part
  <2> QED BY <1>1, <2>2, SeqEqual DEF M
<1>6. Part(N) = u
  <2>1. N \in 0..N
    BY <1>1
  <2>2. Part(N) \in Seq(G) /\ Len(Part(N)) = M + N /\ \A i \in 1..(M + N) : Part(N)[i] = u[i]
    BY <1>4, <2>1
  <2> HIDE DEF Part
  <2> QED BY <1>2, <2>2, SeqEqual
<1>7. \A n \in 1..N : Append(Part(n - 1), args[n]) = Part(n)
  <2> SUFFICES ASSUME NEW n \in 1..N PROVE Append(Part(n - 1), args[n]) = Part(n)
    OBVIOUS
  <2>1. n - 1 \in 0..N /\ n \in 0..N /\ M + (n - 1) + 1 = M + n /\ args[n] = u[M + n]
    BY <1>1, <1>2
  <2> DEFINE p == Part(n - 1)
             q == Part(n)
             k == M + (n - 1)
             x == args[n]
  <2>2. /\ p \in Seq(G) /\ Len(p) = k /\ \A i \in 1..k : p[i] = u[i]
        /\ q \in Seq(G) /\ Len(q) = k + 1 /\ \A i \in 1..(k + 1) : q[i] = u[i]
    BY <1>4, <2>1
  <2>3. k \in Nat /\ x = u[k + 1] /\ x \in G
    BY <1>1, <1>2, <2>1, ElementOfSeq DEF N
  <2> HIDE DEF p, q, k, x, Part
  <2>4. /\ Append(p, x) \in Seq(G) /\ Len(Append(p, x)) = k + 1
        /\ \A i \in 1..k : Append(p, x)[i] = p[i]
        /\ Append(p, x)[k + 1] = x
    BY <2>2, <2>3, AppendProperties
  <2>5. \A i \in 1..(k + 1) : Append(p, x)[i] = q[i]
    BY <2>2, <2>3, <2>4
  <2>6. Append(p, x) = q
    BY <2>2, <2>4, <2>5, SeqEqual
  <2> QED BY <2>6 DEF p, q, x
<1> HIDE DEF Part
<1> DEFINE Is(x, n) == /\ x \in FlagStates(G) /\ x.ok = s.ok /\ x.reading = s.reading
                       /\ x.wants = s.wants /\ x.dry = s.dry /\ x.values = s.values
                       /\ x.rest = Part(n)
           S == {n \in 0..N : Is(f[n], n)}
<1>8. Is(f[0], 0)
  BY <1>3, <1>5
<1>9. ASSUME NEW n \in 1..N, Is(f[n - 1], n - 1) PROVE Is(f[n], n)
  <2> DEFINE x == f[n - 1]
             y == Append(x.rest, args[n])
  <2>1. f[n] = [x EXCEPT !.rest = y]
    BY <1>3, <1>9 DEF ReadArgument
  <2>2. y = Part(n) /\ y \in Seq(G)
    BY <1>1, <1>4, <1>7, <1>9
  <2> HIDE DEF y
  <2>3. x \in FlagStates(G) /\ x.ok = s.ok /\ x.reading = s.reading
                       /\ x.wants = s.wants /\ x.dry = s.dry /\ x.values = s.values
    BY <1>9
  <2> HIDE DEF x
  <2> QED BY <2>1, <2>2, <2>3 DEF FlagStates
<1> HIDE DEF Is
<1>10. 0 \in S /\ \A n \in 1..N : n - 1 \in S => n \in S
  BY <1>1, <1>8, <1>9
<1> HIDE DEF S
<1>11. Is(f[N], N)
  <2>1. 0..N \subseteq S
    BY <1>1, <1>10, Induction
  <2> QED BY <1>1, <2>1 DEF S
<1> QED BY <1>3, <1>6, <1>11 DEF Is, u

\* All that may stand on a line of these pieces.
AllArguments == UNION {Range(p) : p \in Pieces}

\* The flags stand between two options.
Between(f) == f.ok /\ f.reading /\ f.wants = "none" /\ f.rest = <<>>

\* What a piece is made of, and how long it is.
LEMMA PieceShape ==
  ASSUME NEW p \in Pieces
  PROVE  /\ p \in Seq(AllArguments)
         /\ p[1] \in TakingOptions => /\ p = <<p[1], p[2]>> /\ Len(p) = 2
                                      /\ p[1] \in AllArguments /\ p[2] \in AllArguments
         /\ p[1] \notin TakingOptions => /\ p = <<p[1]>> /\ Len(p) = 1
                                         /\ p[1] \in AllArguments
<1>1. \A x \in Range(p) : x \in AllArguments
  BY DEF AllArguments
<1>2. CASE p[1] \in TakingOptions
  <2> DEFINE o == p[1]
             v == p[2]
  <2>1. p = <<o, v>>
    BY <1>2, PiecesAssumption
  <2> HIDE DEF o, v
  <2>2. o \in Range(p) /\ v \in Range(p)
    <3>1. DOMAIN p = 1..2 /\ p[1] = o /\ p[2] = v
      BY <2>1
    <3> QED BY <3>1 DEF Range
  <2>3. o \in AllArguments /\ v \in AllArguments
    BY <1>1, <2>2
  <2>4. <<o, v>> \in Seq(AllArguments) /\ Len(<<o, v>>) = 2
    BY <2>3
  <2> QED BY <1>2, <2>1, <2>3, <2>4 DEF o, v
<1>3. CASE p[1] \notin TakingOptions
  <2> DEFINE o == p[1]
  <2>1. p = <<o>>
    BY <1>3, PiecesAssumption
  <2> HIDE DEF o
  <2>2. o \in Range(p)
    <3>1. DOMAIN p = 1..1 /\ p[1] = o
      BY <2>1
    <3> QED BY <3>1 DEF Range
  <2>3. o \in AllArguments
    BY <1>1, <2>2
  <2>4. <<o>> \in Seq(AllArguments) /\ Len(<<o>>) = 1
    BY <2>3
  <2> QED BY <1>3, <2>1, <2>3, <2>4 DEF o
<1> QED BY <1>2, <1>3

\* What is wrong in an option wherever it stands.
WrongOption(p) ==
    \/ p[1] = "-s" /\ p[2] \notin Ports
    \/ p[1] \notin TakingOptions \cup {"--dry-run"}

\* Two arguments, one after the other.
LEMMA OneAndOne ==
  ASSUME NEW G, NEW o \in G, NEW v \in G
  PROVE  <<o>> \in Seq(G) /\ <<v>> \in Seq(G) /\ <<o>> \o <<v>> = <<o, v>>
<1> DEFINE a == <<o>>
           b == <<v>>
           c == <<o, v>>
<1>1. /\ a \in Seq(G) /\ Len(a) = 1 /\ a[1] = o
      /\ b \in Seq(G) /\ Len(b) = 1 /\ b[1] = v
      /\ c \in Seq(G) /\ Len(c) = 2 /\ c[1] = o /\ c[2] = v
  OBVIOUS
<1> HIDE DEF a, b, c
<1>2. a \o b \in Seq(G) /\ Len(a \o b) = 2 /\ (a \o b)[1] = o /\ (a \o b)[2] = v
  <2>1. /\ a \o b \in Seq(G) /\ Len(a \o b) = Len(a) + Len(b)
        /\ \A i \in 1..(Len(a) + Len(b)) :
              (a \o b)[i] = IF i <= Len(a) THEN a[i] ELSE b[i - Len(a)]
    BY <1>1, ConcatProperties
  <2>2. 1 + 1 = 2 /\ 1 \in 1..2 /\ 2 \in 1..2 /\ 2 - 1 = 1 /\ 1 <= 1 /\ ~(2 <= 1)
    OBVIOUS
  <2> QED BY <1>1, <2>1, <2>2
<1>3. \A i \in 1..2 : i = 1 \/ i = 2
  OBVIOUS
<1>4. a \o b = c
  BY <1>1, <1>2, <1>3, SeqEqual
<1> QED BY <1>1, <1>4 DEF a, b, c

\* One option.
LEMMA OptionTurn ==
  ASSUME NEW p \in Pieces, IsOption(p), NEW s \in FlagStates(AllArguments), Between(s),
         NEW r, Turns(s, p, r)
  PROVE  /\ r \in FlagStates(AllArguments)
         /\ r.ok <=> ~WrongOption(p)
         /\ r.ok => /\ Between(r)
                    /\ r.dry <=> s.dry \/ p = <<"--dry-run">>
                    /\ \A n \in Names : r.values[n] = IF p[1] \in Takes[n] THEN p[2] ELSE s.values[n]
<1> DEFINE G == AllArguments
           o == p[1]
           v == p[2]
<1>1. /\ p \in Seq(G) /\ (o \in TakingOptions => p = <<o, v>> /\ o \in G /\ v \in G)
      /\ o \notin TakingOptions => p = <<o>> /\ o \in G
  BY PieceShape
<1>2. o \notin Words \cup Commands /\ p # <<"--">>
  BY DEF IsOption
<1>3. WrongOption(p) <=> (o = "-s" /\ v \notin Ports) \/ o \notin TakingOptions \cup {"--dry-run"}
  BY DEF WrongOption
<1>4. \A n \in Names : o \in Takes[n] => o \in TakingOptions
  BY TakesNames DEF Names
<1>5. s.ok /\ s.reading /\ s.wants = "none" /\ s.rest = <<>>
  BY DEF Between
<1> HIDE DEF G, o, v
<1>6. ReadArgument(s, o) = ReadOption(s, o)
  BY <1>5 DEF ReadArgument
<1>7. CASE o \in TakingOptions
  <2> DEFINE name == CHOOSE n \in Names : o \in Takes[n]
             m == ReadArgument(s, o)
  <2>1. o \in {"-c", "-a", "-s"} /\ o # "--dry-run" /\ o # "--" /\ o \notin Words \cup Commands
    BY <1>2, <1>7, TakesNames DEF Commands
  <2>2. /\ name \in Names /\ (name = "port" <=> o = "-s")
        /\ \A n \in Names : o \in Takes[n] <=> n = name
    <3>1. \E n \in Names : o \in Takes[n]
      BY <2>1, TakesNames DEF Names
    <3>2. name \in Names /\ o \in Takes[name]
      BY <3>1
    <3> HIDE DEF name
    <3> QED BY <3>2, TakesNames DEF Names
  <2>3. m = [s EXCEPT !.wants = name]
    BY <1>6, <1>7, <2>1, TakesNames DEF ReadOption
  <2> HIDE DEF name, m
  <2>4. /\ m \in FlagStates(G) /\ m.ok /\ m.reading /\ m.wants = name /\ name # "none"
        /\ m.rest = <<>> /\ m.dry = s.dry /\ m.values = s.values
    BY <1>5, <2>2, <2>3 DEF FlagStates, Names, G
  <2>5. r = ReadValue(m, v)
    <3>1. <<o>> \in Seq(G) /\ <<v>> \in Seq(G) /\ <<o>> \o <<v>> = <<o, v>>
      BY <1>1, <1>7, OneAndOne
    <3>2. p = <<o>> \o <<v>>
      BY <1>1, <1>7, <3>1
    <3> DEFINE po == <<o>>
               pv == <<v>>
    <3> HIDE DEF po, pv
    <3>3. PICK x : Turns(s, po, x) /\ Turns(x, pv, r)
      <4>1. Turns(s, po \o pv, r) /\ po \in Seq(G) /\ pv \in Seq(G)
        BY <3>1, <3>2 DEF po, pv
      <4> QED BY <4>1, TurnsConcat
    <3>4. x = m
      BY <3>3, TurnsOne DEF po, m
    <3>5. r = ReadArgument(m, v)
      BY <3>3, <3>4, TurnsOne DEF pv
    <3> QED BY <2>4, <3>5 DEF ReadArgument
  <2>6. CASE name = "port" /\ v \notin Ports
    <3>1. r = [m EXCEPT !.ok = FALSE]
      BY <2>4, <2>5, <2>6 DEF ReadValue
    <3>2. r \in FlagStates(G) /\ ~r.ok
      BY <2>4, <3>1 DEF FlagStates
    <3> QED BY <1>3, <2>2, <2>6, <3>2 DEF G
  <2>7. CASE ~(name = "port" /\ v \notin Ports)
    <3> DEFINE vs == [m.values EXCEPT ![name] = v]
    <3>1. r = [m EXCEPT !.values = vs, !.wants = "none"]
      BY <2>4, <2>5, <2>7 DEF ReadValue
    <3>2. m.values \in [Names -> G \cup {Unset}] /\ v \in G
      BY <1>1, <1>7, <2>4 DEF FlagStates
    <3>3. vs \in [Names -> G \cup {Unset}] /\ \A n \in Names : vs[n] = IF n = name THEN v ELSE m.values[n]
      BY <2>2, <3>2
    <3> HIDE DEF vs
    <3>4. /\ r \in FlagStates(G) /\ r.ok /\ r.reading /\ r.wants = "none" /\ r.rest = <<>>
          /\ r.dry = s.dry /\ r.values = vs
      BY <2>4, <3>1, <3>3 DEF FlagStates
    <3>5. ~WrongOption(p)
      BY <1>3, <1>7, <2>2, <2>7
    <3>6. p # <<"--dry-run">>
      <4>1. Len(<<o, v>>) = 2 /\ Len(<<"--dry-run">>) = 1
        OBVIOUS
      <4> QED BY <1>1, <1>7, <4>1
    <3>7. \A n \in Names : r.values[n] = IF o \in Takes[n] THEN v ELSE s.values[n]
      BY <2>2, <2>4, <3>3, <3>4
    <3> QED BY <3>4, <3>5, <3>6, <3>7 DEF Between, G, o, v
  <2> QED BY <2>6, <2>7
<1>8. CASE o \notin TakingOptions
  <2>1. p = <<o>> /\ o \notin Words \cup Commands /\ \A n \in Names : o \notin Takes[n]
    BY <1>1, <1>2, <1>4, <1>8
  <2>2. o # "--"
    BY <1>2, <2>1
  <2>3. r = ReadOption(s, o)
    BY <1>6, <2>1, TurnsOne
  <2>4. CASE o = "--dry-run"
    <3>1. r = [s EXCEPT !.dry = TRUE]
      BY <1>8, <2>1, <2>2, <2>3, <2>4 DEF ReadOption
    <3>2. /\ r \in FlagStates(G) /\ r.ok /\ r.reading /\ r.wants = "none" /\ r.rest = <<>>
          /\ r.dry /\ r.values = s.values
      BY <1>5, <3>1 DEF FlagStates, G
    <3>3. ~WrongOption(p)
      BY <1>3, <2>4
    <3> QED BY <2>1, <2>4, <3>2, <3>3 DEF Between, G, o, v
  <2>5. CASE o # "--dry-run"
    <3>1. r = [s EXCEPT !.ok = FALSE]
      BY <1>8, <2>1, <2>2, <2>3, <2>5 DEF ReadOption
    <3>2. r \in FlagStates(G) /\ ~r.ok
      BY <1>5, <3>1 DEF FlagStates, G
    <3>3. WrongOption(p)
      BY <1>3, <1>8, <2>5
    <3> QED BY <3>2, <3>3 DEF G
  <2> QED BY <2>4, <2>5
<1> QED BY <1>7, <1>8

\* What a line is written with grows piece by piece.
LEMMA WrittenStep ==
  ASSUME NEW pieces \in Seq(Pieces)
  PROVE  /\ Written(pieces) \in [0..Len(pieces) -> Seq(AllArguments)]
         /\ Written(pieces)[0] = <<>>
         /\ \A n \in 1..Len(pieces) : Written(pieces)[n] = Written(pieces)[n - 1] \o pieces[n]
<1> DEFINE N == Len(pieces)
           T == Seq(AllArguments)
           step == [x \in (1..N) \X T |-> x[2] \o pieces[x[1]]]
           Row(s, n) == s \o pieces[n]
           Is(f) == f = [n \in 0..N |-> IF n = 0 THEN <<>> ELSE Row(f[n - 1], n)]
           w == CHOOSE f : Is(f)
           S == {n \in 0..N : w[n] \in T}
<1>1. N \in Nat /\ \A n \in 1..N : pieces[n] \in Pieces
  BY LenProperties, ElementOfSeq
<1>2. \A n \in 1..N : pieces[n] \in T
  BY <1>1, PieceShape
<1>3. <<>> \in T /\ \A n \in 1..N : \A s \in T : Row(s, n) \in T
  BY <1>2, EmptySeq, ConcatProperties
<1>4. Written(pieces) = w
  BY DEF Written
<1>5. step \in [(1..N) \X T -> T] /\ \A n \in 1..N : \A s \in T : step[<<n, s>>] = Row(s, n)
  BY <1>3
<1> HIDE DEF N, T, step, Row
<1>6. PICK f \in [0..N -> T] : Recurs(f, N, <<>>, step)
  BY <1>1, <1>3, <1>5, Recursion
<1>7. /\ 0 \in 0..N /\ \A n \in 1..N : n - 1 \in 0..N /\ n \in 0..N /\ n # 0
      /\ \A n \in 0..N : n = 0 \/ n \in 1..N
  BY <1>1
<1>8. Is(f)
  BY <1>5, <1>6, <1>7 DEF Recurs
<1>9. Is(w)
  <2> HIDE DEF Is
  <2> QED BY <1>8
<1> HIDE DEF w
<1>10. w[0] = <<>> /\ \A n \in 1..N : w[n] = Row(w[n - 1], n)
  BY <1>7, <1>9
<1>11. 0 \in S /\ \A n \in 1..N : n - 1 \in S => n \in S
  BY <1>3, <1>7, <1>10
<1> HIDE DEF S
<1>12. 0..N \subseteq S
  BY <1>1, <1>11, Induction
<1>13. w = [n \in 0..N |-> w[n]] /\ \A n \in 0..N : w[n] \in T
  BY <1>9, <1>12 DEF S
<1>14. w \in [0..N -> T]
  BY <1>13
<1> QED BY <1>4, <1>10, <1>14 DEF N, T, Row

\* The options at the beginning end before the first piece that is none.
LEMMA LeadingIs ==
  ASSUME NEW pieces \in Seq(Pieces)
  PROVE  LET L == LeadingOptions(pieces) IN
         /\ L \in 0..Len(pieces) /\ \A i \in 1..L : IsOption(pieces[i])
         /\ L < Len(pieces) => ~IsOption(pieces[L + 1])
         /\ DOMAIN Leading(pieces) = 1..L /\ Len(Leading(pieces)) = L
         /\ \A i \in 1..L : Leading(pieces)[i] = pieces[i]
<1> DEFINE N == Len(pieces)
           L == LeadingOptions(pieces)
           K == {n \in 0..N : \A i \in 1..n : IsOption(pieces[i])}
           Others == {n \in 1..N : ~IsOption(pieces[n])}
           End(m) == /\ m \in 0..N /\ \A i \in 1..m : IsOption(pieces[i])
                     /\ m < N => ~IsOption(pieces[m + 1])
<1>1. N \in Nat /\ \A i \in 1..N : pieces[i] \in Pieces
  BY LenProperties, ElementOfSeq
<1> HIDE DEF N
<1>2. \E m : End(m)
  <2>1. CASE Others = {}
    <3>1. End(N)
      BY <1>1, <2>1
    <3> QED BY <3>1
  <2>2. CASE Others # {}
    <3>1. Others \in SUBSET Nat
      BY <1>1
    <3> DEFINE T == Others
    <3> HIDE DEF T
    <3>2. PICK n \in T : \A k \in T : n <= k
      BY <2>2, <3>1, LeastNatural DEF T
    <3>3. n \in 1..N /\ ~IsOption(pieces[n]) /\ \A i \in 1..N : ~IsOption(pieces[i]) => n <= i
      BY <3>2 DEF T
    <3>4. \A i \in 1..(n - 1) : i \in 1..N /\ ~(n <= i)
      BY <1>1, <3>3
    <3>5. n - 1 \in 0..N /\ (n - 1) + 1 = n
      BY <1>1, <3>3
    <3>6. End(n - 1)
      BY <3>3, <3>4, <3>5
    <3> QED BY <3>6
  <2> QED BY <2>1, <2>2
<1>3. PICK m : End(m)
  BY <1>2
<1>4. L = m
  <2>1. L = Max(K)
    BY DEF LeadingOptions, N
  <2>2. m \in K
    BY <1>3
  <2>3. \A n \in K : m >= n
    <3> SUFFICES ASSUME NEW n \in K, n > m PROVE FALSE
      BY <1>1, <1>3
    <3>1. m + 1 \in 1..n /\ m < N
      BY <1>1, <1>3
    <3> QED BY <1>3, <3>1
  <2>4. \A n \in K : (\A k \in K : n >= k) => n = m
    BY <1>1, <2>2, <2>3
  <2> HIDE DEF K, End
  <2> QED BY <2>1, <2>2, <2>3, <2>4 DEF Max
<1>5. Leading(pieces) = SubSeq(pieces, 1, m)
  BY <1>4 DEF Leading
<1> HIDE DEF L
<1>6. m \in Int /\ m - 1 + 1 = m /\ 1 \in Int /\ (1 <= m <=> m # 0) /\ \A i \in 1..m : 1 + i - 1 = i
  BY <1>1, <1>3
<1>7. \A i \in 1..m : pieces[i] \in Pieces
  BY <1>1, <1>3
<1> DEFINE lead == SubSeq(pieces, 1, m)
<1>8. lead \in Seq(Pieces) /\ Len(lead) = m /\ \A i \in 1..m : lead[i] = pieces[i]
  BY <1>6, <1>7, SubSeqProperties
<1> HIDE DEF lead
<1>9. DOMAIN lead = 1..m
  BY <1>8, LenProperties
<1> QED BY <1>3, <1>4, <1>5, <1>8, <1>9 DEF lead, N, L

\* The last value that the first n pieces give a variable.
SettingBy(pieces, name) == {i \in DOMAIN Leading(pieces) : pieces[i][1] \in Takes[name]}
FirstValue(pieces, n, name) ==
    LET setting == SettingBy(pieces, name) \cap (1..n)
    IN IF setting = {} THEN Unset ELSE pieces[Max(setting)][2]

\* That value grows option by option into the last one of all.
LEMMA FirstValueStep ==
  ASSUME NEW pieces \in Seq(Pieces), NEW name
  PROVE  /\ FirstValue(pieces, 0, name) = Unset
         /\ \A n \in 1..LeadingOptions(pieces) : FirstValue(pieces, n, name) =
              IF pieces[n][1] \in Takes[name] THEN pieces[n][2] ELSE FirstValue(pieces, n - 1, name)
         /\ FirstValue(pieces, LeadingOptions(pieces), name) = ValueOf(pieces, name)
<1> DEFINE L == LeadingOptions(pieces)
           T == SettingBy(pieces, name)
<1>1. L \in 0..Len(pieces) /\ Len(pieces) \in Nat /\ DOMAIN Leading(pieces) = 1..L
  BY LeadingIs, LenProperties
<1> HIDE DEF L
<1>2. T \cap (1..0) = {} /\ T \cap (1..L) = T
  BY <1>1 DEF SettingBy
<1>3. FirstValue(pieces, 0, name) = Unset
  BY <1>2 DEF FirstValue
<1>4. FirstValue(pieces, L, name) = ValueOf(pieces, name)
  BY <1>2 DEF FirstValue, ValueOf, SettingBy
<1>5. ASSUME NEW n \in 1..L
      PROVE  FirstValue(pieces, n, name) =
              IF pieces[n][1] \in Takes[name] THEN pieces[n][2] ELSE FirstValue(pieces, n - 1, name)
  <2>1. n \in Nat \ {0}
    BY <1>1
  <2>2. n \in T <=> pieces[n][1] \in Takes[name]
    BY <1>1 DEF SettingBy
  <2> HIDE DEF T
  <2>3. /\ n \in T => T \cap (1..n) # {} /\ Max(T \cap (1..n)) = n
        /\ n \notin T => T \cap (1..n) = T \cap (1..(n - 1))
    BY <2>1, LastOfMore
  <2>4. CASE n \in T
    BY <2>2, <2>3, <2>4 DEF FirstValue, T
  <2>5. CASE n \notin T
    <3>1. FirstValue(pieces, n, name) = FirstValue(pieces, n - 1, name)
      BY <2>3, <2>5 DEF FirstValue, T
    <3> QED BY <2>2, <2>5, <3>1
  <2> QED BY <2>4, <2>5
<1> QED BY <1>3, <1>4, <1>5 DEF L

\* The flags behind the first n options.
Behind(pieces, n, f) ==
    /\ f \in FlagStates(AllArguments)
    /\ f.ok <=> \A i \in 1..n : ~WrongOption(pieces[i])
    /\ f.ok => /\ Between(f)
               /\ f.dry <=> \E i \in 1..n : pieces[i] = <<"--dry-run">>
               /\ \A name \in Names : f.values[name] = FirstValue(pieces, n, name)

\* Before the first option.
LEMMA NoFlagsBehind ==
  ASSUME NEW pieces \in Seq(Pieces)
  PROVE  Behind(pieces, 0, NoFlags)
<1>1. \A i \in 1..0 : FALSE
  OBVIOUS
<1>2. /\ NoFlags \in FlagStates(AllArguments)
      /\ NoFlags.ok /\ ~NoFlags.dry /\ Between(NoFlags)
      /\ \A name \in Names : NoFlags.values[name] = Unset
  <2>1. DOMAIN Takes = Names /\ <<>> \in Seq(AllArguments)
    BY TakesNames, EmptySeq
  <2> QED BY <2>1 DEF NoFlags, FlagStates, Between
<1>3. \A name : FirstValue(pieces, 0, name) = Unset
  BY FirstValueStep
<1> QED BY <1>1, <1>2, <1>3 DEF Behind

\* Induction over the leading options: what the flags hold is what the options say.
LEMMA LeadingRead ==
  ASSUME NEW pieces \in Seq(Pieces), NEW n \in 0..LeadingOptions(pieces),
         NEW f, Turns(NoFlags, Written(pieces)[n], f)
  PROVE  Behind(pieces, n, f)
<1> DEFINE L == LeadingOptions(pieces)
           w == Written(pieces)
           G == AllArguments
           Right(k) == \A x : Turns(NoFlags, w[k], x) => Behind(pieces, k, x)
           S == {k \in 0..L : Right(k)}
<1>1. L \in 0..Len(pieces) /\ Len(pieces) \in Nat /\ \A i \in 1..L : IsOption(pieces[i])
  BY LeadingIs, LenProperties
<1>2. \A i \in 1..Len(pieces) : pieces[i] \in Pieces /\ pieces[i] \in Seq(G)
  BY ElementOfSeq, PieceShape
<1>3. /\ w \in [0..Len(pieces) -> Seq(G)] /\ w[0] = <<>>
      /\ \A k \in 1..Len(pieces) : w[k] = w[k - 1] \o pieces[k]
  BY WrittenStep
<1> HIDE DEF L, w, G
<1>4. Right(0)
  BY <1>3, TurnsNone, NoFlagsBehind
<1>5. ASSUME NEW k \in 1..L, Right(k - 1) PROVE Right(k)
  <2> SUFFICES ASSUME NEW x, Turns(NoFlags, w[k], x) PROVE Behind(pieces, k, x)
    OBVIOUS
  <2> DEFINE p == pieces[k]
             before == w[k - 1]
  <2>1. k \in 1..Len(pieces) /\ k - 1 \in 0..Len(pieces) /\ 1..k = 1..(k - 1) \cup {k}
    BY <1>1
  <2>2. p \in Pieces /\ p \in Seq(G) /\ IsOption(p) /\ before \in Seq(G) /\ w[k] = before \o p
    BY <1>1, <1>2, <1>3, <2>1
  <2> HIDE DEF p, before
  <2>3. PICK m : Turns(NoFlags, before, m) /\ Turns(m, p, x)
    <3>1. Turns(NoFlags, before \o p, x)
      BY <2>2
    <3> QED BY <2>2, <3>1, TurnsConcat
  <2>4. Behind(pieces, k - 1, m)
    BY <1>5, <2>3 DEF before
  <2>5. CASE ~m.ok
    <3>1. Len(p) \in Nat
      BY <2>2, LenProperties
    <3>2. x = m
      BY <2>3, <2>5, <3>1, TurnsStuck
    <3>3. \E i \in 1..(k - 1) : WrongOption(pieces[i])
      BY <2>4, <2>5 DEF Behind
    <3>4. \E i \in 1..k : WrongOption(pieces[i])
      BY <2>1, <3>3
    <3> QED BY <2>4, <2>5, <3>2, <3>4 DEF Behind
  <2>6. CASE m.ok
    <3>1. m \in FlagStates(G) /\ Between(m)
      BY <2>4, <2>6 DEF Behind, G
    <3>2. /\ x \in FlagStates(G)
          /\ x.ok <=> ~WrongOption(p)
          /\ x.ok => /\ Between(x)
                     /\ x.dry <=> m.dry \/ p = <<"--dry-run">>
                     /\ \A c \in Names : x.values[c] = IF p[1] \in Takes[c] THEN p[2] ELSE m.values[c]
      BY <2>2, <2>3, <3>1, OptionTurn DEF G
    <3>3. /\ \A i \in 1..(k - 1) : ~WrongOption(pieces[i])
          /\ m.dry <=> \E i \in 1..(k - 1) : pieces[i] = <<"--dry-run">>
          /\ \A c \in Names : m.values[c] = FirstValue(pieces, k - 1, c)
      BY <2>4, <2>6 DEF Behind
    <3>4. x.ok <=> \A i \in 1..k : ~WrongOption(pieces[i])
      BY <2>1, <3>2, <3>3 DEF p
    <3>5. (m.dry \/ p = <<"--dry-run">>) <=> \E i \in 1..k : pieces[i] = <<"--dry-run">>
      BY <2>1, <3>3 DEF p
    <3>6. \A c \in Names : FirstValue(pieces, k, c) =
              IF p[1] \in Takes[c] THEN p[2] ELSE FirstValue(pieces, k - 1, c)
      BY FirstValueStep DEF p, L
    <3> QED BY <3>2, <3>3, <3>4, <3>5, <3>6 DEF Behind, G
  <2> QED BY <2>5, <2>6
<1>6. 0 \in S /\ \A k \in 1..L : k - 1 \in S => k \in S
  BY <1>1, <1>4, <1>5
<1> HIDE DEF S
<1>7. Right(n)
  <2>1. L \in Nat
    BY <1>1
  <2>2. 0..L \subseteq S
    BY <1>6, <2>1, Induction
  <2> QED BY <2>2 DEF S, L
<1> QED BY <1>7 DEF w

\* What a line is written with begins with what its first pieces are written with, and
\* goes on with the next piece.
LEMMA WrittenGoesOn ==
  ASSUME NEW pieces \in Seq(Pieces), NEW n \in 0..Len(pieces), NEW m \in n..Len(pieces)
  PROVE  LET w == Written(pieces) IN
         /\ Len(w[n]) \in Nat /\ Len(w[m]) \in Nat /\ Len(w[n]) <= Len(w[m])
         /\ \A i \in 1..Len(w[n]) : w[m][i] = w[n][i]
         /\ n < m => Len(w[n]) < Len(w[m]) /\ w[m][Len(w[n]) + 1] = pieces[n + 1][1]
<1> DEFINE N == Len(pieces)
           w == Written(pieces)
           G == AllArguments
           M == Len(w[n])
           Right(k) ==
              k >= n =>
                /\ M <= Len(w[k]) /\ \A i \in 1..M : w[k][i] = w[n][i]
                /\ n < k => M < Len(w[k]) /\ w[k][M + 1] = pieces[n + 1][1]
           S == {k \in 0..N : Right(k)}
<1>1. N \in Nat /\ n \in 0..N /\ m \in 0..N /\ m >= n
  BY LenProperties
<1>2. \A i \in 1..N : pieces[i] \in Seq(G) /\ Len(pieces[i]) \in Nat /\ Len(pieces[i]) >= 1
  <2> SUFFICES ASSUME NEW i \in 1..N
               PROVE  pieces[i] \in Seq(G) /\ Len(pieces[i]) \in Nat /\ Len(pieces[i]) >= 1
    OBVIOUS
  <2> DEFINE p == pieces[i]
  <2>1. p \in Pieces
    BY ElementOfSeq
  <2> HIDE DEF p, G
  <2>2. p \in Seq(G)
    BY <2>1, PieceShape DEF G
  <2>3. Len(p) = 2 \/ Len(p) = 1
    BY <2>1, PieceShape
  <2>4. Len(p) \in Nat /\ Len(p) >= 1
    <3>1. Len(p) \in Nat
      BY <2>2, LenProperties
    <3>2. \A k \in Nat : k = 2 \/ k = 1 => k >= 1
      OBVIOUS
    <3> QED BY <2>3, <3>1, <3>2
  <2> QED BY <2>2, <2>4 DEF p
<1>3. /\ w \in [0..N -> Seq(G)] /\ w[0] = <<>>
      /\ \A k \in 1..N : w[k] = w[k - 1] \o pieces[k]
  BY WrittenStep
<1> HIDE DEF N, w, G
<1>4. \A k \in 0..N : Len(w[k]) \in Nat
  BY <1>3, LenProperties
<1>5. M \in Nat
  BY <1>1, <1>4
<1> HIDE DEF M
<1>6. n # 0 => Right(0)
  BY <1>1
<1>7. Right(n)
  BY <1>1, <1>5 DEF M
<1>8. ASSUME NEW k \in 1..N, k > n, Right(k - 1) PROVE Right(k)
  <2> DEFINE a == w[k - 1]
             p == pieces[k]
             A == Len(a)
             P == Len(p)
  <2>1. k - 1 \in 0..N /\ k - 1 >= n
    BY <1>1, <1>8
  <2>2. w[k] = a \o p /\ a \in Seq(G) /\ p \in Seq(G) /\ A \in Nat /\ P \in Nat /\ P >= 1
    BY <1>2, <1>3, <1>4, <2>1
  <2>3. M <= A /\ (\A i \in 1..M : a[i] = w[n][i]) /\ (n < k - 1 => M < A /\ a[M + 1] = pieces[n + 1][1])
    BY <1>8, <2>1
  <2>9. n = k - 1 => M = A
    BY DEF M
  <2>4. /\ Len(w[k]) = A + P
        /\ \A i \in 1..(A + P) : w[k][i] = IF i <= A THEN a[i] ELSE p[i - A]
    <3>1. a \in Seq(G) /\ p \in Seq(G)
      BY <2>2
    <3> HIDE DEF a, p
    <3>2. /\ Len(a \o p) = A + P
          /\ \A i \in 1..(A + P) : (a \o p)[i] = IF i <= A THEN a[i] ELSE p[i - A]
      BY <3>1, ConcatProperties
    <3> HIDE DEF A, P
    <3> QED BY <2>2, <3>2
  <2>10. n = k - 1 => n + 1 = k
    BY <1>1
  <2>5. p = pieces[k]
    OBVIOUS
  <2> HIDE DEF a, p, A, P
  <2>6. \A i \in 1..M : w[k][i] = w[n][i]
    BY <1>5, <2>2, <2>3, <2>4
  <2>7. M < A + P /\ M + 1 \in 1..(A + P)
    BY <1>5, <2>2, <2>3
  <2>8. w[k][M + 1] = pieces[n + 1][1]
    <3>1. CASE n < k - 1
      <4>1. M + 1 <= A
        BY <1>5, <2>2, <2>3, <3>1
      <4> QED BY <2>3, <2>4, <2>7, <3>1, <4>1
    <3>2. CASE n = k - 1
      <4>1. ~(M + 1 <= A) /\ (M + 1) - A = 1
        BY <1>5, <2>2, <2>9, <3>2
      <4>2. w[k][M + 1] = p[1]
        BY <2>4, <2>7, <4>1
      <4> QED BY <2>5, <2>10, <3>2, <4>2
    <3> QED BY <1>1, <1>8, <3>1, <3>2
  <2> QED BY <1>5, <2>2, <2>4, <2>6, <2>7, <2>8
<1>9. 0 \in S
  BY <1>1, <1>6, <1>7
<1>10. \A k \in 1..N : k - 1 \in S => k \in S
  <2> SUFFICES ASSUME NEW k \in 1..N, Right(k - 1) PROVE Right(k)
    BY <1>1
  <2>1. k < n => Right(k)
    BY <1>1
  <2> HIDE DEF Right
  <2>2. k < n \/ k = n \/ k > n
    BY <1>1
  <2> QED BY <1>7, <1>8, <2>1, <2>2
<1> HIDE DEF S
<1>11. Right(m)
  <2>1. 0..N \subseteq S
    BY <1>1, <1>9, <1>10, Induction
  <2> QED BY <1>1, <2>1 DEF S
<1>12. Len(w[m]) \in Nat
  BY <1>1, <1>4
<1> QED BY <1>1, <1>5, <1>11, <1>12 DEF M, w

\* A line is written with the leading options and what trails them.
LEMMA TrailingIs ==
  ASSUME NEW pieces \in Seq(Pieces)
  PROVE  LET a == Written(pieces)[LeadingOptions(pieces)]
             t == Trailing(pieces)
         IN /\ a \in Seq(AllArguments) /\ t \in Seq(AllArguments)
            /\ Arguments(pieces) \in Seq(AllArguments) /\ Arguments(pieces) = a \o t
            /\ t = <<>> \/ t[1] \in Words \cup Commands \cup {"--"}
<1> DEFINE N == Len(pieces)
           L == LeadingOptions(pieces)
           w == Written(pieces)
           G == AllArguments
           a == w[L]
           args == Arguments(pieces)
           M == Len(a)
           R == Len(args)
           t == Trailing(pieces)
<1>1. L \in 0..N /\ N \in Nat /\ (L < N => ~IsOption(pieces[L + 1]))
  BY LeadingIs, LenProperties
<1>2. w \in [0..N -> Seq(G)]
  BY WrittenStep
<1>3. args = w[N] /\ t = SubSeq(args, M + 1, R)
  BY DEF Arguments, Trailing
<1> HIDE DEF N, L, w, G, args, t
<1>4. a \in Seq(G) /\ args \in Seq(G)
  BY <1>1, <1>2, <1>3
<1>5. /\ M \in Nat /\ R \in Nat /\ M <= R
      /\ \A i \in 1..M : args[i] = a[i]
      /\ L < N => args[M + 1] = pieces[L + 1][1]
  <2>1. N \in L..N
    BY <1>1
  <2>2. /\ Len(w[L]) \in Nat /\ Len(w[N]) \in Nat /\ Len(w[L]) <= Len(w[N])
        /\ \A i \in 1..Len(w[L]) : w[N][i] = w[L][i]
        /\ L < N => Len(w[L]) < Len(w[N]) /\ w[N][Len(w[L]) + 1] = pieces[L + 1][1]
    BY <1>1, <2>1, WrittenGoesOn DEF N, w
  <2> QED BY <1>3, <2>2
<1> DEFINE k == R - M
<1>6. t \in Seq(G) /\ Len(t) = k /\ \A i \in 1..k : t[i] = args[M + i]
  <2> DEFINE m == M + 1
             s == SubSeq(args, m, R)
  <2>1. \A i \in m..R : args[i] \in G
    <3>1. \A i \in m..R : i \in 1..R
      BY <1>5
    <3> QED BY <1>4, <3>1, ElementOfSeq
  <2>2. m \in Int /\ R \in Int
    BY <1>5
  <2> HIDE DEF m
  <2>3. /\ s \in Seq(G) /\ Len(s) = (IF m <= R THEN R - m + 1 ELSE 0)
        /\ \A i \in 1..(R - m + 1) : s[i] = args[m + i - 1]
    BY <2>1, <2>2, SubSeqProperties
  <2>4. t = s
    BY <1>3 DEF m
  <2> HIDE DEF s
  <2>5. R - m + 1 = k /\ (~(m <= R) => k = 0) /\ \A i \in 1..k : m + i - 1 = M + i
    BY <1>5 DEF m
  <2> QED BY <2>3, <2>4, <2>5
<1>7. args = a \o t
  <2> DEFINE c == a \o t
  <2>1. c \in Seq(G) /\ Len(c) = M + k /\ \A i \in 1..(M + k) : c[i] = IF i <= M THEN a[i] ELSE t[i - M]
    <3> HIDE DEF a
    <3>1. /\ a \o t \in Seq(G) /\ Len(a \o t) = Len(a) + Len(t)
          /\ \A i \in 1..(Len(a) + Len(t)) : (a \o t)[i] = IF i <= Len(a) THEN a[i] ELSE t[i - Len(a)]
      BY <1>4, <1>6, ConcatProperties
    <3> QED BY <1>6, <3>1
  <2> HIDE DEF c, M
  <2>2. M + k = R /\ k \in Nat
    BY <1>5
  <2>3. \A i \in 1..R : c[i] = args[i]
    <3> SUFFICES ASSUME NEW i \in 1..R PROVE c[i] = args[i]
      OBVIOUS
    <3>1. CASE i <= M
      BY <1>5, <2>1, <2>2, <3>1
    <3>2. CASE i > M
      <4>1. i - M \in 1..k /\ M + (i - M) = i /\ ~(i <= M)
        BY <1>5, <3>2
      <4>2. c[i] = t[i - M] /\ t[i - M] = args[M + (i - M)]
        BY <1>6, <2>1, <2>2, <4>1
      <4> QED BY <4>1, <4>2
    <3> QED BY <1>5, <3>1, <3>2
  <2>4. c = args
    BY <1>4, <2>1, <2>2, <2>3, SeqEqual DEF R
  <2> QED BY <2>4 DEF c
<1>8. t = <<>> \/ t[1] \in Words \cup Commands \cup {"--"}
  <2>1. CASE L = N
    <3>1. a = args
      BY <1>3, <2>1
    <3>2. Len(t) = 0
      BY <1>5, <1>6, <3>1
    <3> QED BY <1>6, <3>2, EmptySeq
  <2>2. CASE L < N
    <3> DEFINE p == pieces[L + 1]
    <3>1. p[1] \in Words \cup Commands \cup {"--"}
      <4>1. ~IsOption(p)
        BY <1>1, <2>2
      <4> HIDE DEF p
      <4>2. p = <<"--">> \/ p[1] \in Words \cup Commands
        BY <4>1 DEF IsOption
      <4>3. p = <<"--">> => p[1] = "--"
        OBVIOUS
      <4> QED BY <4>2, <4>3
    <3>2. args[M + 1] = p[1]
      BY <1>5, <2>2
    <3>3. CASE k = 0
      <4>1. Len(t) = 0
        BY <1>6, <3>3
      <4> QED BY <1>6, <4>1, EmptySeq
    <3>4. CASE k # 0
      <4>1. 1 \in 1..k
        BY <1>5, <3>4
      <4>2. t[1] = args[M + 1]
        BY <1>6, <4>1
      <4> HIDE DEF p
      <4> QED BY <3>1, <3>2, <4>2
    <3> QED BY <3>3, <3>4
  <2> QED BY <1>1, <2>1, <2>2
<1> QED BY <1>4, <1>6, <1>7, <1>8 DEF G, w, L, t, args

\* What the flags hold that are read from the leading options and what ends them.
LEMMA FlagsOf ==
  ASSUME NEW pieces \in Seq(Pieces), NEW u \in Seq(AllArguments),
         u = <<>> \/ u[1] \in Words \cup Commands \cup {"--"}
  PROVE  LET f == ReadFlags(Written(pieces)[LeadingOptions(pieces)] \o u) IN
         /\ FlagsAccepted(f) <=> \A i \in DOMAIN Leading(pieces) : ~WrongOption(Leading(pieces)[i])
         /\ FlagsAccepted(f) =>
              /\ f.values.config = ValueOf(pieces, "config") /\ f.values.app = ValueOf(pieces, "app")
              /\ f.dry = Contains(Leading(pieces), <<"--dry-run">>)
              /\ u = <<>> \/ u[1] \in Words \cup Commands => f.rest = u
<1> DEFINE L == LeadingOptions(pieces)
           G == AllArguments
           a == Written(pieces)[L]
           f == ReadFlags(a \o u)
           Right == \A i \in DOMAIN Leading(pieces) : ~WrongOption(Leading(pieces)[i])
           Dry == Contains(Leading(pieces), <<"--dry-run">>)
<1>1. /\ L \in 0..Len(pieces) /\ DOMAIN Leading(pieces) = 1..L /\ Len(Leading(pieces)) = L
      /\ \A i \in 1..L : Leading(pieces)[i] = pieces[i]
      /\ L \in 0..L
  <2>1. /\ L \in 0..Len(pieces) /\ DOMAIN Leading(pieces) = 1..L /\ Len(Leading(pieces)) = L
        /\ \A i \in 1..L : Leading(pieces)[i] = pieces[i]
    BY LeadingIs
  <2>2. Len(pieces) \in Nat
    BY LenProperties
  <2> HIDE DEF L
  <2> QED BY <2>1, <2>2
<1>2. a \in Seq(G)
  BY TrailingIs
<1>3. Turns(NoFlags, a \o u, f)
  <2>1. Len(a \o u) \in Nat
    BY <1>2, ConcatProperties, LenProperties
  <2> QED BY <2>1, FlagsTurn
<1> HIDE DEF f
<1>4. PICK m : Turns(NoFlags, a, m) /\ Turns(m, u, f)
  BY <1>2, <1>3, TurnsConcat
<1>5. Behind(pieces, L, m)
  BY <1>1, <1>4, LeadingRead
<1> HIDE DEF L, a
<1>6. /\ m \in FlagStates(G)
      /\ m.ok <=> Right
      /\ m.ok => /\ Between(m)
                 /\ m.dry <=> Dry
                 /\ m.values.config = ValueOf(pieces, "config")
                 /\ m.values.app = ValueOf(pieces, "app")
  <2>1. m \in FlagStates(G) /\ (m.ok <=> \A i \in 1..L : ~WrongOption(pieces[i]))
    BY <1>5 DEF Behind
  <2>2. m.ok => /\ Between(m)
                /\ m.dry <=> \E i \in 1..L : pieces[i] = <<"--dry-run">>
                /\ \A name \in Names : m.values[name] = FirstValue(pieces, L, name)
    BY <1>5 DEF Behind
  <2>3. Dry <=> \E i \in 1..L : pieces[i] = <<"--dry-run">>
    BY <1>1 DEF Contains
  <2>4. \A name : FirstValue(pieces, L, name) = ValueOf(pieces, name)
    BY FirstValueStep DEF L
  <2>5. "config" \in Names /\ "app" \in Names
    BY DEF Names
  <2> HIDE DEF Dry
  <2>6. Right <=> \A i \in 1..L : ~WrongOption(pieces[i])
    BY <1>1
  <2> HIDE DEF Right
  <2> QED BY <2>1, <2>2, <2>3, <2>4, <2>5, <2>6
<1>7. Dry \in BOOLEAN
  BY DEF Contains
<1> HIDE DEF Right, Dry
<1>8. m.ok => m.dry = Dry
  <2>1. m.dry \in BOOLEAN
    BY <1>6 DEF FlagStates
  <2> QED BY <1>6, <1>7, <2>1
<1>9. CASE ~m.ok
  <2>1. Len(u) \in Nat
    BY LenProperties
  <2>2. f = m
    BY <1>4, <1>9, <2>1, TurnsStuck
  <2> QED BY <1>6, <1>9, <2>2 DEF FlagsAccepted, f, a, L, Right
<1>10. CASE m.ok /\ u = <<>>
  <2>1. f = m
    BY <1>4, <1>10, TurnsNone
  <2>2. m.wants = "none" /\ m.rest = <<>>
    BY <1>6, <1>10 DEF Between
  <2>3. FlagsAccepted(f) /\ f.rest = u
    BY <1>10, <2>1, <2>2 DEF FlagsAccepted
  <2> QED BY <1>6, <1>8, <1>10, <2>1, <2>3 DEF f, a, L, Right, Dry
<1>11. CASE m.ok /\ u # <<>>
  <2> DEFINE x == u[1]
             h == <<x>>
             v == Tail(u)
  <2>1. x \in G /\ h \in Seq(G) /\ v \in Seq(G) /\ u = h \o v
    <3>1. x \in G /\ Head(u) = x
      BY <1>11, HeadTailProperties
    <3>2. v \in Seq(G) /\ Len(v) = Len(u) - 1 /\ \A i \in 1..Len(v) : v[i] = u[i + 1]
      BY <1>11, HeadTailProperties
    <3>3. Len(u) \in Nat /\ Len(v) \in Nat
      BY <3>2, LenProperties
    <3>4. h \in Seq(G) /\ Len(h) = 1 /\ h[1] = x
      BY <3>1
    <3> HIDE DEF v, h
    <3>5. /\ h \o v \in Seq(G) /\ Len(h \o v) = Len(h) + Len(v)
          /\ \A i \in 1..(Len(h) + Len(v)) : (h \o v)[i] = IF i <= Len(h) THEN h[i] ELSE v[i - Len(h)]
      BY <3>2, <3>4, ConcatProperties, ZenonT(30)
    <3> DEFINE c == h \o v
    <3> HIDE DEF c
    <3>6. c \in Seq(G) /\ Len(c) = Len(u) /\ \A i \in 1..Len(u) : c[i] = IF i <= 1 THEN h[i] ELSE v[i - 1]
      <4>1. 1 + Len(v) = Len(u)
        BY <3>2, <3>3
      <4> QED BY <3>4, <3>5, <4>1 DEF c
    <3>7. \A i \in 1..Len(u) : c[i] = u[i]
      <4> SUFFICES ASSUME NEW i \in 1..Len(u) PROVE c[i] = u[i]
        OBVIOUS
      <4>1. CASE i = 1
        BY <3>4, <3>6, <4>1
      <4>2. CASE i # 1
        <5>1. ~(i <= 1) /\ i - 1 \in 1..Len(v) /\ (i - 1) + 1 = i
          BY <3>2, <3>3, <4>2
        <5> QED BY <3>2, <3>6, <5>1
      <4> QED BY <4>1, <4>2
    <3>8. c = u
      BY <3>6, <3>7, SeqEqual
    <3> QED BY <3>1, <3>2, <3>4, <3>8 DEF c, h
  <2> HIDE DEF v
  <2>2. PICK k : Turns(m, h, k) /\ Turns(k, v, f)
    <3>1. Turns(m, h \o v, f)
      BY <1>4, <2>1
    <3> HIDE DEF h
    <3> QED BY <2>1, <3>1, TurnsConcat
  <2>3. k = ReadOption(m, x)
    <3>1. k = ReadArgument(m, x)
      BY <2>2, TurnsOne
    <3> QED BY <1>6, <1>11, <3>1 DEF ReadArgument, Between
  <2>4. m.reading /\ m.wants = "none" /\ m.rest = <<>>
    BY <1>6, <1>11 DEF Between
  <2> HIDE DEF x
  <2>5. /\ k \in FlagStates(G) /\ k.ok /\ ~k.reading /\ k.wants = "none"
        /\ k.dry = m.dry /\ k.values = m.values
        /\ k.rest = IF x \in Words \cup Commands THEN h ELSE <<>>
    <3>1. /\ "--dry-run" \notin Words \cup Commands /\ "--" \notin Words \cup Commands
          /\ \A o \in TakingOptions : o \notin Words \cup Commands
      BY WordsAssumption, TakesNames DEF Commands
    <3>2. CASE x \in Words \cup Commands
      <4>1. k = [m EXCEPT !.reading = FALSE, !.rest = h]
        <5>1. x # "--dry-run" /\ x # "--" /\ x \in Words \cup Commands
          BY <3>1, <3>2
        <5>2. x \notin TakingOptions
          BY <3>1, <3>2
        <5> QED BY <2>3, <5>1, <5>2 DEF ReadOption
      <4> HIDE DEF h
      <4> QED BY <1>6, <1>11, <2>1, <2>4, <3>2, <4>1 DEF FlagStates
    <3>3. CASE x \notin Words \cup Commands
      <4>1. x = "--"
        BY <1>11, <3>3 DEF x
      <4>2. k = [m EXCEPT !.reading = FALSE]
        <5>1. x # "--dry-run" /\ x \notin Words \cup Commands /\ x \notin TakingOptions
          BY <3>1, <4>1, TakesNames DEF Commands
        <5> QED BY <2>3, <4>1, <5>1 DEF ReadOption
      <4> QED BY <1>6, <1>11, <2>4, <3>3, <4>2 DEF FlagStates
    <3> QED BY <3>2, <3>3
  <2> HIDE DEF h
  <2>6. /\ f.ok = k.ok /\ f.wants = k.wants /\ f.dry = k.dry /\ f.values = k.values
        /\ f.rest = k.rest \o v
    <3>1. k \in FlagStates(G) /\ k.ok /\ ~k.reading /\ v \in Seq(G) /\ Turns(k, v, f)
      BY <2>1, <2>2, <2>5
    <3> HIDE DEF G
    <3> QED BY ONLY <3>1, TurnsRest
  <2>7. x \in Words \cup Commands => f.rest = u
    BY <2>1, <2>5, <2>6
  <2>8. FlagsAccepted(f)
    BY <2>5, <2>6 DEF FlagsAccepted
  <2>9. f.dry = m.dry /\ f.values = m.values
    BY <2>5, <2>6
  <2> QED BY <1>6, <1>8, <1>11, <2>7, <2>8, <2>9 DEF f, a, L, Right, Dry, x
<1> QED BY <1>9, <1>10, <1>11

\* Where the arguments are cut: at the first "--", or behind the last argument.
Cut(args, i) ==
    /\ i \in 1..(Len(args) + 1)
    /\ i > Len(args) \/ args[i] = "--"
    /\ \A j \in 1..(i - 1) : args[j] # "--"

\* There is one such place.
LEMMA OneCut ==
  ASSUME NEW G, NEW args \in Seq(G)
  PROVE  /\ \E i : Cut(args, i)
         /\ \A i, j : Cut(args, i) /\ Cut(args, j) => i = j
<1> DEFINE N == Len(args)
           D == {i \in 1..N : args[i] = "--"}
<1>1. N \in Nat
  BY LenProperties
<1> HIDE DEF N
<1>2. \E i : Cut(args, i)
  <2>1. CASE D = {}
    <3>1. N + 1 \in 1..(N + 1) /\ N + 1 > N /\ (N + 1) - 1 = N
      BY <1>1
    <3>2. \A j \in 1..N : args[j] # "--"
      BY <2>1
    <3> QED BY <3>1, <3>2 DEF Cut, N
  <2>2. CASE D # {}
    <3>1. D \in SUBSET Nat
      BY <1>1
    <3> DEFINE T == D
    <3> HIDE DEF T
    <3>2. PICK n \in T : \A k \in T : n <= k
      BY <2>2, <3>1, LeastNatural DEF T
    <3>3. n \in 1..N /\ args[n] = "--"
      BY <3>2 DEF T
    <3>4. \A j \in 1..(n - 1) : j \in 1..N /\ ~(n <= j)
      BY <1>1, <3>3
    <3>5. \A j \in 1..(n - 1) : args[j] # "--"
      BY <3>2, <3>4 DEF T
    <3>6. n \in 1..(N + 1)
      BY <1>1, <3>3
    <3> QED BY <3>3, <3>5, <3>6 DEF Cut, N
  <2> QED BY <2>1, <2>2
<1>3. ASSUME NEW i, NEW j, Cut(args, i), Cut(args, j), i < j PROVE FALSE
  <2>1. i \in 1..(j - 1) /\ i \in 1..N /\ ~(i > N)
    BY <1>1, <1>3 DEF Cut, N
  <2> QED BY <1>3, <2>1 DEF Cut, N
<1>4. ASSUME NEW i, NEW j, Cut(args, i), Cut(args, j) PROVE i = j
  <2>1. i \in Nat /\ j \in Nat
    BY <1>1, <1>4 DEF Cut, N
  <2>2. ~(i < j) /\ ~(j < i)
    BY <1>3, <1>4
  <2> QED BY <2>1, <2>2
<1> QED BY <1>2, <1>4

\* Separator finds it.
LEMMA SeparatorIs ==
  ASSUME NEW G, NEW args \in Seq(G), NEW i, Cut(args, i)
  PROVE  Separator(args) = IF i > Len(args) THEN 0 ELSE i
<1> DEFINE N == Len(args)
           D == {j \in DOMAIN args : args[j] = "--"}
<1>1. N \in Nat /\ DOMAIN args = 1..N
  BY LenProperties
<1>2. Contains(args, "--") <=> \E j \in 1..N : args[j] = "--"
  BY DEF Contains
<1> HIDE DEF N
<1>3. /\ i \in 1..(N + 1) /\ (i > N \/ args[i] = "--")
      /\ \A j \in 1..(i - 1) : args[j] # "--"
  BY DEF Cut, N
<1>4. CASE i > N
  <2>1. \A j \in 1..N : j \in 1..(i - 1)
    BY <1>1, <1>3, <1>4
  <2>2. ~Contains(args, "--")
    BY <1>2, <1>3, <2>1
  <2> QED BY <1>4, <2>2 DEF Separator, N
<1>5. CASE ~(i > N)
  <2>1. i \in 1..N /\ i # 0
    BY <1>1, <1>3, <1>5
  <2>2. i \in D
    BY <1>1, <1>3, <1>5, <2>1
  <2>3. \A j \in D : i <= j
    <3> SUFFICES ASSUME NEW j \in 1..N, args[j] = "--", ~(i <= j) PROVE FALSE
      BY <1>1
    <3>1. j \in 1..(i - 1)
      BY <1>1, <2>1
    <3> QED BY <1>3, <3>1
  <2>4. \A j \in D : (\A k \in D : j <= k) => j = i
    BY <1>1, <2>1, <2>2, <2>3
  <2>5. Separator(args) = Min(D)
    <3>1. Contains(args, "--")
      BY <1>2, <1>3, <1>5, <2>1
    <3> QED BY <3>1 DEF Separator
  <2> HIDE DEF D
  <2>6. Min(D) = i
    BY <2>2, <2>3, <2>4 DEF Min
  <2> QED BY <1>5, <2>5, <2>6 DEF N
<1> QED BY <1>4, <1>5

\* A part of a sequence.
LEMMA PartOf ==
  ASSUME NEW G, NEW s \in Seq(G), NEW m \in 1..(Len(s) + 1), NEW n \in (m - 1)..Len(s)
  PROVE  /\ SubSeq(s, m, n) \in Seq(G) /\ Len(SubSeq(s, m, n)) = n - (m - 1)
         /\ \A i \in 1..(n - (m - 1)) : SubSeq(s, m, n)[i] = s[(m - 1) + i]
<1>1. Len(s) \in Nat
  BY LenProperties
<1> DEFINE N == Len(s)
<1> HIDE DEF N
<1>2. m \in Int /\ n \in Int /\ m..n \subseteq 1..N
  BY <1>1 DEF N
<1>3. \A i \in m..n : s[i] \in G
  BY <1>2, ElementOfSeq DEF N
<1> DEFINE t == SubSeq(s, m, n)
<1>4. /\ t \in Seq(G) /\ Len(t) = (IF m <= n THEN n - m + 1 ELSE 0)
      /\ \A i \in 1..(n - m + 1) : t[i] = s[m + i - 1]
  BY <1>2, <1>3, SubSeqProperties
<1> HIDE DEF t
<1>5. /\ n - m + 1 = n - (m - 1) /\ (~(m <= n) => n - (m - 1) = 0)
      /\ \A i \in 1..(n - (m - 1)) : m + i - 1 = (m - 1) + i
  BY <1>1, <1>2 DEF N
<1>6. Len(t) = n - (m - 1)
  BY <1>4, <1>5
<1>7. \A i \in 1..(n - (m - 1)) : t[i] = s[(m - 1) + i]
  BY <1>4, <1>5
<1> QED BY <1>4, <1>6, <1>7 DEF t

\* The arguments before and behind the cut are the two parts ParseCLI takes.
LEMMA CutInTwo ==
  ASSUME NEW G, NEW args \in Seq(G), NEW i, Cut(args, i)
  PROVE  LET sep == Separator(args) IN
         /\ (IF sep = 0 THEN args ELSE SubSeq(args, 1, sep - 1)) = SubSeq(args, 1, i - 1)
         /\ (IF sep = 0 THEN <<>> ELSE SubSeq(args, sep + 1, Len(args)))
                = (IF i > Len(args) THEN <<>> ELSE SubSeq(args, i + 1, Len(args)))
<1> DEFINE N == Len(args)
           sep == Separator(args)
<1>1. N \in Nat /\ i \in 1..(N + 1)
  BY LenProperties DEF Cut
<1>2. sep = IF i > N THEN 0 ELSE i
  BY SeparatorIs
<1> HIDE DEF sep
<1>3. CASE i > N
  <2>1. i - 1 = N
    <3> HIDE DEF N
    <3> QED BY <1>1, <1>3
  <2>2. SubSeq(args, 1, N) = args
    <3> DEFINE t == SubSeq(args, 1, N)
    <3>1. 1 \in 1..(N + 1) /\ N \in (1 - 1)..N /\ N - (1 - 1) = N /\ \A k \in 1..N : (1 - 1) + k = k
      <4> HIDE DEF N
      <4> QED BY <1>1
    <3>2. /\ t \in Seq(G) /\ Len(t) = N - (1 - 1)
          /\ \A k \in 1..(N - (1 - 1)) : t[k] = args[(1 - 1) + k]
      BY <3>1, PartOf
    <3> HIDE DEF t
    <3>3. Len(t) = Len(args) /\ \A k \in 1..Len(args) : t[k] = args[k]
      BY <3>1, <3>2
    <3>4. t = args
      BY <3>2, <3>3, SeqEqual
    <3> QED BY <3>4 DEF t
  <2>3. sep = 0
    BY <1>2, <1>3
  <2>4. SubSeq(args, 1, i - 1) = args
    BY <2>1, <2>2
  <2> QED BY <1>3, <2>3, <2>4 DEF sep
<1>4. CASE ~(i > N)
  <2>1. sep = i /\ sep # 0
    <3> HIDE DEF N
    <3> QED BY <1>1, <1>2, <1>4
  <2> QED BY <1>4, <2>1 DEF sep
<1> QED BY <1>3, <1>4

\* Parts of two sequences one after the other.
LEMMA PartsOfConcat ==
  ASSUME NEW G, NEW a \in Seq(G), NEW t \in Seq(G), NEW n \in 0..Len(t)
  PROVE  /\ SubSeq(a \o t, 1, Len(a) + n) = a \o SubSeq(t, 1, n)
         /\ SubSeq(a \o t, Len(a) + n + 1, Len(a) + Len(t)) = SubSeq(t, n + 1, Len(t))
<1> DEFINE A == Len(a)
           N == Len(t)
           c == a \o t
           u == SubSeq(t, 1, n)
           v == SubSeq(t, n + 1, N)
           p == SubSeq(c, 1, A + n)
           q == SubSeq(c, A + n + 1, A + N)
           b == a \o u
<1>1. A \in Nat /\ N \in Nat
  BY LenProperties
<1>2. /\ c \in Seq(G) /\ Len(c) = A + N
      /\ \A i \in 1..(A + N) : c[i] = IF i <= A THEN a[i] ELSE t[i - A]
  BY ConcatProperties
<1> HIDE DEF A, N, c
<1>3. n \in 0..N /\ N = Len(t)
  BY DEF N
<1>4. u \in Seq(G) /\ Len(u) = n /\ \A i \in 1..n : u[i] = t[i]
  <2>1. 1 \in 1..(N + 1) /\ n \in (1 - 1)..N /\ n - (1 - 1) = n /\ \A i \in 1..n : (1 - 1) + i = i
    BY <1>1, <1>3
  <2>2. u \in Seq(G) /\ Len(u) = n - (1 - 1) /\ \A i \in 1..(n - (1 - 1)) : u[i] = t[(1 - 1) + i]
    BY <1>3, <2>1, PartOf
  <2> HIDE DEF u
  <2> QED BY <2>1, <2>2
<1>5. v \in Seq(G) /\ Len(v) = N - n /\ \A i \in 1..(N - n) : v[i] = t[n + i]
  <2> DEFINE m == n + 1
  <2>1. m \in 1..(N + 1) /\ N \in (m - 1)..N /\ m - 1 = n
    BY <1>1, <1>3
  <2> HIDE DEF m
  <2>2. /\ SubSeq(t, m, N) \in Seq(G) /\ Len(SubSeq(t, m, N)) = N - (m - 1)
        /\ \A i \in 1..(N - (m - 1)) : SubSeq(t, m, N)[i] = t[(m - 1) + i]
    BY <1>3, <2>1, PartOf
  <2>3. v = SubSeq(t, m, N)
    BY DEF m
  <2> HIDE DEF v
  <2> QED BY <2>1, <2>2, <2>3
<1>6. p \in Seq(G) /\ Len(p) = A + n /\ \A i \in 1..(A + n) : p[i] = c[i]
  <2> DEFINE k == A + n
  <2>1. 1 \in 1..(Len(c) + 1) /\ k \in (1 - 1)..Len(c) /\ k - (1 - 1) = k /\ \A i \in 1..k : (1 - 1) + i = i
    BY <1>1, <1>2, <1>3
  <2> HIDE DEF k
  <2>2. /\ SubSeq(c, 1, k) \in Seq(G) /\ Len(SubSeq(c, 1, k)) = k - (1 - 1)
        /\ \A i \in 1..(k - (1 - 1)) : SubSeq(c, 1, k)[i] = c[(1 - 1) + i]
    BY <1>2, <2>1, PartOf
  <2>3. p = SubSeq(c, 1, k)
    BY DEF k
  <2> HIDE DEF p
  <2>4. p \in Seq(G) /\ Len(p) = k /\ \A i \in 1..k : p[i] = c[i]
    BY <2>1, <2>2, <2>3
  <2> QED BY <2>4 DEF k
<1>7. q \in Seq(G) /\ Len(q) = N - n /\ \A i \in 1..(N - n) : q[i] = c[(A + n) + i]
  <2> DEFINE m == A + n + 1
             k == A + N
  <2>1. m \in 1..(Len(c) + 1) /\ k \in (m - 1)..Len(c) /\ m - 1 = A + n /\ k - (m - 1) = N - n
    BY <1>1, <1>2, <1>3
  <2> HIDE DEF m, k
  <2>2. /\ SubSeq(c, m, k) \in Seq(G) /\ Len(SubSeq(c, m, k)) = k - (m - 1)
        /\ \A i \in 1..(k - (m - 1)) : SubSeq(c, m, k)[i] = c[(m - 1) + i]
    BY <1>2, <2>1, PartOf
  <2>3. q = SubSeq(c, m, k)
    BY DEF m, k
  <2> HIDE DEF q
  <2> QED BY <2>1, <2>2, <2>3
<1> HIDE DEF p, q, u, v
<1>8. b \in Seq(G) /\ Len(b) = A + n /\ \A i \in 1..(A + n) : b[i] = IF i <= A THEN a[i] ELSE u[i - A]
  <2>1. /\ b \in Seq(G) /\ Len(b) = Len(a) + Len(u)
        /\ \A i \in 1..(Len(a) + Len(u)) : b[i] = IF i <= Len(a) THEN a[i] ELSE u[i - Len(a)]
    BY <1>4, ConcatProperties
  <2> HIDE DEF b
  <2> QED BY <1>4, <2>1 DEF A
<1> HIDE DEF b
<1>9. \A i \in 1..(A + n) : b[i] = p[i]
  <2> SUFFICES ASSUME NEW i \in 1..(A + n) PROVE b[i] = p[i]
    OBVIOUS
  <2>1. i \in 1..(A + N) /\ (~(i <= A) => i - A \in 1..n)
    BY <1>1, <1>3
  <2> QED BY <1>2, <1>4, <1>6, <1>8, <2>1
<1>10. p = b
  BY <1>6, <1>8, <1>9, SeqEqual
<1>11. \A i \in 1..(N - n) : q[i] = v[i]
  <2> SUFFICES ASSUME NEW i \in 1..(N - n) PROVE q[i] = v[i]
    OBVIOUS
  <2>1. (A + n) + i \in 1..(A + N) /\ ~((A + n) + i <= A) /\ ((A + n) + i) - A = n + i
    BY <1>1, <1>3
  <2> QED BY <1>2, <1>5, <1>7, <2>1
<1>12. q = v
  BY <1>5, <1>7, <1>11, SeqEqual
<1> QED BY <1>10, <1>12 DEF p, q, u, v, b, c, A, N

\* Arguments that are never cut, and the two parts of others.
Plain(s) == \A j \in 1..Len(s) : s[j] # "--"

Before(args, i) == SubSeq(args, 1, i - 1)
After(args, i) == IF i > Len(args) THEN <<>> ELSE SubSeq(args, i + 1, Len(args))

\* Arguments with no "--" before others move the place of the cut, and nothing else.
LEMMA CutBehind ==
  ASSUME NEW G, NEW a \in Seq(G), NEW t \in Seq(G),
         Plain(a), NEW i, Cut(t, i)
  PROVE  LET c == a \o t
             k == Len(a) + i
         IN /\ c \in Seq(G) /\ Cut(c, k)
            /\ Before(c, k) = a \o Before(t, i) /\ After(c, k) = SubSeq(t, i + 1, Len(t))
<1> DEFINE A == Len(a)
           N == Len(t)
           c == a \o t
           k == A + i
<1>1. A \in Nat /\ N \in Nat
  BY LenProperties
<1>2. /\ c \in Seq(G) /\ Len(c) = A + N
      /\ \A j \in 1..(A + N) : c[j] = IF j <= A THEN a[j] ELSE t[j - A]
  BY ConcatProperties
<1> HIDE DEF c
<1>3. /\ i \in 1..(N + 1) /\ (i > N \/ t[i] = "--")
      /\ \A j \in 1..(i - 1) : t[j] # "--"
  BY DEF Cut
<1>4. \A j \in 1..A : a[j] # "--"
  BY DEF Plain
<1> HIDE DEF A, N
<1>5. Cut(c, k)
  <2>1. k \in 1..((A + N) + 1)
    BY <1>1, <1>3
  <2>2. k > A + N \/ c[k] = "--"
    <3> SUFFICES ASSUME ~(k > A + N) PROVE c[k] = "--"
      OBVIOUS
    <3>1. k \in 1..(A + N) /\ ~(k <= A) /\ k - A = i /\ ~(i > N)
      BY <1>1, <1>3
    <3> QED BY <1>2, <1>3, <3>1
  <2>3. \A j \in 1..(k - 1) : c[j] # "--"
    <3> SUFFICES ASSUME NEW j \in 1..(k - 1) PROVE c[j] # "--"
      OBVIOUS
    <3>1. j \in 1..(A + N) /\ (j <= A => j \in 1..A) /\ (~(j <= A) => j - A \in 1..(i - 1))
      BY <1>1, <1>3
    <3> QED BY <1>2, <1>3, <1>4, <3>1
  <2> HIDE DEF k
  <2> QED BY <1>2, <2>1, <2>2, <2>3 DEF Cut
<1>6. SubSeq(c, 1, k - 1) = a \o SubSeq(t, 1, i - 1)
  <2> DEFINE n == i - 1
  <2>1. n \in 0..N /\ k - 1 = A + n
    BY <1>1, <1>3
  <2> HIDE DEF n, k
  <2>2. SubSeq(c, 1, A + n) = a \o SubSeq(t, 1, n)
    BY <2>1, PartsOfConcat DEF c, A, N
  <2> QED BY <2>1, <2>2 DEF n
<1>7. (IF k > Len(c) THEN <<>> ELSE SubSeq(c, k + 1, Len(c))) = SubSeq(t, i + 1, N)
  <2>1. CASE k > Len(c)
    <3>1. i + 1 \in Int /\ N \in Int /\ N < i + 1
      BY <1>1, <1>2, <1>3, <2>1
    <3>2. SubSeq(t, i + 1, N) = <<>>
      BY <3>1, SubSeqEmpty
    <3> QED BY <2>1, <3>2
  <2>2. CASE ~(k > Len(c))
    <3>1. i \in 0..N
      BY <1>1, <1>2, <1>3, <2>2
    <3>2. SubSeq(c, A + i + 1, A + N) = SubSeq(t, i + 1, N)
      BY <3>1, PartsOfConcat DEF c, A, N
    <3> QED BY <1>2, <2>2, <3>2
  <2> QED BY <2>1, <2>2
<1> QED BY <1>2, <1>5, <1>6, <1>7 DEF Before, After, c, A, N

\* Pieces without a "--" are written without one.
LEMMA WithoutSeparator ==
  ASSUME NEW pieces \in Seq(Pieces), NEW n \in 0..Len(pieces),
         \A i \in 1..n : ~Contains(pieces[i], "--")
  PROVE  Plain(Written(pieces)[n])
<1> DEFINE N == Len(pieces)
           w == Written(pieces)
           G == AllArguments
           S == {k \in 0..n : Plain(w[k])}
<1>1. N \in Nat /\ n \in 0..N
  BY LenProperties
<1>2. \A i \in 1..N : pieces[i] \in Seq(G)
  BY ElementOfSeq, PieceShape
<1>3. \A i \in 1..n : Plain(pieces[i])
  BY DEF Contains, Plain
<1>4. /\ w \in [0..N -> Seq(G)] /\ w[0] = <<>>
      /\ \A k \in 1..N : w[k] = w[k - 1] \o pieces[k]
  BY WrittenStep
<1> HIDE DEF N, w, G
<1>5. Plain(w[0])
  BY <1>4, EmptySeq DEF Plain
<1>6. ASSUME NEW k \in 1..n, Plain(w[k - 1]) PROVE Plain(w[k])
  <2> DEFINE a == w[k - 1]
             p == pieces[k]
             c == a \o p
  <2>1. k \in 1..N /\ k - 1 \in 0..N
    BY <1>1
  <2>2. w[k] = c /\ a \in Seq(G) /\ p \in Seq(G) /\ Plain(a) /\ Plain(p)
    BY <1>2, <1>3, <1>4, <1>6, <2>1
  <2> HIDE DEF a, p
  <2>3. Len(a) \in Nat /\ Len(p) \in Nat
    BY <2>2, LenProperties
  <2>4. /\ Len(c) = Len(a) + Len(p)
        /\ \A i \in 1..(Len(a) + Len(p)) : c[i] = IF i <= Len(a) THEN a[i] ELSE p[i - Len(a)]
    BY <2>2, ConcatProperties
  <2> HIDE DEF c
  <2>5. ASSUME NEW i \in 1..Len(c) PROVE c[i] # "--"
    <3>1. i \in 1..(Len(a) + Len(p)) /\ (i <= Len(a) => i \in 1..Len(a))
          /\ (~(i <= Len(a)) => i - Len(a) \in 1..Len(p))
      BY <2>3, <2>4
    <3> QED BY <2>2, <2>4, <3>1 DEF Plain
  <2> QED BY <2>2, <2>5 DEF Plain
<1>7. n \in Nat /\ 0 \in 0..n /\ \A k \in 1..n : k \in 0..n
  BY <1>1
<1>8. 0 \in S /\ \A k \in 1..n : k - 1 \in S => k \in S
  BY <1>5, <1>6, <1>7
<1> HIDE DEF S
<1>9. n \in S
  <2>1. 0..n \subseteq S
    BY <1>7, <1>8, Induction
  <2> QED BY <1>1, <2>1
<1> QED BY <1>9 DEF S, w

\* ParseCLI for a command that may have a separator, by the cut.
LEMMA SeparatedOptions ==
  ASSUME NEW G, NEW args \in Seq(G), NEW i, Cut(args, i), NEW c \in {"run", "app"}
  PROVE  LET f == ReadFlags(SubSeq(args, 1, i - 1))
             given == IF i > Len(args) THEN <<>> ELSE SubSeq(args, i + 1, Len(args))
         IN ParseOptions(c, args) =
              IF FlagsAccepted(f)
              THEN Taken(c, f.values.config, f.dry, f.values.app, given,
                         IF given = <<>> THEN f.rest ELSE given)
              ELSE Rejected
<1> DEFINE sep == Separator(args)
           prefix == IF sep = 0 THEN args ELSE SubSeq(args, 1, sep - 1)
           behind == IF sep = 0 THEN <<>> ELSE SubSeq(args, sep + 1, Len(args))
           given == IF i > Len(args) THEN <<>> ELSE SubSeq(args, i + 1, Len(args))
           first == SubSeq(args, 1, i - 1)
<1>1. prefix = first /\ behind = given
  BY CutInTwo
<1>2. ParseOptions(c, args) =
        IF FlagsAccepted(ReadFlags(prefix))
        THEN Taken(c, ReadFlags(prefix).values.config, ReadFlags(prefix).dry,
                   ReadFlags(prefix).values.app, behind,
                   IF behind = <<>> THEN ReadFlags(prefix).rest ELSE behind)
        ELSE Rejected
  BY DEF ParseOptions
<1> HIDE DEF prefix, behind, given, first
<1> QED BY <1>1, <1>2 DEF given, first

\* LineMeaning by the cut of what trails the options.
LEMMA MeaningIs ==
  ASSUME NEW pieces \in Seq(Pieces), NEW i, Cut(Trailing(pieces), i), NEW c
  PROVE  LET after == Trailing(pieces)
             separates == c \in {"run", "app"}
             given == IF separates THEN SubSeq(after, i + 1, Len(after)) ELSE <<>>
         IN LineMeaning(c, pieces) =
              IF \E n \in DOMAIN Leading(pieces) :
                    \/ WrongOption(Leading(pieces)[n])
                    \/ separates /\ Contains(Leading(pieces)[n], "--")
              THEN Rejected
              ELSE Taken(c, ValueOf(pieces, "config"), Contains(Leading(pieces), <<"--dry-run">>),
                         ValueOf(pieces, "app"), given,
                         IF given = <<>> THEN SubSeq(after, 1, i - 1) ELSE given)
<1> DEFINE t == Trailing(pieces)
           sep == CHOOSE k \in 1..(Len(t) + 1) :
                    /\ k > Len(t) \/ t[k] = "--"
                    /\ \A j \in 1..(k - 1) : t[j] # "--"
<1>1. t \in Seq(AllArguments)
  BY TrailingIs
<1>2. sep = i
  <2> HIDE DEF t
  <2>1. \E k \in 1..(Len(t) + 1) : /\ k > Len(t) \/ t[k] = "--"
                                  /\ \A j \in 1..(k - 1) : t[j] # "--"
    BY DEF Cut, t
  <2>2. Cut(t, sep)
    BY <2>1 DEF Cut
  <2> HIDE DEF sep
  <2>3. Cut(t, i)
    BY DEF t
  <2> QED BY <1>1, <2>2, <2>3, OneCut
<1> DEFINE given(k) == IF c \in {"run", "app"} THEN SubSeq(t, k + 1, Len(t)) ELSE <<>>
           wrong == \E n \in DOMAIN Leading(pieces) :
                        \/ WrongOption(Leading(pieces)[n])
                        \/ c \in {"run", "app"} /\ Contains(Leading(pieces)[n], "--")
<1>3. LineMeaning(c, pieces) =
        IF wrong THEN Rejected
        ELSE Taken(c, ValueOf(pieces, "config"), Contains(Leading(pieces), <<"--dry-run">>),
                   ValueOf(pieces, "app"), given(sep),
                   IF given(sep) = <<>> THEN SubSeq(t, 1, sep - 1) ELSE given(sep))
  BY DEF LineMeaning, WrongOption
<1> HIDE DEF wrong, t, sep
<1> QED BY <1>2, <1>3 DEF wrong, t

\* A "--" that stands for the value of a leading option rejects the line.
LEMMA SeparatorIsNoValue ==
  ASSUME NEW pieces \in Seq(Pieces), NEW c \in {"run", "app"},
         NEW n \in 1..LeadingOptions(pieces), Contains(pieces[n], "--")
  PROVE  ParseOptions(c, Arguments(pieces)) = Rejected
<1> DEFINE N == Len(pieces)
           L == LeadingOptions(pieces)
           G == AllArguments
           w == Written(pieces)
           args == Arguments(pieces)
           T == {k \in 1..L : Contains(pieces[k], "--")}
<1>1. L \in 0..N /\ N \in Nat /\ \A k \in 1..L : IsOption(pieces[k])
  BY LeadingIs, LenProperties
<1>2. w \in [0..N -> Seq(G)] /\ \A k \in 1..N : w[k] = w[k - 1] \o pieces[k]
  BY WrittenStep
<1>3. args = w[N]
  BY DEF Arguments
<1> HIDE DEF L, N, w, G, args
<1>4. PICK m \in T : \A k \in T : m <= k
  <2>1. T # {}
    BY DEF L
  <2>2. T \in SUBSET Nat
    BY <1>1
  <2> HIDE DEF T
  <2> QED BY <2>1, <2>2, LeastNatural
<1> DEFINE p == pieces[m]
           a == w[m - 1]
           A == Len(a)
           o == p[1]
           v == p[2]
<1>5. /\ m \in 1..L /\ m \in 1..N /\ m - 1 \in 0..N /\ m - 1 \in 0..L /\ m \in 0..N
      /\ N \in m..N
      /\ Contains(p, "--")
      /\ \A k \in 1..(m - 1) : ~Contains(pieces[k], "--")
  <2>1. m \in 1..L /\ Contains(p, "--")
    BY <1>4
  <2>2. \A k \in 1..(m - 1) : k \in 1..L /\ ~(m <= k)
    BY <1>1, <2>1
  <2>3. \A k \in 1..(m - 1) : ~Contains(pieces[k], "--")
    BY <1>4, <2>2
  <2> QED BY <1>1, <2>1, <2>3
<1>6. p \in Pieces /\ IsOption(p)
  <2>1. \A k \in 1..N : pieces[k] \in Pieces
    BY ElementOfSeq DEF N
  <2> QED BY <1>1, <1>5, <2>1
<1> HIDE DEF p
<1>7. o \in TakingOptions /\ p = <<o, v>> /\ Len(p) = 2 /\ o \in G /\ v \in G
  <2>1. o \in TakingOptions
    <3> SUFFICES ASSUME o \notin TakingOptions PROVE FALSE
      OBVIOUS
    <3>1. p = <<o>> /\ Len(p) = 1
      BY <1>6, PieceShape
    <3>2. PICK k \in 1..Len(p) : p[k] = "--"
      BY <1>5 DEF Contains
    <3>3. k = 1
      BY <3>1, <3>2
    <3>4. o = "--"
      BY <3>2, <3>3
    <3>5. p = <<"--">>
      BY <3>1, <3>4
    <3> QED BY <1>6, <3>5 DEF IsOption
  <2> QED BY <1>6, <2>1, PieceShape DEF G
<1>8. o # "--" /\ o # "--dry-run" /\ o \notin Words \cup Commands
  BY <1>6, <1>7, TakesNames DEF IsOption, Commands
<1> HIDE DEF o, v
<1>9. v = "--"
  <2>1. PICK k \in 1..Len(p) : p[k] = "--"
    BY <1>5 DEF Contains
  <2>2. k = 1 \/ k = 2
    BY <1>7, <2>1
  <2> QED BY <1>8, <2>1, <2>2 DEF o, v
<1>10. a \in Seq(G) /\ A \in Nat /\ \A j \in 1..A : a[j] # "--"
  <2>1. a \in Seq(G)
    BY <1>2, <1>5
  <2>2. Plain(w[m - 1])
    <3> DEFINE k == m - 1
    <3>1. k \in 0..N /\ \A j \in 1..k : ~Contains(pieces[j], "--")
      BY <1>5
    <3> HIDE DEF k
    <3>2. Plain(w[k])
      BY <3>1, WithoutSeparator DEF N, w
    <3> QED BY <3>2 DEF k
  <2> QED BY <2>1, <2>2, LenProperties DEF Plain
<1>11. w[m] = a \o p /\ p \in Seq(G)
  <2>1. p \in Seq(G)
    BY <1>6, PieceShape DEF G
  <2> QED BY <1>2, <1>5, <2>1 DEF p
<1> HIDE DEF a
<1> DEFINE h == a \o p
<1>12. /\ h \in Seq(G) /\ Len(h) = A + 2
       /\ \A j \in 1..A : h[j] = a[j]
       /\ h[A + 1] = o /\ h[A + 2] = "--"
  <2>1. /\ h \in Seq(G) /\ Len(h) = Len(a) + Len(p)
        /\ \A j \in 1..(Len(a) + Len(p)) : h[j] = IF j <= Len(a) THEN a[j] ELSE p[j - Len(a)]
    BY <1>10, <1>11, ConcatProperties
  <2> HIDE DEF h
  <2>2. Len(h) = A + 2 /\ \A j \in 1..(A + 2) : h[j] = IF j <= A THEN a[j] ELSE p[j - A]
    BY <1>7, <2>1
  <2>3. p[1] = o /\ p[2] = "--"
    BY <1>9 DEF o, v
  <2> HIDE DEF A
  <2>4. /\ A + 1 \in 1..(A + 2) /\ A + 2 \in 1..(A + 2) /\ ~(A + 1 <= A) /\ ~(A + 2 <= A)
        /\ (A + 1) - A = 1 /\ (A + 2) - A = 2 /\ \A j \in 1..A : j \in 1..(A + 2) /\ j <= A
    BY <1>10
  <2> QED BY <2>1, <2>2, <2>3, <2>4
<1> HIDE DEF h
<1>13. args \in Seq(G) /\ A + 2 <= Len(args) /\ Len(args) \in Nat
       /\ \A j \in 1..(A + 2) : args[j] = h[j]
  <2>1. args \in Seq(G)
    BY <1>1, <1>2, <1>3
  <2>2. Len(w[m]) <= Len(w[N]) /\ \A j \in 1..Len(w[m]) : w[N][j] = w[m][j]
    BY <1>5, WrittenGoesOn DEF N, w
  <2>3. w[m] = h
    BY <1>11 DEF h
  <2>4. Len(args) \in Nat
    BY <2>1, LenProperties
  <2> QED BY <1>3, <1>12, <2>1, <2>2, <2>3, <2>4
<1> HIDE DEF A
<1> DEFINE i == A + 2
           f == ReadFlags(SubSeq(args, 1, i - 1))
<1>14. Cut(args, i)
  <2>1. i \in 1..(Len(args) + 1) /\ i \in 1..(A + 2)
    BY <1>10, <1>13
  <2>2. args[i] = "--"
    BY <1>12, <1>13, <2>1
  <2>3. \A j \in 1..(i - 1) : j \in 1..(A + 2) /\ (j \in 1..A \/ j = A + 1)
    BY <1>10
  <2>4. \A j \in 1..(i - 1) : args[j] # "--"
    BY <1>8, <1>10, <1>12, <1>13, <2>3
  <2> HIDE DEF i
  <2> QED BY <2>1, <2>2, <2>4 DEF Cut
<1>15. SubSeq(args, 1, i - 1) = a \o <<o>>
  <2> DEFINE s == SubSeq(args, 1, i - 1)
             ho == <<o>>
             b == a \o ho
  <2>1. i - 1 = A + 1
    BY <1>10
  <2>2. s \in Seq(G) /\ Len(s) = A + 1 /\ \A j \in 1..(A + 1) : s[j] = args[j]
    <3> DEFINE k == A + 1
    <3>1. 1 \in 1..(Len(args) + 1) /\ k \in (1 - 1)..Len(args) /\ k - (1 - 1) = k
          /\ \A j \in 1..k : (1 - 1) + j = j
      BY <1>10, <1>13
    <3>4. s = SubSeq(args, 1, k)
      BY <2>1
    <3> HIDE DEF k, s
    <3>2. /\ SubSeq(args, 1, k) \in Seq(G) /\ Len(SubSeq(args, 1, k)) = k - (1 - 1)
          /\ \A j \in 1..(k - (1 - 1)) : SubSeq(args, 1, k)[j] = args[(1 - 1) + j]
      BY <1>13, <3>1, PartOf
    <3>3. s \in Seq(G) /\ Len(s) = k /\ \A j \in 1..k : s[j] = args[j]
      BY <3>1, <3>2, <3>4
    <3> QED BY <3>3 DEF k
  <2>3. ho \in Seq(G) /\ Len(ho) = 1 /\ ho[1] = o
    BY <1>7
  <2> HIDE DEF s, ho
  <2>4. /\ b \in Seq(G) /\ Len(b) = Len(a) + Len(ho)
        /\ \A j \in 1..(Len(a) + Len(ho)) : b[j] = IF j <= Len(a) THEN a[j] ELSE ho[j - Len(a)]
    BY <1>10, <2>3, ConcatProperties
  <2> HIDE DEF b
  <2>5. Len(b) = A + 1 /\ \A j \in 1..(A + 1) : b[j] = IF j <= A THEN a[j] ELSE ho[j - A]
    BY <2>3, <2>4 DEF A
  <2>6. \A j \in 1..(A + 1) : b[j] = s[j]
    <3> SUFFICES ASSUME NEW j \in 1..(A + 1) PROVE b[j] = s[j]
      OBVIOUS
    <3>1. j \in 1..(A + 2) /\ (j <= A => j \in 1..A) /\ (~(j <= A) => j = A + 1 /\ j - A = 1)
      BY <1>10
    <3> QED BY <1>12, <1>13, <2>2, <2>3, <2>5, <3>1
  <2>7. b = s
    BY <2>2, <2>4, <2>5, <2>6, SeqEqual
  <2> QED BY <2>7 DEF b, s, ho
<1>16. ~FlagsAccepted(f)
  <2> DEFINE ho == <<o>>
             s == a \o ho
  <2>1. ho \in Seq(G)
    BY <1>7
  <2>2. f = ReadFlags(s)
    BY <1>15
  <2> HIDE DEF f, ho
  <2>3. Len(s) \in Nat
    BY <1>10, <2>1, ConcatProperties, LenProperties
  <2>4. Turns(NoFlags, a \o ho, f)
    <3>1. Turns(NoFlags, s, ReadFlags(s))
      <4> HIDE DEF s
      <4> QED BY <2>3, FlagsTurn
    <3> QED BY <2>2, <3>1
  <2>5. PICK x : Turns(NoFlags, a, x) /\ Turns(x, ho, f)
    BY <1>10, <2>1, <2>4, TurnsConcat
  <2>6. Behind(pieces, m - 1, x)
    <3> DEFINE k == m - 1
    <3>1. k \in 0..L /\ Turns(NoFlags, w[k], x)
      BY <1>5, <2>5 DEF a
    <3> HIDE DEF k
    <3>2. Behind(pieces, k, x)
      BY <3>1, LeadingRead DEF w, L
    <3> QED BY <3>2 DEF k
  <2>7. f = ReadArgument(x, o)
    BY <2>5, TurnsOne DEF ho
  <2>8. CASE ~x.ok
    <3>1. f = x
      BY <2>7, <2>8 DEF ReadArgument
    <3> QED BY <2>8, <3>1 DEF FlagsAccepted
  <2>9. CASE x.ok
    <3>1. x \in FlagStates(G) /\ x.reading /\ x.wants = "none"
      BY <2>6, <2>9 DEF Behind, Between, G
    <3> DEFINE name == CHOOSE k \in DOMAIN Takes : o \in Takes[k]
    <3>2. f = [x EXCEPT !.wants = name]
      BY <1>7, <1>8, <2>7, <2>9, <3>1 DEF ReadArgument, ReadOption
    <3>3. name \in Names
      <4>1. \E k \in DOMAIN Takes : o \in Takes[k]
        BY <1>7 DEF TakingOptions
      <4> QED BY <4>1, TakesNames
    <3> HIDE DEF name
    <3>4. f.wants = name /\ name # "none"
      BY <3>1, <3>2, <3>3 DEF FlagStates, Names
    <3> QED BY <3>4 DEF FlagsAccepted
  <2> QED BY <2>8, <2>9
<1> HIDE DEF f, i
<1>17. ParseOptions(c, args) = Rejected
  BY <1>13, <1>14, <1>16, SeparatedOptions DEF f
<1> QED BY <1>17 DEF args

\* With a command that may have a separator.
LEMMA SeparatedRight ==
  ASSUME NEW pieces \in Seq(Pieces), NEW c \in {"run", "app"}
  PROVE  ParseOptions(c, Arguments(pieces)) = LineMeaning(c, pieces)
<1> DEFINE L == LeadingOptions(pieces)
           G == AllArguments
           lead == Leading(pieces)
           a == Written(pieces)[L]
           t == Trailing(pieces)
           args == Arguments(pieces)
           Dashed == \E n \in 1..L : Contains(pieces[n], "--")
           Right == \A n \in DOMAIN lead : ~WrongOption(lead[n])
           Wrong == \E n \in DOMAIN lead : WrongOption(lead[n]) \/ Contains(lead[n], "--")
           file == ValueOf(pieces, "config")
           app == ValueOf(pieces, "app")
           dry == Contains(lead, <<"--dry-run">>)
<1>1. /\ L \in 0..Len(pieces) /\ DOMAIN lead = 1..L /\ \A n \in 1..L : lead[n] = pieces[n]
  BY LeadingIs
<1>2. /\ a \in Seq(G) /\ t \in Seq(G) /\ args = a \o t
      /\ t = <<>> \/ t[1] \in Words \cup Commands \cup {"--"}
  BY TrailingIs
<1>3. PICK i : Cut(t, i)
  <2> HIDE DEF t
  <2> QED BY <1>2, OneCut
<1> DEFINE given == SubSeq(t, i + 1, Len(t))
           u == SubSeq(t, 1, i - 1)
<1>4. LineMeaning(c, pieces) =
        IF Wrong THEN Rejected
        ELSE Taken(c, file, dry, app, given, IF given = <<>> THEN u ELSE given)
  <2> DEFINE both == \E n \in DOMAIN lead :
                        WrongOption(lead[n]) \/ (c \in {"run", "app"} /\ Contains(lead[n], "--"))
             sent == IF c \in {"run", "app"} THEN given ELSE <<>>
  <2>1. LineMeaning(c, pieces) =
          IF both THEN Rejected
          ELSE Taken(c, file, dry, app, sent, IF sent = <<>> THEN u ELSE sent)
    BY <1>3, MeaningIs
  <2>2. sent = given /\ (both <=> Wrong)
    OBVIOUS
  <2> HIDE DEF both, sent, Wrong
  <2> QED BY <2>1, <2>2
<1>5. CASE Dashed
  <2>1. PICK n \in 1..L : Contains(pieces[n], "--")
    BY <1>5
  <2>2. ParseOptions(c, args) = Rejected
    BY <2>1, SeparatorIsNoValue
  <2>3. Wrong
    <3> HIDE DEF lead
    <3> QED BY <1>1, <2>1
  <2> HIDE DEF Wrong
  <2> QED BY <1>4, <2>2, <2>3
<1>6. CASE ~Dashed
  <2> DEFINE k == Len(a) + i
  <2>1. Plain(a)
    <3>1. \A n \in 1..L : ~Contains(pieces[n], "--")
      BY <1>6
    <3> HIDE DEF L
    <3> QED BY <1>1, <3>1, WithoutSeparator
  <2>2. Wrong <=> ~Right
    <3>1. \A n \in DOMAIN lead : ~Contains(lead[n], "--")
      <4> HIDE DEF lead
      <4> QED BY <1>1, <1>6
    <3> QED BY <3>1
  <2> HIDE DEF Wrong, Right, a, t, args, L
  <2>3. /\ args \in Seq(G) /\ Cut(args, k) /\ SubSeq(args, 1, k - 1) = a \o u
        /\ (IF k > Len(args) THEN <<>> ELSE SubSeq(args, k + 1, Len(args))) = given
    <3> DEFINE b == a \o t
    <3>1. /\ b \in Seq(G) /\ Cut(b, k) /\ SubSeq(b, 1, k - 1) = a \o u
          /\ (IF k > Len(b) THEN <<>> ELSE SubSeq(b, k + 1, Len(b))) = given
      <4>1. a \in Seq(G) /\ t \in Seq(G) /\ Cut(t, i) /\ Plain(a)
        BY <1>2, <1>3, <2>1
      <4> HIDE DEF G
      <4>2. /\ b \in Seq(G) /\ Cut(b, k)
            /\ Before(b, k) = a \o Before(t, i) /\ After(b, k) = SubSeq(t, i + 1, Len(t))
        BY ONLY <4>1, CutBehind
      <4> QED BY <4>2 DEF Before, After
    <3>2. b = args
      BY <1>2
    <3> HIDE DEF b
    <3> QED BY <3>1, <3>2
  <2>4. u \in Seq(G) /\ (u = <<>> \/ u[1] \in Words \cup Commands)
    <3>1. Len(t) \in Nat /\ i \in 1..(Len(t) + 1) /\ \A j \in 1..(i - 1) : t[j] # "--"
      BY <1>2, <1>3, LenProperties DEF Cut
    <3> DEFINE m == i - 1
    <3>2. 1 \in 1..(Len(t) + 1) /\ m \in (1 - 1)..Len(t) /\ m - (1 - 1) = m /\ m \in Nat
          /\ \A j \in 1..m : (1 - 1) + j = j
      BY <3>1
    <3>3. \A j \in 1..m : t[j] # "--"
      BY <3>1
    <3>4. u = SubSeq(t, 1, m)
      OBVIOUS
    <3> HIDE DEF m, u
    <3>5. /\ SubSeq(t, 1, m) \in Seq(G) /\ Len(SubSeq(t, 1, m)) = m - (1 - 1)
          /\ \A j \in 1..(m - (1 - 1)) : SubSeq(t, 1, m)[j] = t[(1 - 1) + j]
      BY <1>2, <3>2, PartOf
    <3>6. u \in Seq(G) /\ Len(u) = m /\ \A j \in 1..m : u[j] = t[j]
      BY <3>2, <3>4, <3>5
    <3>7. CASE m = 0
      BY <3>6, <3>7, EmptySeq
    <3>8. CASE m # 0
      <4>1. 1 \in 1..m
        BY <3>2, <3>8
      <4>2. u[1] = t[1] /\ t[1] # "--"
        BY <3>3, <3>6, <4>1
      <4>3. t # <<>>
        <5>1. Len(t) # 0
          BY <3>1, <3>2, <3>8
        <5> QED BY <5>1, EmptySeq
      <4> QED BY <1>2, <3>6, <4>2, <4>3
    <3> QED BY <3>7, <3>8
  <2> DEFINE f == ReadFlags(a \o u)
  <2> HIDE DEF u, given
  <2>5. /\ FlagsAccepted(f) <=> Right
        /\ FlagsAccepted(f) => /\ f.values.config = file /\ f.values.app = app
                               /\ f.dry = dry /\ f.rest = u
    BY <2>4, FlagsOf DEF a, L, Right
  <2>6. ParseOptions(c, args) =
          IF FlagsAccepted(f)
          THEN Taken(c, f.values.config, f.dry, f.values.app, given,
                     IF given = <<>> THEN f.rest ELSE given)
          ELSE Rejected
    <3> DEFINE first == SubSeq(args, 1, k - 1)
               behind == IF k > Len(args) THEN <<>> ELSE SubSeq(args, k + 1, Len(args))
    <3>1. ParseOptions(c, args) =
            IF FlagsAccepted(ReadFlags(first))
            THEN Taken(c, ReadFlags(first).values.config, ReadFlags(first).dry,
                       ReadFlags(first).values.app, behind,
                       IF behind = <<>> THEN ReadFlags(first).rest ELSE behind)
            ELSE Rejected
      <4> HIDE DEF k
      <4> QED BY <2>3, SeparatedOptions
    <3>2. first = a \o u /\ behind = given
      BY <2>3
    <3> HIDE DEF first, behind
    <3> QED BY <3>1, <3>2
  <2> HIDE DEF f, file, app, dry
  <2>7. ParseOptions(c, args) =
          IF Right THEN Taken(c, file, dry, app, given, IF given = <<>> THEN u ELSE given)
          ELSE Rejected
    BY <2>5, <2>6
  <2> QED BY <1>4, <2>2, <2>7 DEF u, given, file, app, dry, args, t
<1> QED BY <1>5, <1>6

\* With another command.
LEMMA OthersRight ==
  ASSUME NEW pieces \in Seq(Pieces), NEW c \in Commands, c \notin {"run", "app"}
  PROVE  ParseOptions(c, Arguments(pieces)) = LineMeaning(c, pieces)
<1> DEFINE L == LeadingOptions(pieces)
           lead == Leading(pieces)
           a == Written(pieces)[L]
           t == Trailing(pieces)
           args == Arguments(pieces)
           Right == \A n \in DOMAIN lead : ~WrongOption(lead[n])
           file == ValueOf(pieces, "config")
           app == ValueOf(pieces, "app")
           dry == Contains(lead, <<"--dry-run">>)
           f == ReadFlags(args)
<1>1. /\ t \in Seq(AllArguments) /\ args = a \o t
      /\ t = <<>> \/ t[1] \in Words \cup Commands \cup {"--"}
  BY TrailingIs
<1>2. PICK i : Cut(t, i)
  <2> HIDE DEF t
  <2> QED BY <1>1, OneCut
<1> DEFINE u == SubSeq(t, 1, i - 1)
<1>3. \A x, y : Taken(c, file, dry, app, <<>>, x) = Taken(c, file, dry, app, <<>>, y)
  <2> HIDE DEF file, app, dry
  <2> QED BY DEF Taken
<1>4. LineMeaning(c, pieces) = IF ~Right THEN Rejected ELSE Taken(c, file, dry, app, <<>>, u)
  <2> DEFINE both == \E n \in DOMAIN lead :
                        WrongOption(lead[n]) \/ (c \in {"run", "app"} /\ Contains(lead[n], "--"))
             sent == IF c \in {"run", "app"} THEN SubSeq(t, i + 1, Len(t)) ELSE <<>>
  <2>1. LineMeaning(c, pieces) =
          IF both THEN Rejected
          ELSE Taken(c, file, dry, app, sent, IF sent = <<>> THEN u ELSE sent)
    BY <1>2, MeaningIs
  <2>2. sent = <<>> /\ (both <=> ~Right)
    OBVIOUS
  <2> HIDE DEF both, sent, Right, u
  <2> QED BY <2>1, <2>2
<1>5. ParseOptions(c, args) =
        IF FlagsAccepted(f) THEN Taken(c, f.values.config, f.dry, f.values.app, <<>>, f.rest)
        ELSE Rejected
  BY DEF ParseOptions
<1>6. /\ FlagsAccepted(f) <=> Right
      /\ FlagsAccepted(f) => f.values.config = file /\ f.values.app = app /\ f.dry = dry
  <2> DEFINE g == ReadFlags(a \o t)
  <2>1. /\ FlagsAccepted(g) <=> Right
        /\ FlagsAccepted(g) => g.values.config = file /\ g.values.app = app /\ g.dry = dry
    <3> HIDE DEF t
    <3> QED BY <1>1, FlagsOf
  <2>2. g = f
    BY <1>1
  <2> HIDE DEF g, f, Right, file, app, dry
  <2> QED BY <2>1, <2>2
<1> HIDE DEF f, Right, file, app, dry, args
<1> QED BY <1>3, <1>4, <1>5, <1>6 DEF args

\* With any command.
LEMMA OptionsRight ==
  ASSUME NEW pieces \in Seq(Pieces), NEW c \in Commands
  PROVE  ParseOptions(c, Arguments(pieces)) = LineMeaning(c, pieces)
BY SeparatedRight, OthersRight

\* What the first argument makes of the rest.
LEMMA NamedRight ==
  ASSUME NEW pieces \in Seq(Pieces), NEW c \in Commands
  PROVE  ParseCLI(<<c>> \o Arguments(pieces)) = LineMeaning(c, pieces)
<1> DEFINE args == Arguments(pieces)
           G == AllArguments \cup Commands
           h == <<c>>
           s == h \o args
<1>1. args \in Seq(G)
  <2>1. args \in Seq(AllArguments)
    BY TrailingIs
  <2>2. AllArguments \subseteq G
    OBVIOUS
  <2> HIDE DEF args, G
  <2> QED BY <2>1, <2>2, SeqMonotonic
<1>2. h \in Seq(G) /\ Len(h) = 1 /\ h[1] = c
  OBVIOUS
<1> HIDE DEF args, G, h
<1>3. /\ s \in Seq(G) /\ Len(s) = 1 + Len(args) /\ Len(args) \in Nat
      /\ \A n \in 1..(1 + Len(args)) : s[n] = IF n <= 1 THEN h[n] ELSE args[n - 1]
  <2>1. /\ s \in Seq(G) /\ Len(s) = Len(h) + Len(args)
        /\ \A n \in 1..(Len(h) + Len(args)) : s[n] = IF n <= Len(h) THEN h[n] ELSE args[n - Len(h)]
    BY <1>1, <1>2, ConcatProperties
  <2> HIDE DEF s
  <2> QED BY <1>1, <1>2, <2>1, LenProperties
<1> HIDE DEF s
<1>4. s # <<>>
  <2>1. Len(s) # 0
    BY <1>3
  <2> QED BY <2>1, EmptySeq
<1>5. Head(s) = c
  <2>1. Head(s) = s[1] /\ 1 \in 1..(1 + Len(args))
    BY <1>3
  <2> QED BY <1>2, <1>3, <2>1
<1>6. Tail(s) = args
  <2> DEFINE v == Tail(s)
  <2>1. v \in Seq(G) /\ Len(v) = Len(s) - 1 /\ \A n \in 1..Len(v) : v[n] = s[n + 1]
    BY <1>3, <1>4, HeadTailProperties
  <2> HIDE DEF v
  <2>2. Len(v) = Len(args)
    BY <1>3, <2>1
  <2>3. \A n \in 1..Len(args) : v[n] = args[n]
    <3> SUFFICES ASSUME NEW n \in 1..Len(args) PROVE v[n] = args[n]
      OBVIOUS
    <3>1. n + 1 \in 1..(1 + Len(args)) /\ ~(n + 1 <= 1) /\ (n + 1) - 1 = n
      BY <1>3
    <3> QED BY <1>3, <2>1, <2>2, <3>1
  <2>4. v = args
    BY <1>1, <2>1, <2>2, <2>3, SeqEqual
  <2> QED BY <2>4 DEF v
<1>7. c \notin Words
  BY WordsAssumption
<1>8. ParseCLI(s) = ParseOptions(c, args)
  BY <1>4, <1>5, <1>6, <1>7 DEF ParseCLI
<1> QED BY <1>8, OptionsRight DEF s, h, args

\* Without a command.
LEMMA UnnamedRight ==
  ASSUME NEW pieces \in Seq(Pieces), pieces # <<>> => pieces[1][1] \notin Commands
  PROVE  ParseCLI(Arguments(pieces)) =
           IF pieces # <<>> /\ pieces[1][1] \notin Words THEN LineMeaning("shell", pieces)
           ELSE Rejected
<1> DEFINE args == Arguments(pieces)
           N == Len(pieces)
           w == Written(pieces)
<1>1. N \in Nat /\ args = w[N] /\ w[0] = <<>> /\ args \in Seq(AllArguments)
  BY LenProperties, WrittenStep, TrailingIs DEF Arguments
<1>2. (pieces = <<>> <=> N = 0) /\ Len(<<>>) = 0
  BY EmptySeq
<1>3. N # 0 => Len(args) # 0 /\ Len(args) \in Nat /\ args[1] = pieces[1][1]
  <2> SUFFICES ASSUME N # 0 PROVE Len(args) # 0 /\ Len(args) \in Nat /\ args[1] = pieces[1][1]
    OBVIOUS
  <2> DEFINE z == 0
  <2>1. z \in 0..N /\ N \in z..N /\ z < N /\ z + 1 = 1
    BY <1>1
  <2>2. w[z] = <<>>
    BY <1>1
  <2> HIDE DEF z, N, w
  <2>3. /\ Len(w[z]) \in Nat /\ Len(w[N]) \in Nat
        /\ Len(w[z]) < Len(w[N]) /\ w[N][Len(w[z]) + 1] = pieces[z + 1][1]
    BY <2>1, WrittenGoesOn DEF N, w
  <2>4. Len(w[z]) = 0
    BY <1>2, <2>2
  <2>5. Len(w[z]) + 1 = 1 /\ Len(w[N]) # 0
    BY <2>3, <2>4
  <2>6. w[N][1] = pieces[1][1]
    BY <2>1, <2>3, <2>5
  <2> HIDE DEF args
  <2> QED BY <1>1, <2>3, <2>5, <2>6
<1> HIDE DEF args, w, N
<1>4. CASE N = 0
  <2>1. args = <<>>
    BY <1>1, <1>4
  <2> QED BY <1>2, <1>4, <2>1 DEF ParseCLI, args
<1>5. CASE N # 0
  <2> DEFINE p == pieces[1]
  <2>1. args # <<>> /\ Head(args) = p[1]
    <3>1. Len(args) # 0
      BY <1>3, <1>5
    <3>2. args # <<>>
      BY <1>2, <3>1
    <3>3. Head(args) = args[1]
      BY <1>1, <3>2
    <3> QED BY <1>3, <1>5, <3>2, <3>3
  <2>2. p \in Pieces
    <3>1. 1 \in 1..N
      BY <1>1, <1>5
    <3> QED BY <3>1, ElementOfSeq DEF N
  <2> HIDE DEF p
  <2>3. p[1] \notin Commands
    BY <1>2, <1>5 DEF p
  <2>4. CASE p[1] \in Words
    <3>1. ParseCLI(args) = Rejected
      BY <2>1, <2>4 DEF ParseCLI
    <3> QED BY <2>4, <3>1 DEF p, args
  <2>5. CASE p[1] \notin Words
    <3>1. ParseCLI(args) = ParseOptions("shell", args)
      BY <2>1, <2>3, <2>5 DEF ParseCLI
    <3>2. "shell" \in Commands
      BY DEF Commands
    <3>3. ParseOptions("shell", args) = LineMeaning("shell", pieces)
      BY <3>2, OptionsRight DEF args
    <3> QED BY <1>2, <1>5, <2>5, <3>1, <3>3 DEF p, args
  <2> QED BY <2>4, <2>5
<1> QED BY <1>4, <1>5

-----------------------------------------------------------------------------
(* The module *)

\* What each kind of input is made of.
TypeInv ==
    /\ pattern \in Seq(Labels) \ {<<>>} /\ host \in Seq(Labels) \ {<<>>}
    /\ rules \in Seq(RulesLines)
    /\ begun \in Beginnings \cup {<<>>} /\ config \in Seq(ConfigLines)
    /\ command \in Commands \cup {Unset} /\ line \in Seq(Pieces)
    /\ command = Unset /\ line # <<>> => line[1][1] \notin Commands

\* The inputs grow by their own kind of element, whatever their size.
THEOREM TypeCorrect == Spec => []TypeInv
<1>1. Init => TypeInv
  <2> SUFFICES ASSUME Init PROVE TypeInv
    OBVIOUS
  <2>1. "" \in Labels
    BY LabelsAssumption
  <2>2. pattern \in [1..1 -> Labels] /\ host \in [1..1 -> Labels]
    <3>1. \A l \in Labels : <<l>> \in [1..1 -> Labels]
      OBVIOUS
    <3> QED BY <2>1, <3>1 DEF Init
  <2>3. \A name \in [1..1 -> Labels] : name \in Seq(Labels) /\ name # <<>>
    <3> SUFFICES ASSUME NEW name \in [1..1 -> Labels] PROVE name \in Seq(Labels) /\ name # <<>>
      OBVIOUS
    <3>1. name \in Seq(Labels)
      <4>1. name[1] \in Labels /\ name = <<name[1]>>
        OBVIOUS
      <4> QED BY <4>1
    <3>2. 1 \in DOMAIN name /\ DOMAIN <<>> = {}
      BY EmptySeq
    <3> QED BY <3>1, <3>2
  <2>4. rules = <<>> /\ config = <<>> /\ begun \in Beginnings \cup {<<>>}
    BY DEF Init
  <2>5. rules \in Seq(RulesLines) /\ config \in Seq(ConfigLines)
    BY <2>4, EmptySeq
  <2>6. command \in Commands \cup {Unset}
    BY DEF Init
  <2>7. line = <<>> /\ line \in Seq(Pieces)
    BY EmptySeq DEF Init
  <2> QED BY <2>2, <2>3, <2>4, <2>5, <2>6, <2>7 DEF TypeInv
<1>2. TypeInv /\ [Next]_vars => TypeInv'
  <2> SUFFICES ASSUME TypeInv, [Next]_vars PROVE TypeInv'
    OBVIOUS
  <2>0. ASSUME NEW name \in Seq(Labels) \ {<<>>}, NEW l \in Labels
        PROVE  Append(name, l) \in Seq(Labels) \ {<<>>}
    BY AppendProperties
  <2>1. ASSUME NEW l \in Labels, LongerPattern(l) PROVE TypeInv'
    BY <2>0, <2>1 DEF TypeInv, LongerPattern
  <2>2. ASSUME NEW l \in Labels, LongerHost(l) PROVE TypeInv'
    BY <2>0, <2>2 DEF TypeInv, LongerHost
  <2>3. ASSUME NEW l \in RulesLines, MoreRules(l) PROVE TypeInv'
    BY <2>3, AppendProperties DEF TypeInv, MoreRules
  <2>4. ASSUME NEW l \in ConfigLines, MoreConfig(l) PROVE TypeInv'
    BY <2>4, AppendProperties DEF TypeInv, MoreConfig
  <2>5. ASSUME NEW piece \in Pieces, MoreArguments(piece) PROVE TypeInv'
    <3> DEFINE more == Append(line, piece)
    <3>1. /\ line \in Seq(Pieces) /\ (command = Unset /\ line # <<>> => line[1][1] \notin Commands)
          /\ (command = Unset /\ line = <<>> => piece[1] \notin Commands) /\ line' = more
      BY <2>5 DEF TypeInv, MoreArguments
    <3>2. /\ more \in Seq(Pieces) /\ Len(line) \in Nat
          /\ \A i \in 1..Len(line) : more[i] = line[i]
          /\ more[Len(line) + 1] = piece
      BY <3>1, AppendProperties, LenProperties
    <3>3. line = <<>> => Len(line) + 1 = 1
      BY EmptySeq
    <3>4. line # <<>> => 1 \in 1..Len(line)
      BY <3>1, EmptySeq
    <3> HIDE DEF more
    <3>5. command = Unset => more[1][1] \notin Commands
      BY <3>1, <3>2, <3>3, <3>4
    <3>6. UNCHANGED <<kind, pattern, host, rules, begun, config, command>>
      BY <2>5 DEF MoreArguments
    <3> QED BY <3>1, <3>2, <3>5, <3>6 DEF TypeInv
  <2>6. CASE UNCHANGED vars
    BY <2>6 DEF TypeInv, vars
  <2> QED BY <2>1, <2>2, <2>3, <2>4, <2>5, <2>6 DEF Next
<1> QED BY <1>1, <1>2, PTL DEF Spec

\* For names of any length over any labels: the matcher accepts the hosts a pattern
\* covers and no other.
THEOREM MatcherIsRight == Spec => []MatchesWhatItCovers
<1>1. TypeInv => MatchesWhatItCovers
  BY MatchesIsExcludes DEF TypeInv, MatchesWhatItCovers
<1> QED BY <1>1, TypeCorrect, PTL

\* For rules files of any length and addresses of any width: what is kept out of the
\* tunnel is what some line names.
THEOREM RulesFileIsRight == Spec => []RulesFileMeansItsLines
<1>1. TypeInv => RulesFileMeansItsLines
  BY RulesRight DEF TypeInv
<1> QED BY <1>1, TypeCorrect, PTL

\* For configuration files of any length: what stands under a header stays there.
THEOREM ConfigParserIsRight == Spec => []ConfigSectionsKeptApart
<1>1. ASSUME TypeInv PROVE ConfigSectionsKeptApart
  <2>1. begun \in Seq(FileLines)
    BY <1>1, FileLinesAssumption, EmptySeq DEF TypeInv
  <2>2. config \in Seq(FileLines)
    <3>1. ConfigLines \subseteq FileLines
      BY DEF FileLines
    <3> QED BY <1>1, <3>1, SeqMonotonic DEF TypeInv
  <2>3. begun \o config \in Seq(FileLines)
    BY <2>1, <2>2, ConcatProperties
  <2> QED BY <2>3, FileLinesAssumption, ParseIsMeaning DEF ConfigSectionsKeptApart
<1> QED BY <1>1, TypeCorrect, PTL

\* For configuration files of any length: the device has the configuration the program
\* accepted, and in tunnel mode the one endpoint is the address that is kept out of it.
THEOREM DeviceIsConfigured == Spec => []DeviceGetsConfig
<1>1. ASSUME TypeInv PROVE DeviceGetsConfig
  <2> DEFINE cfg == Parse(begun \o config)
             e == TunnelEndpoint(cfg)
             V == Keys \cup {Empty, 0, "true", e} \cup ListItems \cup {l.value : l \in FileLines} \cup Int
             t == Resolved(cfg, e)
             proxied == IpcSet(ToUAPI(cfg))
             device == IpcSet(ToUAPI(t))
  <2>1. begun \o config \in Seq(FileLines)
    <3>1. begun \in Seq(FileLines)
      BY <1>1, FileLinesAssumption, EmptySeq DEF TypeInv
    <3>2. config \in Seq(FileLines)
      <4>1. ConfigLines \subseteq FileLines
        BY DEF FileLines
      <4> QED BY <1>1, <4>1, SeqMonotonic DEF TypeInv
    <3> QED BY <3>1, <3>2, ConcatProperties
  <2>2. Known(V) /\ e \in V
    BY DEF Known
  <2>3. \A l \in FileLines : TypedLine(V, l)
    <3> SUFFICES ASSUME NEW l \in FileLines, l.what = "pair", l.value # NotANumber
                 PROVE  /\ l.key \in Texts => l.value \in V
                        /\ l.key \in Numbers => l.value \in V \cap Int
                        /\ l.key \in Lists => l.value \in Seq(V)
      BY DEF TypedLine
    <3>1. l.value \in V
      OBVIOUS
    <3>2. l.key \in Numbers => l.value \in Int
      BY FileLinesAssumption
    <3>3. l.key \in Lists => l.value \in Seq(ListItems)
      BY FileLinesAssumption DEF ListLines
    <3>4. ListItems \subseteq V
      OBVIOUS
    <3> HIDE DEF V
    <3> QED BY <3>1, <3>2, <3>3, <3>4, SeqMonotonic
  <2> HIDE DEF V
  <2>4. IsConfig(V, cfg)
    BY <2>1, <2>2, <2>3, ParseType
  <2> HIDE DEF cfg, e
  <2>5. (proxied.ok <=> DeviceTakes(cfg)) /\ (proxied.ok => Has(proxied, cfg))
    BY <2>2, <2>4, DeviceHas
  <2>6. IsConfig(V, t)
    BY <2>2, <2>4, ResolvedIs
  <2> HIDE DEF t
  <2>7. (device.ok <=> DeviceTakes(t)) /\ (device.ok => Has(device, t))
    BY <2>2, <2>6, DeviceHas
  <2> HIDE DEF device, proxied
  <2>8. ASSUME TunnelAccepts(cfg), device.ok
        PROVE  {device.peers[k].endpoint : k \in Keys} \ {Empty} = {e}
    <3>1. Cardinality(EndpointPeers(cfg)) = 1 /\ e # Empty
      BY <2>8 DEF TunnelAccepts, e
    <3>2. Has(device, Resolved(cfg, e)) /\ DeviceTakes(Resolved(cfg, e))
      BY <2>7, <2>8 DEF t
    <3> QED BY <2>2, <2>4, <3>1, <3>2, OneEndpoint
  <2> QED BY <2>5, <2>7, <2>8 DEF DeviceGetsConfig, cfg, e, t, device, proxied
<1> QED BY <1>1, TypeCorrect, PTL

\* For command lines of any length: the program does what its pieces say.
THEOREM CommandLineIsUnderstood == Spec => []CommandLineUnderstood
<1>1. ASSUME TypeInv PROVE CommandLineUnderstood
  <2> DEFINE args == Arguments(line)
  <2>1. line \in Seq(Pieces) /\ command \in Commands \cup {Unset}
        /\ (command = Unset /\ line # <<>> => line[1][1] \notin Commands)
    BY <1>1 DEF TypeInv
  <2>2. CASE command = Unset
    <3>1. <<>> \o args = args
      <4>1. args \in Seq(AllArguments)
        BY <2>1, TrailingIs
      <4> HIDE DEF args
      <4> QED BY <4>1, ConcatEmptySeq
    <3>2. ParseCLI(args) =
            IF line # <<>> /\ line[1][1] \notin Words THEN LineMeaning("shell", line) ELSE Rejected
      BY <2>1, <2>2, UnnamedRight
    <3> QED BY <2>2, <3>1, <3>2 DEF CommandLineUnderstood
  <2>3. CASE command # Unset
    <3>1. ParseCLI(<<command>> \o args) = LineMeaning(command, line)
      BY <2>1, <2>3, NamedRight
    <3> QED BY <2>3, <3>1 DEF CommandLineUnderstood
  <2> QED BY <2>2, <2>3
<1> QED BY <1>1, TypeCorrect, PTL
=============================================================================
