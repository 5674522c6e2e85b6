-------------------------------- MODULE Loops --------------------------------
(***************************************************************************)
(* What loops do: one that looks for the first place finds it, and one     *)
(* that repeats a step gets somewhere.                                     *)
(***************************************************************************)
EXTENDS Integers, FiniteSetTheorems, WellFoundedInduction, TLAPS

(***************************************************************************)
(* A nonempty set of naturals has a least element.                         *)
(***************************************************************************)
LEMMA LeastExists ==
  ASSUME NEW S \in SUBSET Nat, S # {}
  PROVE  \E m \in S : \A k \in S : m <= k
<1> DEFINE Below == {0..(q - 1) : q \in S}
<1>1. Below \subseteq FiniteSubsetsOf(Nat) /\ Below # {}
  <2>1. ASSUME NEW q \in S PROVE 0..(q-1) \subseteq Nat /\ IsFiniteSet(0..(q-1))
    BY FS_Interval
  <2> QED
    BY <2>1 DEF FiniteSubsetsOf
<1>2. IsWellFoundedOn(StrictSubsetOrdering(Nat), FiniteSubsetsOf(Nat))
  BY FS_StrictSubsetOrderingWellFounded
<1>3. \E x \in Below : \A y \in Below : <<y, x>> \notin StrictSubsetOrdering(Nat)
  <2> HIDE DEF Below
  <2> QED
    BY <1>1, <1>2, WFMin
<1>4. PICK m \in S : \A k \in S : <<0..(k-1), 0..(m-1)>> \notin StrictSubsetOrdering(Nat)
  BY <1>3
<1>5. ASSUME NEW k \in S, k < m PROVE FALSE
  <2>1. k \in Nat /\ m \in Nat
    OBVIOUS
  <2>2. 0..(k-1) \subseteq 0..(m-1) /\ k \in 0..(m-1) /\ k \notin 0..(k-1)
    BY <1>5, <2>1
  <2>3. 0..(k-1) \in SUBSET Nat /\ 0..(m-1) \in SUBSET Nat
    BY <2>1
  <2> QED
    BY <1>4, <2>2, <2>3 DEF StrictSubsetOrdering
<1> QED
  BY <1>5

(***************************************************************************)
(* What is so at the start and passed on by each step is so after each.    *)
(***************************************************************************)
LEMMA PassedOn ==
  ASSUME NEW N \in Nat, NEW S, 0 \in S, \A n \in 1..N : n - 1 \in S => n \in S
  PROVE  0..N \subseteq S
<1> DEFINE Rest == 0..N \ S
<1>1. CASE Rest = {}
  BY <1>1
<1>2. CASE Rest # {}
  <2>1. PICK m \in Rest : \A k \in Rest : m <= k
    <3>1. Rest \in SUBSET Nat
      OBVIOUS
    <3> HIDE DEF Rest
    <3> QED
      BY <1>2, <3>1, LeastExists
  <2>2. m \in 1..N
    BY <2>1
  <2>3. m - 1 \in 0..N /\ m - 1 \notin Rest
    BY <2>1, <2>2
  <2> QED
    BY <2>1, <2>2, <2>3
<1> QED
  BY <1>1, <1>2

(***************************************************************************)
(* A function that is defined by recursion on its argument exists.         *)
(***************************************************************************)
LEMMA RunExists ==
  ASSUME NEW A, NEW start \in A, NEW N \in Nat, NEW step \in [1..N -> [A -> A]]
  PROVE  \E f \in [0..N -> A] : f[0] = start /\ \A n \in 1..N : f[n] = step[n][f[n-1]]
<1> DEFINE IsRun(n, f) == f[0] = start /\ \A k \in 1..n : f[k] = step[k][f[k-1]]
           S == {n \in 0..N : \E f \in [0..n -> A] : IsRun(n, f)}
<1>1. 0 \in S
  <2> DEFINE f == [k \in 0..0 |-> start]
  <2>1. f \in [0..0 -> A] /\ f[0] = start /\ 1..0 = {}
    OBVIOUS
  <2> HIDE DEF f
  <2>2. IsRun(0, f)
    BY <2>1
  <2> QED
    BY <2>1, <2>2
<1>2. ASSUME NEW n \in 1..N, n - 1 \in S PROVE n \in S
  <2>1. PICK f \in [0..(n - 1) -> A] : IsRun(n - 1, f)
    BY <1>2
  <2> DEFINE g == [k \in 0..n |-> IF k = n THEN step[n][f[n-1]] ELSE f[k]]
  <2>2. g \in [0..n -> A]
    <3>1. f[n-1] \in A
      BY <2>1
    <3>2. step[n][f[n-1]] \in A
      BY <3>1
    <3> QED
      BY <3>2
  <2>3. g[0] = start
    BY <2>1
  <2>4. ASSUME NEW k \in 1..n PROVE g[k] = step[k][g[k-1]]
    <3>1. CASE k = n
      BY <3>1
    <3>2. CASE k # n
      BY <2>1, <3>2
    <3> QED
      BY <3>1, <3>2
  <2> HIDE DEF g
  <2> QED
    BY <2>2, <2>3, <2>4
<1>3. 0..N \subseteq S
  <2> HIDE DEF S
  <2> QED
    BY <1>1, <1>2, PassedOn
<1>4. N \in S
  BY <1>3
<1> QED
  BY <1>4

(***************************************************************************)
(* And there is only one.                                                  *)
(***************************************************************************)
LEMMA RunUnique ==
  ASSUME NEW N \in Nat, NEW f, NEW g, f[0] = g[0],
         \A n \in 1..N : f[n-1] = g[n-1] => f[n] = g[n]
  PROVE  \A n \in 0..N : f[n] = g[n]
<1> DEFINE S == {n \in 0..N : f[n] = g[n]}
<1>1. 0 \in S /\ \A n \in 1..N : n - 1 \in S => n \in S
  OBVIOUS
<1>2. 0..N \subseteq S
  <2> HIDE DEF S
  <2> QED
    BY <1>1, PassedOn
<1> QED
  BY <1>2

(***************************************************************************)
(* The same two facts, with what they ask for under one name.              *)
(***************************************************************************)
Steps(A, start, N, step) ==
  N \in Nat /\ start \in A /\ step \in [1..N -> [A -> A]]

RunOf(A, start, N, step, f) ==
  f \in [0..N -> A] /\ f[0] = start /\ \A n \in 1..N : f[n] = step[n][f[n-1]]

LEMMA StepsRun ==
  ASSUME NEW A, NEW start, NEW N, NEW step, Steps(A, start, N, step)
  PROVE  \E f : RunOf(A, start, N, step, f)
  BY RunExists DEF Steps, RunOf

Alike(N, f, g) ==
  N \in Nat /\ f[0] = g[0] /\ \A n \in 1..N : f[n-1] = g[n-1] => f[n] = g[n]

LEMMA AlikeAgree ==
  ASSUME NEW N, NEW f, NEW g, Alike(N, f, g)
  PROVE  \A n \in 0..N : f[n] = g[n]
  BY RunUnique DEF Alike

(***************************************************************************)
(* A step can be repeated for ever.                                        *)
(***************************************************************************)
LEMMA RunsForever ==
  ASSUME NEW A, NEW start \in A, NEW step \in [A -> A]
  PROVE  \E f \in [Nat -> A] : f[0] = start /\ \A n \in Nat : f[n+1] = step[f[n]]
<1> DEFINE IsRun(n, f) == f[0] = start /\ \A k \in 1..n : f[k] = step[f[k-1]]
           R(n) == CHOOSE f \in [0..n -> A] : IsRun(n, f)
           g == [n \in Nat |-> R(n)[n]]
<1>1. ASSUME NEW n \in Nat PROVE R(n) \in [0..n -> A] /\ IsRun(n, R(n))
  <2> DEFINE steps == [k \in 1..n |-> step]
  <2>1. steps \in [1..n -> [A -> A]]
    OBVIOUS
  <2>2. \A k \in 1..n : steps[k] = step
    OBVIOUS
  <2> HIDE DEF steps, IsRun, R, g
  <2>3. PICK f : RunOf(A, start, n, steps, f)
    <3>1. Steps(A, start, n, steps)
      BY <2>1 DEF Steps
    <3> QED
      BY <3>1, StepsRun
  <2>4. f \in [0..n -> A] /\ IsRun(n, f)
    BY <2>2, <2>3 DEF RunOf, IsRun
  <2> QED
    BY <2>4 DEF R
<1>2. ASSUME NEW n \in Nat PROVE g[n+1] = step[g[n]]
  <2> DEFINE r == R(n)
             s == R(n + 1)
  <2>1. r[0] = start /\ \A k \in 1..n : r[k] = step[r[k-1]]
    BY <1>1
  <2>2. s[0] = start /\ \A k \in 1..(n + 1) : s[k] = step[s[k-1]]
    <3>1. n + 1 \in Nat
      OBVIOUS
    <3> QED
      BY <1>1, <3>1
  <2>3. g[n] = r[n] /\ g[n+1] = s[n+1]
    OBVIOUS
  <2> HIDE DEF R, r, s, g
  <2>4. \A k \in 0..n : r[k] = s[k]
    <3>1. r[0] = s[0] /\ \A k \in 1..n : r[k-1] = s[k-1] => r[k] = s[k]
      BY <2>1, <2>2
    <3> QED
      BY <3>1, RunUnique
  <2> QED
    BY <2>2, <2>3, <2>4
<1>3. ASSUME NEW n \in Nat PROVE R(n)[n] \in A
  <2>1. n \in 0..n
    OBVIOUS
  <2> HIDE DEF R
  <2>2. R(n) \in [0..n -> A]
    BY <1>1
  <2> QED
    BY <2>1, <2>2
<1>4. g \in [Nat -> A] /\ g[0] = start
  <2>1. g[0] = R(0)[0] /\ R(0)[0] = start
    BY <1>1
  <2> QED
    BY <1>3, <2>1
<1> HIDE DEF g
<1> QED
  BY <1>2, <1>4

(***************************************************************************)
(* A function that is defined by recursion to what is less high exists.    *)
(***************************************************************************)
Descends(T, A, start, h, step) ==
  /\ start \in [T -> A] /\ h \in [T -> Nat] /\ step \in [T -> [[T -> A] -> A]]
  /\ \A t \in T : \A f, g \in [T -> A] :
       (\A u \in T : h[u] < h[t] => f[u] = g[u]) => step[t][f] = step[t][g]

LEMMA DescentExists ==
  ASSUME NEW T, NEW A, NEW start, NEW h, NEW step, Descends(T, A, start, h, step)
  PROVE  \E f \in [T -> A] : \A t \in T : f[t] = step[t][f]
<1> USE DEF Descends
<1> DEFINE B == [T -> A]
           all == [f \in B |-> [t \in T |-> step[t][f]]]
<1>1. all \in [B -> B] /\ start \in B
  OBVIOUS
<1>2. PICK F \in [Nat -> B] : F[0] = start /\ \A n \in Nat : F[n+1] = all[F[n]]
  <2> HIDE DEF all, B
  <2> QED
    BY <1>1, RunsForever
<1>3. \A n \in Nat : F[n] \in [T -> A]
  OBVIOUS
<1>4. ASSUME NEW n \in Nat, NEW t \in T PROVE F[n+1][t] = step[t][F[n]]
  <2>1. F[n] \in B /\ F[n+1] = all[F[n]]
    BY <1>2
  <2> QED
    BY <2>1
<1> HIDE DEF all
<1>5. ASSUME NEW N \in Nat PROVE \A t \in T : h[t] < N => F[N][t] = F[N+1][t]
  <2> DEFINE S == {n \in 0..N : \A t \in T : h[t] < n => F[n][t] = F[n+1][t]}
  <2>1. 0 \in S
    <3>1. \A t \in T : ~(h[t] < 0)
      OBVIOUS
    <3> QED
      BY <3>1
  <2>2. ASSUME NEW n \in 1..N, n - 1 \in S PROVE n \in S
    <3>1. ASSUME NEW t \in T, h[t] < n PROVE F[n][t] = F[n+1][t]
      <4>1. n \in Nat /\ n - 1 \in Nat /\ (n - 1) + 1 = n
        OBVIOUS
      <4>2. F[n] \in [T -> A] /\ F[n-1] \in [T -> A]
        BY <1>3, <4>1
      <4>3. F[n][t] = step[t][F[n-1]] /\ F[n+1][t] = step[t][F[n]]
        <5>1. F[(n-1)+1][t] = step[t][F[n-1]]
          BY <1>4, <4>1
        <5> QED
          BY <1>4, <4>1, <5>1
      <4>4. ASSUME NEW u \in T, h[u] < h[t] PROVE F[n-1][u] = F[n][u]
        <5>1. h[u] < n - 1
          BY <3>1, <4>1, <4>4
        <5>2. F[n-1][u] = F[(n-1)+1][u]
          BY <2>2, <5>1
        <5> QED
          BY <4>1, <5>2
      <4> QED
        BY <4>2, <4>3, <4>4
    <3> QED
      BY <3>1
  <2>3. 0..N \subseteq S
    <3> HIDE DEF S
    <3> QED
      BY <2>1, <2>2, PassedOn
  <2>4. N \in S
    BY <2>3
  <2> QED
    BY <2>4
<1>6. ASSUME NEW t \in T, NEW n \in Nat, h[t] < n, NEW K \in Nat
      PROVE  F[n + K][t] = F[n][t]
  <2> DEFINE S == {k \in 0..K : F[n + k][t] = F[n][t]}
  <2>1. 0 \in S
    OBVIOUS
  <2>2. ASSUME NEW k \in 1..K, k - 1 \in S PROVE k \in S
    <3>1. n + (k - 1) \in Nat /\ h[t] < n + (k - 1) /\ (n + (k - 1)) + 1 = n + k
      BY <1>6
    <3>2. F[n + (k - 1)][t] = F[(n + (k - 1)) + 1][t]
      BY <1>5, <3>1
    <3> QED
      BY <2>2, <3>1, <3>2
  <2>3. 0..K \subseteq S
    <3> HIDE DEF S
    <3> QED
      BY <2>1, <2>2, PassedOn
  <2>4. K \in S
    <3>1. K \in 0..K
      OBVIOUS
    <3> QED
      BY <2>3, <3>1
  <2> QED
    BY <2>4
<1> DEFINE g == [t \in T |-> F[h[t] + 1][t]]
<1>7. g \in [T -> A]
  <2>1. ASSUME NEW t \in T PROVE F[h[t] + 1][t] \in A
    <3>1. h[t] + 1 \in Nat
      OBVIOUS
    <3>2. F[h[t] + 1] \in [T -> A]
      BY <1>3, <3>1
    <3> QED
      BY <3>2
  <2> QED
    BY <2>1
<1>8. ASSUME NEW t \in T PROVE g[t] = step[t][g]
  <2>1. h[t] \in Nat /\ F[h[t]] \in [T -> A] /\ g[t] = step[t][F[h[t]]]
    BY <1>3, <1>4
  <2>2. ASSUME NEW u \in T, h[u] < h[t] PROVE F[h[t]][u] = g[u]
    <3>1. /\ h[u] + 1 \in Nat /\ h[u] < h[u] + 1
          /\ h[t] - (h[u] + 1) \in Nat /\ (h[u] + 1) + (h[t] - (h[u] + 1)) = h[t]
      <4>1. h[u] \in Nat /\ h[t] \in Nat
        OBVIOUS
      <4> QED
        BY <2>2, <4>1
    <3>2. F[(h[u] + 1) + (h[t] - (h[u] + 1))][u] = F[h[u] + 1][u]
      BY <1>6, <3>1
    <3> QED
      BY <3>1, <3>2
  <2> HIDE DEF g
  <2> QED
    BY <1>7, <2>1, <2>2
<1> HIDE DEF g
<1> QED
  BY <1>7, <1>8

(***************************************************************************)
(* A fold takes the greatest element of a set of places off.  The one of   *)
(* the places up to n is n; and what the fold computes exists.             *)
(***************************************************************************)
Greatest(s) == CHOOSE x \in s : \A y \in s : x >= y

LEMMA GreatestFacts ==
  ASSUME NEW n \in Nat
  PROVE  /\ n > 0 => Greatest(1..n) = n /\ (1..n) \ {n} = 1..(n-1)
         /\ \A s \in SUBSET (1..n) : s # {} => Greatest(s) \in s
<1>1. ASSUME n > 0 PROVE Greatest(1..n) = n /\ (1..n) \ {n} = 1..(n-1)
  <2>1. n \in 1..n /\ \A y \in 1..n : n >= y
    BY <1>1
  <2>2. \A x \in 1..n : (\A y \in 1..n : x >= y) => x = n
    BY <1>1
  <2>3. Greatest(1..n) = n
    BY <2>1, <2>2 DEF Greatest
  <2> QED
    BY <1>1, <2>3
<1>2. ASSUME NEW s \in SUBSET (1..n), s # {} PROVE Greatest(s) \in s
  <2> DEFINE mirror == {n - x : x \in s}
  <2>1. mirror \in SUBSET Nat /\ mirror # {}
    <3>1. \A x \in 1..n : n - x \in Nat
      OBVIOUS
    <3>2. \A x \in s : n - x \in Nat
      BY <3>1
    <3>3. mirror \in SUBSET Nat
      BY <3>2
    <3> QED
      BY <1>2, <3>3
  <2>2. PICK m \in mirror : \A k \in mirror : m <= k
    <3> HIDE DEF mirror
    <3> QED
      BY <2>1, LeastExists
  <2>3. PICK x \in s : m = n - x
    BY <2>2
  <2>4. ASSUME NEW y \in s PROVE x >= y
    <3>1. n - y \in mirror /\ x \in Int /\ y \in Int
      OBVIOUS
    <3>2. n - x <= n - y
      BY <2>2, <2>3, <3>1
    <3> QED
      BY <3>1, <3>2
  <2> HIDE DEF mirror
  <2> QED
    BY <2>4 DEF Greatest
<1> QED
  BY <1>1, <1>2

FoldOf(A, base, N, step, f) ==
  /\ f \in [SUBSET (1..N) -> A]
  /\ \A s \in SUBSET (1..N) :
       f[s] = IF s = {} THEN base ELSE step[Greatest(s)][f[s \ {Greatest(s)}]]

LEMMA FoldExists ==
  ASSUME NEW A, NEW base, NEW N, NEW step, Steps(A, base, N, step)
  PROVE  \E f : FoldOf(A, base, N, step, f)
<1>0. base \in A /\ N \in Nat /\ step \in [1..N -> [A -> A]]
  BY DEF Steps
<1> USE <1>0
<1> DEFINE T == SUBSET (1..N)
           h == [s \in T |-> Cardinality(s)]
           start == [s \in T |-> base]
           next(s, f) == IF s = {} THEN base ELSE step[Greatest(s)][f[s \ {Greatest(s)}]]
           F == [T -> A]
           down == [s \in T |-> [f \in F |-> next(s, f)]]
<1>1. ASSUME NEW s \in T, s # {}
      PROVE  /\ Greatest(s) \in 1..N /\ s \ {Greatest(s)} \in T
             /\ h[s \ {Greatest(s)}] < h[s]
  <2>1. Greatest(s) \in s
    BY <1>1, GreatestFacts
  <2>2. IsFiniteSet(s)
    <3>1. IsFiniteSet(1..N)
      BY FS_Interval
    <3> QED
      BY <3>1, FS_Subset
  <2>3. Cardinality(s \ {Greatest(s)}) = Cardinality(s) - 1 /\ Cardinality(s) \in Nat
    BY <2>1, <2>2, FS_RemoveElement, FS_CardinalityType
  <2>4. Greatest(s) \in 1..N /\ s \ {Greatest(s)} \in T
    BY <2>1
  <2>5. h[s \ {Greatest(s)}] = Cardinality(s \ {Greatest(s)}) /\ h[s] = Cardinality(s)
    BY <2>4
  <2> HIDE DEF T, h
  <2> QED
    BY <2>3, <2>4, <2>5
<1>2. h \in [T -> Nat]
  <2>1. IsFiniteSet(1..N)
    BY FS_Interval
  <2>2. \A s \in T : IsFiniteSet(s)
    BY <2>1, FS_Subset
  <2>3. \A s \in T : Cardinality(s) \in Nat
    BY <2>2, FS_CardinalityType
  <2> QED
    BY <2>3
<1>3. start \in F
  OBVIOUS
<1>4. ASSUME NEW s \in T, NEW f \in F PROVE next(s, f) \in A
  <2>1. CASE s = {}
    BY <2>1
  <2>2. CASE s # {}
    <3>1. f[s \ {Greatest(s)}] \in A /\ step[Greatest(s)] \in [A -> A]
      BY <1>1, <2>2
    <3>2. step[Greatest(s)][f[s \ {Greatest(s)}]] \in A
      BY <3>1
    <3> QED
      BY <2>2, <3>2
  <2> QED
    BY <2>1, <2>2
<1>5. down \in [T -> [F -> A]]
  <2>1. \A s \in T : [f \in F |-> next(s, f)] \in [F -> A]
    BY <1>4
  <2> HIDE DEF T, F, next
  <2> QED
    BY <2>1
<1>6. ASSUME NEW s \in T, NEW f \in F, NEW g \in F, \A u \in T : h[u] < h[s] => f[u] = g[u]
      PROVE  down[s][f] = down[s][g]
  <2>1. s # {} => f[s \ {Greatest(s)}] = g[s \ {Greatest(s)}]
    <3> HIDE DEF T, h
    <3> QED
      BY <1>1, <1>6
  <2>2. next(s, f) = next(s, g)
    BY <2>1
  <2> HIDE DEF T, F, next
  <2> QED
    BY <2>2
<1>7. PICK f \in [T -> A] : \A s \in T : f[s] = down[s][f]
  <2>1. \A s \in T : \A f, g \in [T -> A] :
          (\A u \in T : h[u] < h[s] => f[u] = g[u]) => down[s][f] = down[s][g]
    BY <1>6
  <2>2. down \in [T -> [[T -> A] -> A]] /\ start \in [T -> A]
    BY <1>3, <1>5
  <2> HIDE DEF T, h, start, down
  <2>3. Descends(T, A, start, h, down)
    BY <1>2, <2>1, <2>2 DEF Descends
  <2> QED
    BY <2>3, DescentExists
<1> QED
  BY <1>7 DEF FoldOf
=============================================================================
