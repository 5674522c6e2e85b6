-------------------------- MODULE TypeGraphProofs --------------------------
(***************************************************************************)
(* Facts about the operators of TypeGraph, for every assignment of types.  *)
(***************************************************************************)
EXTENDS TypeGraph, Loops, SequenceTheorems

(***************************************************************************)
(* A path longer than there are defs has run into a cycle.                 *)
(***************************************************************************)
LEMMA Repetition ==
  ASSUME NEW n \in Nat, n > Cardinality(Def), NEW at \in [1..n -> Def]
  PROVE  \E i, j \in 1..n : i < j /\ at[i] = at[j]
<1>1. IsFiniteSet(1..n) /\ Cardinality(1..n) = n
  BY FS_Interval
<1>2. IsFiniteSet(Def)
  BY DefsAreNotTags
<1>3. PICK i, j \in 1..n : i # j /\ at[i] = at[j]
  BY <1>1, <1>2, FS_PigeonHole
<1> QED
  BY <1>3

LEMMA LoopsTrapPaths ==
  ASSUME NEW types, NEW C, AliasLoop(types, C), NEW n \in Nat \ {0}, NEW at, NEW i \in 1..n, at[i] \in C,
         \A k \in 1..(n - 1) : at[k + 1] = AliasOf(types, at[k])
  PROVE  at[n] \in C
<1> DEFINE Outside == {k \in i..n : at[k] \notin C}
<1>1. CASE Outside = {}
  BY <1>1
<1>2. CASE Outside # {}
  <2>1. PICK m \in Outside : \A k \in Outside : m <= k
    <3>1. Outside \in SUBSET Nat
      OBVIOUS
    <3> HIDE DEF Outside
    <3> QED
      BY <1>2, <3>1, LeastExists
  <2>2. m - 1 \in i..n /\ m - 1 \notin Outside /\ m - 1 \in 1..(n - 1)
    BY <2>1
  <2>3. at[(m - 1) + 1] = AliasOf(types, at[m - 1]) /\ at[m - 1] \in C
    BY <2>2
  <2>4. at[m] \in C
    BY <2>1, <2>2, <2>3 DEF AliasLoop
  <2> QED
    BY <2>1, <2>4
<1> QED
  BY <1>1, <1>2

LEMMA AliasFacts ==
  ASSUME NEW types, Typed(types), NEW d \in Def, IsAlias(types, d)
  PROVE  AliasOf(types, d) \in Def /\ MarkedKids(types, d) = {AliasOf(types, d)}
<1>1. /\ types[d].tag = "alias" /\ types[d].refs \in Seq(Ref) /\ Len(types[d].refs) = 1
      /\ \A r \in Refs(types[d]) : r.to \in Def
  BY DEF Typed, IsType, IsAlias
<1>2. Refs(types[d]) = {types[d].refs[1]}
  BY <1>1 DEF Refs
<1> QED
  BY <1>1, <1>2 DEF AliasOf, MarkedKids, IsMarked

(***************************************************************************)
(* DefUnalias follows aliases, as often as there are defs.                 *)
(***************************************************************************)
LEMMA FollowStays ==
  ASSUME NEW types, Typed(types), NEW S \in SUBSET Def, SelfContained(types, S), NEW x \in S
  PROVE  Follow(types, x) \in S
<1>1. CASE IsAlias(types, x)
  <2>1. types[x].refs \in Seq(Ref) /\ Len(types[x].refs) = 1 /\ AliasOf(types, x) \in Def
    BY <1>1, AliasFacts DEF Typed, IsType, IsAlias
  <2>2. types[x].refs[1] \in Refs(types[x])
    BY <2>1 DEF Refs
  <2> QED
    BY <1>1, <2>1, <2>2 DEF SelfContained, Follow, AliasOf
<1> QED
  BY <1>1 DEF Follow

LEMMA UnaliasRun ==
  ASSUME NEW types, Typed(types), NEW S \in SUBSET Def, SelfContained(types, S), NEW d \in S
  PROVE  \E f \in [0..Cardinality(Def) -> S] :
           /\ f[0] = d
           /\ \A n \in 1..Cardinality(Def) : f[n] = Follow(types, f[n-1])
           /\ DefUnalias(types, d) = f[Cardinality(Def)]
<1> DEFINE N == Cardinality(Def)
           Follows(f) == f = [n \in 0..N |-> IF n = 0 THEN d ELSE Follow(types, f[n-1])]
           follow == CHOOSE f : Follows(f)
           step == [n \in 1..N |-> [x \in S |-> Follow(types, x)]]
<1>1. N \in Nat
  BY DefsAreNotTags, FS_CardinalityType
<1>2. step \in [1..N -> [S -> S]]
  <2>1. \A x \in S : Follow(types, x) \in S
    BY FollowStays
  <2> QED
    BY <2>1
<1>3. PICK f \in [0..N -> S] : f[0] = d /\ \A n \in 1..N : f[n] = step[n][f[n-1]]
  <2> HIDE DEF step, N
  <2> QED
    BY <1>1, <1>2, RunExists
<1>4. \A n \in 1..N : f[n] = Follow(types, f[n-1])
  <2> SUFFICES ASSUME NEW n \in 1..N PROVE f[n] = Follow(types, f[n-1])
    OBVIOUS
  <2>1. n - 1 \in 0..N
    BY <1>1
  <2>2. f[n-1] \in S
    BY <1>3, <2>1
  <2> QED
    BY <1>3, <2>2
<1>5. Follows(f)
  <2> HIDE DEF N
  <2>1. \A n \in 0..N : n = 0 \/ n \in 1..N
    BY <1>1
  <2>2. \A n \in 0..N : f[n] = IF n = 0 THEN d ELSE Follow(types, f[n-1])
    BY <1>3, <1>4, <2>1
  <2>3. f = [n \in 0..N |-> f[n]]
    BY <1>3
  <2> QED
    BY <2>2, <2>3
<1>6. Follows(follow)
  <2> HIDE DEF Follows
  <2> QED
    BY <1>5
<1>7. \A n \in 0..N : follow[n] = IF n = 0 THEN d ELSE Follow(types, follow[n-1])
  <2> HIDE DEF follow, N
  <2> QED
    BY <1>6
<1>8. \A n \in 0..N : follow[n] = f[n]
  <2> HIDE DEF follow
  <2>1. follow[0] = f[0]
    BY <1>1, <1>3, <1>7
  <2>2. \A n \in 1..N : follow[n-1] = f[n-1] => follow[n] = f[n]
    BY <1>1, <1>4, <1>7
  <2> HIDE DEF N
  <2>3. N \in Nat
    BY <1>1
  <2> QED
    BY <2>1, <2>2, <2>3, RunUnique, ZenonT(40)
<1>9. DefUnalias(types, d) = follow[N]
  BY DEF DefUnalias
<1>10. DefUnalias(types, d) = f[N]
  <2> HIDE DEF follow, N
  <2> QED
    BY <1>1, <1>8, <1>9
<1> QED
  BY <1>3, <1>4, <1>10

LEMMA UnaliasStays ==
  ASSUME NEW types, Typed(types), NEW S \in SUBSET Def, SelfContained(types, S), NEW d \in S
  PROVE  DefUnalias(types, d) \in S
<1>1. Cardinality(Def) \in 0..Cardinality(Def)
  BY DefsAreNotTags, FS_CardinalityType
<1> QED
  BY <1>1, UnaliasRun

(***************************************************************************)
(* A path along aliases that ends is not longer than there are defs.       *)
(***************************************************************************)
AliasesBefore(types, at, n) ==
  \A k \in 1..(n - 1) : IsAlias(types, at[k]) /\ at[k + 1] = AliasOf(types, at[k])

LEMMA PathIsShort ==
  ASSUME NEW types, NEW n \in Nat \ {0}, NEW at \in [1..n -> Leaf],
         AliasesBefore(types, at, n), ~IsAlias(types, at[n])
  PROVE  n - 1 <= Cardinality(Def)
<1> DEFINE N == Cardinality(Def)
<1>0. N \in Nat /\ IsFiniteSet(Def)
  BY DefsAreNotTags, FS_CardinalityType
<1> SUFFICES ASSUME n - 1 > N PROVE FALSE
  BY <1>0
<1> DEFINE f == [k \in 1..(n - 1) |-> at[k]]
<1>1. f \in [1..(n - 1) -> Def]
  BY DEF AliasesBefore, IsAlias
<1>2. PICK i \in 1..(n - 1), j \in 1..(n - 1) : i < j /\ f[i] = f[j]
  <2>1. n - 1 \in Nat
    OBVIOUS
  <2> HIDE DEF f
  <2> QED
    BY <1>1, <2>1, Repetition
<1> DEFINE C == {at[k] : k \in i..(j - 1)}
<1>3. ASSUME NEW k \in i..(j - 1) PROVE IsAlias(types, at[k]) /\ AliasOf(types, at[k]) \in C
  <2>1. k \in 1..(n - 1) /\ IsAlias(types, at[k]) /\ at[k + 1] = AliasOf(types, at[k])
    BY <1>2 DEF AliasesBefore
  <2>2. CASE k + 1 \in i..(j - 1)
    BY <2>1, <2>2
  <2>3. CASE k + 1 = j
    <3>1. at[j] = at[i]
      BY <1>2
    <3> QED
      BY <1>2, <2>1, <2>3, <3>1
  <2> QED
    BY <2>1, <2>2, <2>3
<1>4. AliasLoop(types, C) /\ at[i] \in C
  <2>1. \A d \in C : IsAlias(types, d) /\ AliasOf(types, d) \in C
    BY <1>3
  <2>2. i \in i..(j - 1)
    BY <1>2
  <2>3. at[i] \in C
    BY <2>2
  <2> HIDE DEF C
  <2> QED
    BY <2>1, <2>3 DEF AliasLoop
<1>5. at[n] \in C
  <2> HIDE DEF C
  <2>1. i \in 1..n
    BY <1>2
  <2> QED
    BY <1>4, <2>1, LoopsTrapPaths DEF AliasesBefore
<1> QED
  BY <1>4, <1>5 DEF AliasLoop

(***************************************************************************)
(* Following aliases one by one leads to where DefUnalias does.            *)
(***************************************************************************)
LEMMA PathEnd ==
  ASSUME NEW types, Typed(types), NEW n \in Nat \ {0}, NEW at \in [1..n -> Leaf],
         at[1] \in Def, AliasesBefore(types, at, n), ~IsAlias(types, at[n])
  PROVE  DefUnalias(types, at[1]) = at[n] /\ at[n] \in Def
<1> DEFINE N == Cardinality(Def)
           Path == [m \in 0..N |-> IF m < n THEN at[m + 1] ELSE at[n]]
<1>0. N \in Nat
  BY DefsAreNotTags, FS_CardinalityType
<1>1. PICK f \in [0..N -> Def] :
        /\ f[0] = at[1]
        /\ \A m \in 1..N : f[m] = Follow(types, f[m-1])
        /\ DefUnalias(types, at[1]) = f[N]
  BY UnaliasRun DEF SelfContained
<1>2. ASSUME NEW m \in 1..N PROVE Path[m] = Follow(types, Path[m-1])
  <2>0. m - 1 \in 0..N /\ m \in 0..N
    BY <1>0
  <2>1. CASE m < n
    <3>1. m \in 1..(n - 1) /\ Path[m - 1] = at[m] /\ Path[m] = at[m + 1]
      BY <2>0, <2>1
    <3>2. IsAlias(types, at[m]) /\ at[m + 1] = AliasOf(types, at[m])
      BY <3>1 DEF AliasesBefore
    <3> QED
      BY <3>1, <3>2 DEF Follow
  <2>2. CASE m >= n
    <3>1. Path[m - 1] = at[n] /\ Path[m] = at[n]
      BY <2>0, <2>2
    <3> QED
      BY <3>1 DEF Follow
  <2> QED
    BY <2>1, <2>2
<1>3. \A m \in 0..N : f[m] = Path[m]
  <2> DEFINE G == {m \in 0..N : f[m] = Path[m]}
  <2>1. 0 \in G
    BY <1>0, <1>1
  <2>2. ASSUME NEW m \in 1..N, m - 1 \in G PROVE m \in G
    <3>1. f[m] = Follow(types, f[m-1]) /\ f[m-1] = Path[m-1] /\ m \in 0..N
      BY <1>0, <1>1, <2>2
    <3>2. f[m] = Path[m]
      BY <1>2, <3>1
    <3> QED
      BY <3>1, <3>2
  <2>3. 0..N \subseteq G
    <3> HIDE DEF G, N
    <3> QED
      BY <1>0, <2>1, <2>2, PassedOn
  <2> QED
    BY <2>3
<1>4. Path[N] = at[n]
  BY <1>0, PathIsShort
<1> QED
  BY <1>0, <1>1, <1>3, <1>4

LEMMA PathUnaliases ==
  ASSUME NEW types, Typed(types), NEW n \in Nat \ {0}, NEW at \in [1..n -> Leaf],
         AliasesBefore(types, at, n), ~IsAlias(types, at[n])
  PROVE  UnaliasTag(types, at[1]) = IF at[n] \in Def THEN types[at[n]].tag ELSE at[n]
<1>1. CASE at[1] \in Def
  BY <1>1, PathEnd DEF UnaliasTag
<1>2. CASE at[1] \notin Def
  <2>1. n = 1
    BY <1>2 DEF AliasesBefore, IsAlias
  <2> QED
    BY <1>2, <2>1 DEF UnaliasTag
<1> QED
  BY <1>1, <1>2

(***************************************************************************)
(* Where no aliases lead in a circle, following them comes to an end.      *)
(***************************************************************************)
LEMMA UnaliasPath ==
  ASSUME NEW types, Typed(types), NEW S \in SUBSET Def, SelfContained(types, S),
         ~AliasCycle(types, S), NEW d \in S
  PROVE  \E n \in Nat \ {0} : \E at \in [1..n -> Leaf] :
           /\ at[1] = d
           /\ \A k \in 1..n : at[k] \in S
           /\ AliasesBefore(types, at, n)
           /\ ~IsAlias(types, at[n])
<1> DEFINE N == Cardinality(Def)
<1>0. N \in Nat /\ d \in Def
  BY DefsAreNotTags, FS_CardinalityType
<1>1. PICK f \in [0..N -> S] : f[0] = d /\ \A m \in 1..N : f[m] = Follow(types, f[m-1])
  BY UnaliasRun
<1>2. \A m \in 0..N : f[m] \in Def
  BY <1>1
<1>3. \E m \in 0..N : ~IsAlias(types, f[m])
  <2> SUFFICES ASSUME \A m \in 0..N : IsAlias(types, f[m]) PROVE FALSE
    OBVIOUS
  <2> DEFINE g == [k \in 1..(N + 1) |-> f[k - 1]]
  <2>1. g \in [1..(N + 1) -> Def]
    BY <1>0, <1>2
  <2>2. PICK i \in 1..(N + 1), j \in 1..(N + 1) : i < j /\ g[i] = g[j]
    <3> HIDE DEF g
    <3>1. N + 1 \in Nat /\ N + 1 > N
      BY <1>0
    <3> QED
      BY <2>1, <3>1, Repetition
  <2> DEFINE C == {g[k] : k \in i..(j - 1)}
  <2>3. ASSUME NEW k \in i..(j - 1) PROVE IsAlias(types, g[k]) /\ AliasOf(types, g[k]) \in C /\ g[k] \in S
    <3>1. k \in 1..N /\ k - 1 \in 0..N /\ k \in 0..N /\ g[k] = f[k-1] /\ g[k + 1] = f[k]
      BY <1>0, <2>2
    <3>2. IsAlias(types, g[k]) /\ g[k + 1] = AliasOf(types, g[k]) /\ g[k] \in S
      <4>1. f[k] = Follow(types, f[k-1]) /\ IsAlias(types, f[k-1]) /\ f[k-1] \in S
        BY <1>1, <3>1
      <4> HIDE DEF g
      <4> QED
        BY <3>1, <4>1 DEF Follow
    <3>3. CASE k + 1 \in i..(j - 1)
      <4> HIDE DEF g
      <4> QED
        BY <3>2, <3>3
    <3>4. CASE k + 1 = j
      <4>1. g[k + 1] = g[i] /\ i \in i..(j - 1)
        BY <2>2, <3>4
      <4> HIDE DEF g
      <4> QED
        BY <3>2, <4>1
    <3> HIDE DEF C
    <3> QED
      BY <2>2, <3>2, <3>3, <3>4
  <2>4. C # {} /\ C \subseteq S /\ AliasLoop(types, C)
    <3> HIDE DEF g
    <3>1. i \in i..(j - 1)
      BY <2>2
    <3>2. g[i] \in C
      BY <3>1
    <3>3. \A x \in C : IsAlias(types, x) /\ AliasOf(types, x) \in C /\ x \in S
      BY <2>3
    <3> HIDE DEF C
    <3> QED
      BY <3>2, <3>3 DEF AliasLoop
  <2> HIDE DEF C
  <2> QED
    BY <2>4 DEF AliasCycle
<1>4. PICK m \in 0..N : ~IsAlias(types, f[m]) /\ \A k \in 0..N : ~IsAlias(types, f[k]) => m <= k
  <2> DEFINE E == {m \in 0..N : ~IsAlias(types, f[m])}
  <2>1. E # {} /\ E \in SUBSET Nat
    BY <1>3
  <2>2. \E m \in E : \A k \in E : m <= k
    <3> HIDE DEF E
    <3> QED
      BY <2>1, LeastExists
  <2> QED
    BY <2>2
<1> DEFINE at == [k \in 1..(m + 1) |-> f[k - 1]]
<1>5. at \in [1..(m + 1) -> Leaf] /\ at[1] = d /\ \A k \in 1..(m + 1) : at[k] \in S
  BY <1>0, <1>1, <1>2 DEF Leaf
<1>6. AliasesBefore(types, at, m + 1)
  <2> SUFFICES ASSUME NEW k \in 1..m
               PROVE  IsAlias(types, at[k]) /\ at[k + 1] = AliasOf(types, at[k])
    <3>1. (m + 1) - 1 = m
      BY <1>0
    <3> HIDE DEF at
    <3> QED
      BY <3>1 DEF AliasesBefore
  <2>1. k - 1 \in 0..N /\ k \in 1..N /\ at[k] = f[k - 1] /\ at[k + 1] = f[k]
    BY <1>0
  <2>2. IsAlias(types, f[k - 1])
    BY <1>4, <2>1
  <2> HIDE DEF at
  <2> QED
    BY <1>1, <2>1, <2>2 DEF Follow
<1>7. ~IsAlias(types, at[m + 1]) /\ m + 1 \in Nat \ {0}
  BY <1>0, <1>4
<1> HIDE DEF at
<1> QED
  BY <1>5, <1>6, <1>7

(***************************************************************************)
(* So type_def_unalias gives a def that is none, the same for all along    *)
(* the way.                                                                *)
(***************************************************************************)
LEMMA UnaliasFacts ==
  ASSUME NEW types, Typed(types), NEW S \in SUBSET Def, SelfContained(types, S),
         ~AliasCycle(types, S), NEW d \in S
  PROVE  /\ DefUnalias(types, d) \in S
         /\ ~IsAlias(types, DefUnalias(types, d))
         /\ ~IsAlias(types, d) => DefUnalias(types, d) = d
         /\ IsAlias(types, d) =>
              /\ AliasOf(types, d) \in S
              /\ DefUnalias(types, AliasOf(types, d)) = DefUnalias(types, d)
<1>0. PICK n \in Nat \ {0} : \E at \in [1..n -> Leaf] :
        /\ at[1] = d
        /\ \A k \in 1..n : at[k] \in S
        /\ AliasesBefore(types, at, n)
        /\ ~IsAlias(types, at[n])
  BY UnaliasPath
<1>1. PICK at \in [1..n -> Leaf] :
        /\ at[1] = d
        /\ \A k \in 1..n : at[k] \in S
        /\ AliasesBefore(types, at, n)
        /\ ~IsAlias(types, at[n])
  BY <1>0
<1>2. DefUnalias(types, d) = at[n] /\ at[n] \in S
  BY <1>1, PathEnd
<1>3. ~IsAlias(types, d) => n = 1
  BY <1>1 DEF AliasesBefore
<1>4. ASSUME IsAlias(types, d)
      PROVE  AliasOf(types, d) \in S /\ DefUnalias(types, AliasOf(types, d)) = at[n]
  <2>1. n > 1
    BY <1>1, <1>4
  <2>2. at[1 + 1] = AliasOf(types, d) /\ 2 \in 1..n
    BY <1>1, <2>1 DEF AliasesBefore
  <2> DEFINE rest == [k \in 1..(n - 1) |-> at[k + 1]]
  <2>3. rest \in [1..(n - 1) -> Leaf] /\ n - 1 \in Nat \ {0}
    BY <2>1
  <2>4. rest[1] = AliasOf(types, d) /\ rest[n - 1] = at[n]
    BY <2>1, <2>2
  <2>5. AliasesBefore(types, rest, n - 1)
    BY <1>1 DEF AliasesBefore
  <2> HIDE DEF rest
  <2>6. AliasOf(types, d) \in S
    BY <1>1, <2>2
  <2> QED
    BY <1>1, <2>3, <2>4, <2>5, <2>6, PathEnd
<1> QED
  BY <1>1, <1>2, <1>3, <1>4

-----------------------------------------------------------------------------
(***************************************************************************)
(* Lists as the sets of what is in them.                                   *)
(***************************************************************************)
LEMMA ToSetFacts ==
  ASSUME NEW T, NEW s \in Seq(T)
  PROVE  /\ ToSet(s) = {s[i] : i \in 1..Len(s)} /\ ToSet(s) \subseteq T
         /\ \A x \in T : Append(s, x) \in Seq(T) /\ ToSet(Append(s, x)) = ToSet(s) \cup {x}
<1>1. DOMAIN s = 1..Len(s) /\ \A i \in 1..Len(s) : s[i] \in T
  BY LenProperties, ElementOfSeq
<1>2. ToSet(s) = {s[i] : i \in 1..Len(s)} /\ ToSet(s) \subseteq T
  BY <1>1 DEF ToSet
<1>3. ASSUME NEW x \in T PROVE Append(s, x) \in Seq(T) /\ ToSet(Append(s, x)) = ToSet(s) \cup {x}
  <2> DEFINE t == Append(s, x)
  <2>1. /\ t \in Seq(T) /\ Len(t) = Len(s) + 1 /\ t[Len(s) + 1] = x /\ Len(s) \in Nat
        /\ \A i \in 1..Len(s) : t[i] = s[i]
    BY AppendProperties, LenProperties
  <2>2. DOMAIN t = 1..(Len(s) + 1)
    BY <2>1, LenProperties
  <2>3. ToSet(t) = {t[i] : i \in 1..(Len(s) + 1)}
    BY <2>2 DEF ToSet
  <2> HIDE DEF t
  <2>4. ToSet(t) = ToSet(s) \cup {x}
    BY <1>2, <2>1, <2>3
  <2> QED
    BY <2>1, <2>4 DEF t
<1> QED
  BY <1>2, <1>3

LEMMA ConcatFacts ==
  ASSUME NEW T, NEW s \in Seq(T), NEW t \in Seq(T)
  PROVE  s \o t \in Seq(T) /\ ToSet(s \o t) = ToSet(s) \cup ToSet(t)
<1> DEFINE c == s \o t
<1>1. /\ c \in Seq(T) /\ Len(c) = Len(s) + Len(t) /\ Len(s) \in Nat /\ Len(t) \in Nat
      /\ \A i \in 1..Len(c) : c[i] = IF i <= Len(s) THEN s[i] ELSE t[i - Len(s)]
  BY ConcatProperties, LenProperties
<1>2. /\ ToSet(c) = {c[i] : i \in 1..Len(c)}
      /\ ToSet(s) = {s[i] : i \in 1..Len(s)} /\ ToSet(t) = {t[i] : i \in 1..Len(t)}
  BY <1>1, ToSetFacts
<1> HIDE DEF c
<1>3. ToSet(c) \subseteq ToSet(s) \cup ToSet(t)
  BY <1>1, <1>2
<1>4. ASSUME NEW i \in 1..Len(t) PROVE t[i] \in ToSet(c)
  <2>1. i + Len(s) \in 1..Len(c) /\ c[i + Len(s)] = t[i]
    BY <1>1
  <2> QED
    BY <1>2, <2>1
<1>5. ToSet(s) \subseteq ToSet(c)
  BY <1>1, <1>2
<1> QED
  BY <1>1, <1>2, <1>3, <1>4, <1>5 DEF c

(***************************************************************************)
(* Those keeps what is in the set, and drops the rest.                     *)
(***************************************************************************)
LEMMA ThoseFacts ==
  ASSUME NEW T, NEW seq \in Seq(T), NEW S
  PROVE  Those(seq, S) \in Seq(T) /\ ToSet(Those(seq, S)) = ToSet(seq) \cap S
<1> DEFINE N == Len(seq)
           Next(n, s) == IF seq[n] \in S THEN Append(s, seq[n]) ELSE s
           Runs(f) == f = [n \in 0..N |-> IF n = 0 THEN <<>>
                              ELSE IF seq[n] \in S THEN Append(f[n-1], seq[n]) ELSE f[n-1]]
           those == CHOOSE f : Runs(f)
           step == [n \in 1..N |-> [s \in Seq(T) |-> Next(n, s)]]
<1>1. N \in Nat /\ (\A n \in 1..N : seq[n] \in T) /\ <<>> \in Seq(T)
  BY LenProperties, ElementOfSeq
<1>2. step \in [1..N -> [Seq(T) -> Seq(T)]]
  BY <1>1, ToSetFacts
<1>3. PICK f \in [0..N -> Seq(T)] : f[0] = <<>> /\ \A n \in 1..N : f[n] = step[n][f[n-1]]
  <2> DEFINE A == Seq(T)
             none == <<>>
  <2>1. N \in Nat /\ none \in A /\ step \in [1..N -> [A -> A]]
    BY <1>1, <1>2
  <2>2. \E f \in [0..N -> A] : f[0] = none /\ \A n \in 1..N : f[n] = step[n][f[n-1]]
    <3> HIDE DEF step, N, A, none
    <3> QED
      BY <2>1, RunExists
  <2> QED
    BY <2>2
<1>4. \A n \in 1..N : f[n-1] \in Seq(T) /\ f[n] = Next(n, f[n-1])
  <2> SUFFICES ASSUME NEW n \in 1..N PROVE f[n-1] \in Seq(T) /\ f[n] = Next(n, f[n-1])
    OBVIOUS
  <2>1. n - 1 \in 0..N
    BY <1>1
  <2>2. f[n-1] \in Seq(T)
    BY <1>3, <2>1
  <2> QED
    BY <1>3, <2>2
<1>5. Runs(f)
  <2> HIDE DEF N
  <2>1. \A n \in 0..N : n = 0 \/ n \in 1..N
    BY <1>1
  <2>2. \A n \in 0..N : f[n] = IF n = 0 THEN <<>>
                          ELSE IF seq[n] \in S THEN Append(f[n-1], seq[n]) ELSE f[n-1]
    BY <1>3, <1>4, <2>1
  <2>3. f = [n \in 0..N |-> f[n]]
    BY <1>3
  <2> QED
    BY <2>2, <2>3
<1>6. Runs(those)
  <2> HIDE DEF Runs
  <2> QED
    BY <1>5
<1>7. \A n \in 0..N : those[n] = IF n = 0 THEN <<>>
                          ELSE IF seq[n] \in S THEN Append(those[n-1], seq[n]) ELSE those[n-1]
  <2> HIDE DEF those, N
  <2> QED
    BY <1>6
<1>8. \A n \in 0..N : those[n] = f[n]
  <2> HIDE DEF those
  <2>1. those[0] = f[0]
    BY <1>1, <1>3, <1>7
  <2>2. \A n \in 1..N : those[n-1] = f[n-1] => those[n] = f[n]
    BY <1>1, <1>4, <1>7, SMTT(30)
  <2> HIDE DEF N
  <2>3. N \in Nat
    BY <1>1
  <2> QED
    BY <2>1, <2>2, <2>3, RunUnique, ZenonT(40)
<1>9. Those(seq, S) = f[N]
  <2>1. Those(seq, S) = those[N]
    BY DEF Those
  <2> HIDE DEF those, N
  <2> QED
    BY <1>1, <1>8, <2>1
<1>10. \A n \in 0..N : ToSet(f[n]) = {seq[i] : i \in 1..n} \cap S
  <2> DEFINE G == {n \in 0..N : ToSet(f[n]) = {seq[i] : i \in 1..n} \cap S}
  <2>1. 0 \in G
    <3>1. ToSet(<<>>) = {} /\ 1..0 = {}
      BY DEF ToSet
    <3> QED
      BY <1>1, <1>3, <3>1
  <2>2. ASSUME NEW n \in 1..N, n - 1 \in G PROVE n \in G
    <3>1. /\ f[n-1] \in Seq(T) /\ f[n] = Next(n, f[n-1]) /\ seq[n] \in T /\ n \in 0..N
          /\ ToSet(f[n-1]) = {seq[i] : i \in 1..(n - 1)} \cap S
      BY <1>1, <1>4, <2>2
    <3>2. {seq[i] : i \in 1..n} = {seq[i] : i \in 1..(n - 1)} \cup {seq[n]}
      <4>1. 1..n = 1..(n - 1) \cup {n}
        BY <1>1
      <4> QED
        BY <4>1
    <3>3. seq[n] \in S => ToSet(f[n]) = ToSet(f[n-1]) \cup {seq[n]}
      BY <3>1, ToSetFacts
    <3>4. ToSet(f[n]) = {seq[i] : i \in 1..n} \cap S
      BY <3>1, <3>2, <3>3
    <3> QED
      BY <3>1, <3>4
  <2>3. 0..N \subseteq G
    <3> HIDE DEF G, N
    <3> QED
      BY <1>1, <2>1, <2>2, PassedOn
  <2> QED
    BY <2>3
<1>11. N \in 0..N /\ ToSet(seq) = {seq[i] : i \in 1..N}
  BY <1>1, ToSetFacts
<1> HIDE DEF N
<1> QED
  BY <1>3, <1>9, <1>10, <1>11

(***************************************************************************)
(* The children, as sets.                                                  *)
(***************************************************************************)
LEMMA RefsFacts ==
  ASSUME NEW types, Typed(types), NEW d \in Def
  PROVE  /\ types[d].refs \in Seq(Ref) /\ ToSet(types[d].refs) = Refs(types[d])
         /\ Refs(types[d]) \subseteq Ref
<1>1. types[d].refs \in Seq(Ref)
  BY DEF Typed, IsType
<1> QED
  BY <1>1, ToSetFacts DEF Refs

LEMMA InplaceKidsFacts ==
  ASSUME NEW types, Typed(types), NEW d \in Def
  PROVE  /\ InplaceKids(types)[d] \in Seq(Def)
         /\ ToSet(InplaceKids(types)[d]) =
              IF types[d].tag \in Composite
              THEN {DefUnalias(types, r.to) : r \in Holding(types, Refs(types[d]))}
              ELSE {}
<1>1. CASE types[d].tag \in Composite
  <2> DEFINE held == Those(types[d].refs, Holding(types, Refs(types[d])))
             kids == [i \in 1..Len(held) |-> DefUnalias(types, held[i].to)]
  <2>1. held \in Seq(Ref) /\ ToSet(held) = Holding(types, Refs(types[d]))
    BY RefsFacts, ThoseFacts DEF Holding, Naming
  <2>2. InplaceKids(types)[d] = kids
    BY <1>1 DEF InplaceKids
  <2> HIDE DEF held
  <2>3. /\ Len(held) \in Nat /\ ToSet(held) = {held[i] : i \in 1..Len(held)}
        /\ \A i \in 1..Len(held) : held[i].to \in Def
    <3>1. Len(held) \in Nat /\ ToSet(held) = {held[i] : i \in 1..Len(held)}
      BY <2>1, ToSetFacts, LenProperties
    <3> QED
      BY <2>1, <3>1 DEF Holding, Naming
  <2>4. \A x \in Def : DefUnalias(types, x) \in Def
    BY UnaliasStays DEF SelfContained
  <2>5. kids \in Seq(Def)
    <3>1. \A i \in 1..Len(held) : DefUnalias(types, held[i].to) \in Def
      BY <2>3, <2>4
    <3> QED
      BY <2>3, <3>1, IsASeq
  <2>6. ToSet(kids) = {DefUnalias(types, r.to) : r \in ToSet(held)}
    <3>1. ToSet(kids) = {DefUnalias(types, held[i].to) : i \in 1..Len(held)}
      BY DEF ToSet
    <3> QED
      BY <2>3, <3>1
  <2> QED
    BY <1>1, <2>1, <2>2, <2>5, <2>6
<1>2. CASE types[d].tag \notin Composite
  <2>1. InplaceKids(types)[d] = <<>>
    BY <1>2 DEF InplaceKids
  <2> QED
    BY <1>2, <2>1 DEF ToSet
<1> QED
  BY <1>1, <1>2

LEMMA TypedefKidsFacts ==
  ASSUME NEW types, Typed(types), NEW d \in Def
  PROVE  /\ TypedefKids(types)[d] \in Seq(Def)
         /\ ToSet(TypedefKids(types)[d]) =
              IF types[d].tag \in {"alias", "func"}
              THEN {r.to : r \in Naming(Refs(types[d]))}
              ELSE {}
<1>1. CASE types[d].tag \in {"alias", "func"}
  <2> DEFINE named == Those(types[d].refs, Naming(Refs(types[d])))
             kids == [i \in 1..Len(named) |-> named[i].to]
  <2>1. named \in Seq(Ref) /\ ToSet(named) = Naming(Refs(types[d]))
    BY RefsFacts, ThoseFacts DEF Naming
  <2>2. TypedefKids(types)[d] = kids
    BY <1>1 DEF TypedefKids
  <2> HIDE DEF named
  <2>3. /\ Len(named) \in Nat /\ ToSet(named) = {named[i] : i \in 1..Len(named)}
        /\ \A i \in 1..Len(named) : named[i].to \in Def
    <3>1. Len(named) \in Nat /\ ToSet(named) = {named[i] : i \in 1..Len(named)}
      BY <2>1, ToSetFacts, LenProperties
    <3> QED
      BY <2>1, <3>1 DEF Naming
  <2>4. kids \in Seq(Def)
    BY <2>3, IsASeq
  <2>5. ToSet(kids) = {r.to : r \in ToSet(named)}
    <3>1. ToSet(kids) = {named[i].to : i \in 1..Len(named)}
      BY DEF ToSet
    <3> QED
      BY <2>3, <3>1
  <2> QED
    BY <1>1, <2>1, <2>2, <2>4, <2>5
<1>2. CASE types[d].tag \notin {"alias", "func"}
  <2>1. TypedefKids(types)[d] = <<>>
    BY <1>2 DEF TypedefKids
  <2> QED
    BY <1>2, <2>1 DEF ToSet
<1> QED
  BY <1>1, <1>2

(***************************************************************************)
(* Both relations are of lists of defs, and stay among the defs of a list  *)
(* that is complete.                                                       *)
(***************************************************************************)
LEMMA KidsStay ==
  ASSUME NEW types, Typed(types), NEW S \in SUBSET Def, SelfContained(types, S)
  PROVE  /\ InplaceKids(types) \in [Def -> Seq(Def)]
         /\ TypedefKids(types) \in [Def -> Seq(Def)]
         /\ \A d \in S : \A k \in 1..Len(InplaceKids(types)[d]) : InplaceKids(types)[d][k] \in S
         /\ \A d \in S : \A k \in 1..Len(TypedefKids(types)[d]) : TypedefKids(types)[d][k] \in S
<1>1. InplaceKids(types) \in [Def -> Seq(Def)]
  <2> DEFINE Kids(d) ==
        IF types[d].tag \in Composite
        THEN LET held == Those(types[d].refs, Holding(types, Refs(types[d])))
             IN  [i \in 1..Len(held) |-> DefUnalias(types, held[i].to)]
        ELSE <<>>
  <2>1. InplaceKids(types) = [d \in Def |-> Kids(d)]
    BY DEF InplaceKids
  <2> HIDE DEF Kids
  <2> QED
    BY <2>1, InplaceKidsFacts
<1>2. TypedefKids(types) \in [Def -> Seq(Def)]
  <2> DEFINE Kids(d) ==
        IF types[d].tag \in {"alias", "func"}
        THEN LET named == Those(types[d].refs, Naming(Refs(types[d])))
             IN  [i \in 1..Len(named) |-> named[i].to]
        ELSE <<>>
  <2>1. TypedefKids(types) = [d \in Def |-> Kids(d)]
    BY DEF TypedefKids
  <2> HIDE DEF Kids
  <2> QED
    BY <2>1, TypedefKidsFacts
<1>3. ASSUME NEW d \in S, NEW k \in 1..Len(InplaceKids(types)[d])
      PROVE  InplaceKids(types)[d][k] \in S
  <2> DEFINE kids == InplaceKids(types)[d]
  <2>1. kids[k] \in ToSet(kids)
    <3>1. kids \in Seq(Def)
      BY InplaceKidsFacts
    <3> HIDE DEF kids
    <3>2. ToSet(kids) = {kids[i] : i \in 1..Len(kids)}
      BY <3>1, ToSetFacts
    <3>3. k \in 1..Len(kids)
      BY DEF kids
    <3> QED
      BY <3>2, <3>3
  <2>2. PICK r \in Refs(types[d]) : r.to \in Def /\ InplaceKids(types)[d][k] = DefUnalias(types, r.to)
    BY <2>1, InplaceKidsFacts DEF Holding, Naming
  <2> QED
    BY <2>2, UnaliasStays DEF SelfContained
<1>4. ASSUME NEW d \in S, NEW k \in 1..Len(TypedefKids(types)[d])
      PROVE  TypedefKids(types)[d][k] \in S
  <2> DEFINE kids == TypedefKids(types)[d]
  <2>1. kids[k] \in ToSet(kids)
    <3>1. kids \in Seq(Def)
      BY TypedefKidsFacts
    <3> HIDE DEF kids
    <3>2. ToSet(kids) = {kids[i] : i \in 1..Len(kids)}
      BY <3>1, ToSetFacts
    <3>3. k \in 1..Len(kids)
      BY DEF kids
    <3> QED
      BY <3>2, <3>3
  <2>2. PICK r \in Refs(types[d]) : r.to \in Def /\ TypedefKids(types)[d][k] = r.to
    BY <2>1, TypedefKidsFacts DEF Naming
  <2> QED
    BY <2>2 DEF SelfContained
<1> QED
  BY <1>1, <1>2, <1>3, <1>4
=============================================================================
