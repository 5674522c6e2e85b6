--------------------------- MODULE ValidateProofs ---------------------------
(***************************************************************************)
(* Proofs about Validate, for every program: any number of defs, in any    *)
(* order, of any types.                                                    *)
(***************************************************************************)
EXTENDS Validate, TypeGraphProofs

-----------------------------------------------------------------------------
(***************************************************************************)
(* A path longer than there are defs has run into a cycle.                 *)
(***************************************************************************)
LEMMA LongPathIsCyclic ==
  ASSUME NEW S \in SUBSET Def, NEW n \in Nat, n > Cardinality(Def), NEW at \in [1..n -> S],
         \A k \in 1..(n - 1) : at[k + 1] \in MarkedKids(types, at[k])
  PROVE  \E C \in SUBSET S : MarkedCycle(C)
<1>1. PICK i \in 1..n, j \in 1..n : i < j /\ at[i] = at[j]
  BY Repetition
<1> DEFINE C == {at[k] : k \in i..(j - 1)}
<1>2. C \in SUBSET S /\ C # {}
  BY <1>1
<1>3. ASSUME NEW k \in i..(j - 1) PROVE \E e \in C : e \in MarkedKids(types, at[k])
  <2>1. k \in 1..(n - 1) /\ at[k + 1] \in MarkedKids(types, at[k])
    BY <1>1
  <2>2. at[k + 1] \in C
    <3>1. CASE k + 1 \in i..(j - 1)
      BY <3>1
    <3>2. CASE k + 1 = j
      <4>1. at[k + 1] = at[i] /\ i \in i..(j - 1)
        BY <1>1, <3>2
      <4> QED
        BY <4>1
    <3> QED
      BY <1>1, <3>1, <3>2
  <2> QED
    BY <2>1, <2>2
<1>4. \A d \in C : \E e \in C : e \in MarkedKids(types, d)
  BY <1>3
<1> HIDE DEF C
<1>5. MarkedCycle(C)
  BY <1>2, <1>4 DEF MarkedCycle
<1> QED
  BY <1>2, <1>5

-----------------------------------------------------------------------------
(***************************************************************************)
(* The defs from which no walk gets to d: the largest set without d that   *)
(* walks do not leave.                                                     *)
(***************************************************************************)
Closed(W) == \A w \in W : MarkedKids(types, w) \subseteq W
Safe(d) == UNION {W \in SUBSET (Def \ {d}) : Closed(W)}

LEMMA SafeFacts ==
  ASSUME NEW d
  PROVE  /\ Safe(d) \subseteq Def \ {d}
         /\ Closed(Safe(d))
         /\ \A x \in Def \ {d} : MarkedKids(types, x) \subseteq Safe(d) => x \in Safe(d)
<1>1. Safe(d) \subseteq Def \ {d}
  BY DEF Safe
<1>2. Closed(Safe(d))
  <2> SUFFICES ASSUME NEW w \in Safe(d) PROVE MarkedKids(types, w) \subseteq Safe(d)
    BY DEF Closed
  <2>1. PICK W \in SUBSET (Def \ {d}) : Closed(W) /\ w \in W
    BY DEF Safe
  <2>2. W \subseteq Safe(d)
    BY <2>1 DEF Safe
  <2>3. MarkedKids(types, w) \subseteq W
    BY <2>1 DEF Closed
  <2> QED
    BY <2>2, <2>3
<1>3. ASSUME NEW x \in Def \ {d}, MarkedKids(types, x) \subseteq Safe(d) PROVE x \in Safe(d)
  <2> DEFINE W == Safe(d) \cup {x}
  <2>1. W \in SUBSET (Def \ {d})
    BY <1>1
  <2>2. Closed(W)
    BY <1>2, <1>3 DEF Closed
  <2>3. W \subseteq Safe(d)
    <3> HIDE DEF W
    <3> QED
      BY <2>1, <2>2 DEF Safe
  <2> QED
    BY <2>3
<1> QED
  BY <1>1, <1>2, <1>3

(***************************************************************************)
(* What the pass has made sure of when it leaves a reference, or a def,    *)
(* behind without complaint.                                               *)
(***************************************************************************)
GoodRef(d, r) ==
  /\ RefAllowed(r, UnaliasTag(types, r.to))
  /\ r.mode = "inplace" /\ r.to \in Def => r.to \in Safe(d)

GoodDef(d) ==
  /\ types[d].tag # "undefined"
  /\ types[d].tag = "alias" => \A C \in SUBSET Def : AliasLoop(types, C) => d \notin C
  /\ types[d].tag \in Composite => \A r \in Refs(types[d]) : GoodRef(d, r)

(***************************************************************************)
(* A nonempty set of which every member has a kid in it has a smallest     *)
(* subset like it.                                                         *)
(***************************************************************************)
LEMMA SmallestCycle ==
  ASSUME NEW C \in SUBSET Def, MarkedCycle(C)
  PROVE  \E M \in SUBSET C : MarkedCycle(M) /\ \A B \in SUBSET M : MarkedCycle(B) => B = M
<1> DEFINE Cycles == {B \in SUBSET C : MarkedCycle(B)}
<1>1. Cycles \subseteq FiniteSubsetsOf(Def) /\ Cycles # {}
  <2>1. ASSUME NEW B \in SUBSET C PROVE IsFiniteSet(B) /\ B \in SUBSET Def
    BY DefsAreNotTags, FS_Subset
  <2> QED
    BY <2>1 DEF FiniteSubsetsOf
<1>2. IsWellFoundedOn(StrictSubsetOrdering(Def), FiniteSubsetsOf(Def))
  BY FS_StrictSubsetOrderingWellFounded
<1>3. PICK M \in Cycles : \A B \in Cycles : <<B, M>> \notin StrictSubsetOrdering(Def)
  <2> HIDE DEF Cycles
  <2> QED
    BY <1>1, <1>2, WFMin
<1>4. ASSUME NEW B \in SUBSET M, MarkedCycle(B) PROVE B = M
  <2>1. B \in Cycles /\ B \in SUBSET Def /\ M \in SUBSET Def
    BY <1>3, <1>4
  <2> QED
    BY <1>3, <2>1 DEF StrictSubsetOrdering
<1> QED
  BY <1>3, <1>4

(***************************************************************************)
(* Defs that are good one by one make a program that is well formed: in a  *)
(* smallest cycle there is no type with fields, as what is safe for it     *)
(* would be a smaller one; so it is of aliases, and none of those is in    *)
(* one.                                                                    *)
(***************************************************************************)
LEMMA GoodDefsSuffice ==
  ASSUME Typed(types), Known \subseteq Def, \A d \in Known : GoodDef(d)
  PROVE  WellFormed
<1>1. AllDefined
  BY DEF AllDefined, GoodDef
<1>2. ASSUME NEW C \in SUBSET Known, C # {}, AliasLoop(types, C) PROVE FALSE
  <2>1. PICK d \in C : IsAlias(types, d)
    BY <1>2 DEF AliasLoop
  <2>2. types[d].tag = "alias" /\ d \in Def
    BY <2>1 DEF IsAlias
  <2> QED
    BY <1>2, <2>2 DEF GoodDef
<1>3. ~AliasCycle(types, Known)
  BY <1>2 DEF AliasCycle, AliasLoop
<1>4. RefsAllowed
  BY DEF RefsAllowed, GoodDef, GoodRef
<1>5. ASSUME NEW C \in SUBSET Known, MarkedCycle(C) PROVE FALSE
  <2>1. PICK M \in SUBSET C : MarkedCycle(M) /\ \A B \in SUBSET M : MarkedCycle(B) => B = M
    BY <1>5, SmallestCycle
  <2>2. \A d \in M : \E e \in M : e \in MarkedKids(types, d)
    BY <2>1 DEF MarkedCycle
  <2>3. ASSUME NEW d \in M, types[d].tag \in Composite PROVE FALSE
    <3>1. d \in Def
      OBVIOUS
    <3>2. MarkedKids(types, d) \subseteq Safe(d)
      <4> SUFFICES ASSUME NEW r \in Refs(types[d]), IsMarked(types, d, r) PROVE r.to \in Safe(d)
        BY DEF MarkedKids
      <4>1. r.mode = "inplace" /\ r.to \in Def
        BY <2>3 DEF IsMarked, Composite
      <4> QED
        BY <2>3, <3>1, <4>1 DEF GoodDef, GoodRef
    <3> DEFINE B == M \cap Safe(d)
    <3>3. PICK e \in M : e \in MarkedKids(types, d)
      BY <2>2
    <3>4. B # {} /\ B # M /\ B \in SUBSET M
      BY <3>2, <3>3, SafeFacts
    <3>5. \A x \in B : \E y \in B : y \in MarkedKids(types, x)
      BY <2>2, SafeFacts DEF Closed
    <3> HIDE DEF B
    <3>6. MarkedCycle(B)
      BY <3>4, <3>5 DEF MarkedCycle
    <3> QED
      BY <2>1, <3>4, <3>6
  <2>4. ASSUME NEW d \in M PROVE IsAlias(types, d) /\ AliasOf(types, d) \in M
    <3>1. d \in Def
      OBVIOUS
    <3>2. PICK e \in M : e \in MarkedKids(types, d)
      BY <2>2
    <3>3. types[d].tag = "alias"
      BY <2>3, <3>2 DEF MarkedKids, IsMarked
    <3>4. IsAlias(types, d)
      BY <3>1, <3>3 DEF IsAlias
    <3> QED
      BY <3>1, <3>2, <3>4, AliasFacts
  <2>5. AliasLoop(types, M) /\ M # {}
    BY <2>1, <2>4 DEF AliasLoop, MarkedCycle
  <2> QED
    BY <1>2, <2>5
<1> QED
  BY <1>1, <1>3, <1>4, <1>5 DEF WellFormed

-----------------------------------------------------------------------------
(***************************************************************************)
(* The invariant.  While a walk is under way, its activations are a path   *)
(* from where it began.  The walks along aliases have not met the def      *)
(* being validated; the third walk has not either, and what it has already *)
(* returned from is safe.                                                  *)
(***************************************************************************)
AtRef ==
  /\ dpos \in 1..Len(defs)
  /\ types[Parent].tag \in Composite
  /\ rpos \in 1..Len(types[Parent].refs)

AtAlias == dpos \in 1..Len(defs) /\ types[Parent].tag = "alias"

AliasPath(first) ==
  /\ calls[1].at = first
  /\ \A k \in 1..Len(calls) : calls[k].at \in Def => calls[k].at \in Known
  /\ \A k \in 1..(Len(calls) - 1) :
       /\ IsAlias(types, calls[k].at) /\ calls[k].at # Parent
       /\ calls[k + 1].at = AliasOf(types, calls[k].at)

Calls(act, x) ==
  /\ act.next \in 1..Len(types[act.at].refs)
  /\ IsMarked(types, act.at, types[act.at].refs[act.next])
  /\ types[act.at].refs[act.next].to = x

Returned(act) ==
  \A j \in 1..Len(types[act.at].refs) :
    j < act.next /\ IsMarked(types, act.at, types[act.at].refs[j])
      => types[act.at].refs[j].to \in Safe(Parent)

MarkedPath ==
  /\ ThisRef.mode = "inplace"
  /\ RefAllowed(ThisRef, UnaliasTag(types, ThisRef.to))
  /\ calls[1].at = ThisRef.to
  /\ \A k \in 1..Len(calls) : calls[k].at \in Known \ {Parent} /\ Returned(calls[k])
  /\ \A k \in 1..(Len(calls) - 1) : Calls(calls[k], calls[k + 1].at)

WalkOK ==
  /\ walk = "ref" => AtRef /\ AliasPath(ThisRef.to)
  /\ walk = "alias" => AtAlias /\ AliasPath(AliasOf(types, Parent))
  /\ walk = "marked" => AtRef /\ MarkedPath

Checked ==
  /\ ok => /\ \A i \in 1..Len(defs) : i < dpos => GoodDef(defs[i])
           /\ dpos <= Len(defs) /\ types[Parent].tag \in Composite =>
                \A j \in 1..Len(types[Parent].refs) :
                  j < rpos => GoodRef(Parent, types[Parent].refs[j])
  /\ ~ok => ~WellFormed

Verdict ==
  /\ status = "valid" => ok /\ dpos > Len(defs)
  /\ status = "invalid" => ~ok
  /\ OverflowIsForeignCycle

Inv == TypeOK /\ WalkOK /\ Checked /\ Verdict

-----------------------------------------------------------------------------
(***************************************************************************)
(* A step leaves the program as it is, and so what is true of it.          *)
(***************************************************************************)
LEMMA ProgramStays ==
  ASSUME types' = types, defs' = defs
  PROVE  /\ Typed(types)' <=> Typed(types)
         /\ Known' = Known
         /\ WellFormed' <=> WellFormed
         /\ \A d : GoodDef(d)' <=> GoodDef(d)
         /\ \A d, r : GoodRef(d, r)' <=> GoodRef(d, r)
         /\ \A d : Safe(d)' = Safe(d)
         /\ \A C : MarkedCycle(C)' <=> MarkedCycle(C)
<1>1. \A C : MarkedCycle(C)' <=> MarkedCycle(C)
  BY DEF MarkedCycle
<1>2. \A W : Closed(W)' <=> Closed(W)
  BY DEF Closed
<1>3. \A d : Safe(d)' = Safe(d)
  BY <1>2 DEF Safe
<1>4. \A d, r : GoodRef(d, r)' <=> GoodRef(d, r)
  BY <1>3 DEF GoodRef
<1>5. \A C : AliasLoop(types, C)' <=> AliasLoop(types, C)
  BY DEF AliasLoop
<1>6. \A d : GoodDef(d)' <=> GoodDef(d)
  BY <1>4, <1>5 DEF GoodDef
<1>7. Known' = Known /\ (WellFormed' <=> WellFormed)
  BY <1>1 DEF WellFormed, AllDefined, RefsAllowed, Known
<1>8. Typed(types)' <=> Typed(types)
  BY DEF Typed
<1> QED
  BY <1>1, <1>3, <1>4, <1>6, <1>7, <1>8

LEMMA TypesKept ==
  ASSUME TypeOK, types' = types, defs' = defs,
         dpos' \in 1..(Len(defs) + 1), rpos' \in Nat \ {0},
         walk' \in {"none", "ref", "alias", "marked"},
         calls' \in Seq(Activation), Len(calls') <= MaxCalls,
         (walk' = "none") <=> (calls' = <<>>),
         ok' \in BOOLEAN, status' \in {"run", "valid", "invalid", "overflow"}
  PROVE  TypeOK'
  BY ProgramStays DEF TypeOK

LEMMA WalkOver ==
  ASSUME TypeOK, types' = types, defs' = defs, NextRef \/ (NextDef /\ dpos <= Len(defs)),
         walk' = "none", calls' = <<>>, ok' \in BOOLEAN, status' = status
  PROVE  TypeOK'
<1>1. <<>> \in Seq(Activation) /\ Len(<<>>) <= MaxCalls
  BY MaxCallsAssumption
<1>2. dpos' \in 1..(Len(defs) + 1) /\ rpos' \in Nat \ {0}
  <2>1. Len(defs) \in Nat
    BY DEF TypeOK
  <2> QED
    BY <2>1 DEF NextRef, NextDef, TypeOK
<1> QED
  BY <1>1, <1>2, TypesKept DEF TypeOK

LEMMA KnownDefs ==
  ASSUME defs \in Seq(Def)
  PROVE  Known = {defs[i] : i \in 1..Len(defs)} /\ Known \subseteq Def
<1>1. DOMAIN defs = 1..Len(defs) /\ \A i \in 1..Len(defs) : defs[i] \in Def
  BY LenProperties, ElementOfSeq
<1> QED
  BY <1>1 DEF Known, ToSet

LEMMA ParentFacts ==
  ASSUME TypeOK, dpos \in 1..Len(defs)
  PROVE  /\ Parent \in Def /\ Parent \in Known
         /\ IsType(types[Parent]) /\ Typed(types) /\ Len(types[Parent].refs) \in Nat
<1>1. Typed(types) /\ defs \in Seq(Def)
  BY DEF TypeOK, Typed
<1>2. Parent \in Def /\ Parent \in Known
  BY <1>1, ElementOfSeq, KnownDefs DEF Parent
<1> QED
  BY <1>1, <1>2 DEF Typed, IsType

LEMMA ThisRefFacts ==
  ASSUME TypeOK, AtRef
  PROVE  /\ Parent \in Def /\ Parent \in Known /\ Typed(types)
         /\ ThisRef \in Ref /\ ThisRef \in Refs(types[Parent])
         /\ ThisRef.to \in Def => ThisRef.to \in Known
<1>1. Parent \in Def /\ Parent \in Known /\ Typed(types) /\ types[Parent].refs \in Seq(Ref)
  BY ParentFacts DEF AtRef, IsType
<1>2. ThisRef \in Ref /\ ThisRef \in Refs(types[Parent])
  BY <1>1, ElementOfSeq DEF AtRef, ThisRef, Refs
<1> QED
  BY <1>1, <1>2 DEF TypeOK, SelfContained

LEMMA KidsKnown ==
  ASSUME TypeOK, NEW d \in Known
  PROVE  /\ MarkedKids(types, d) \subseteq Known
         /\ IsAlias(types, d) => AliasOf(types, d) \in Known
<1>1. Known \subseteq Def /\ Typed(types)
  BY KnownDefs DEF TypeOK, Typed
<1>2. MarkedKids(types, d) \subseteq Known
  BY DEF TypeOK, SelfContained, MarkedKids, IsMarked
<1>3. IsAlias(types, d) => AliasOf(types, d) \in MarkedKids(types, d)
  BY <1>1, AliasFacts
<1> QED
  BY <1>2, <1>3

LEMMA HereFacts ==
  ASSUME TypeOK, walk # "none"
  PROVE  /\ Len(calls) \in 1..MaxCalls /\ calls \in Seq(Activation)
         /\ Here = calls[Len(calls)] /\ Here \in Activation
         /\ \A k \in 1..Len(calls) : calls[k] \in Activation /\ calls[k].at \in Leaf
<1>1. calls \in Seq(Activation) /\ calls # <<>> /\ Len(calls) <= MaxCalls /\ MaxCalls \in Nat
  BY MaxCallsAssumption DEF TypeOK
<1>2. Len(calls) \in 1..MaxCalls
  BY <1>1, EmptySeq
<1>3. \A k \in 1..Len(calls) : calls[k] \in Activation
  BY <1>1, ElementOfSeq
<1>4. Here = calls[Len(calls)] /\ Len(calls) \in 1..Len(calls)
  BY <1>2 DEF Here
<1>5. \A act \in Activation : act.at \in Leaf
  BY DEF Activation
<1> QED
  BY <1>1, <1>2, <1>3, <1>4, <1>5

-----------------------------------------------------------------------------
(***************************************************************************)
(* The loops of compiler_validate go on: not yet, to the next field, or to *)
(* the next def.                                                           *)
(***************************************************************************)
LEMMA StillChecked ==
  ASSUME Checked, types' = types, defs' = defs, UNCHANGED <<dpos, rpos, ok>>
  PROVE  Checked'
  BY ProgramStays DEF Checked, Parent

LEMMA RefChecked ==
  ASSUME TypeOK, AtRef, Checked, types' = types, defs' = defs, NextRef, ok' \in BOOLEAN,
         ok' => ok /\ GoodRef(Parent, ThisRef),
         ~ok' => ~ok \/ ~WellFormed
  PROVE  Checked'
<1>1. rpos \in Nat \ {0} /\ rpos' = rpos + 1 /\ dpos' = dpos /\ Parent' = Parent
  BY DEF TypeOK, NextRef, Parent
<1>2. CASE ~ok'
  BY <1>2, ProgramStays DEF Checked
<1>3. CASE ok'
  <2>1. \A i \in 1..Len(defs) : i < dpos => GoodDef(defs[i])
    BY <1>3 DEF Checked
  <2>2. ASSUME NEW j \in 1..Len(types[Parent].refs), j < rpos + 1
        PROVE  GoodRef(Parent, types[Parent].refs[j])
    <3>1. CASE j < rpos
      BY <1>3, <2>2, <3>1 DEF Checked, AtRef
    <3>2. CASE j = rpos
      BY <1>3, <2>2, <3>2 DEF ThisRef
    <3> QED
      BY <1>1, <2>2, <3>1, <3>2
  <2> QED
    BY <1>1, <1>3, <2>1, <2>2, ProgramStays DEF Checked
<1> QED
  BY <1>2, <1>3

LEMMA DefChecked ==
  ASSUME TypeOK, dpos \in 1..Len(defs), Checked, types' = types, defs' = defs, NextDef,
         ok' \in BOOLEAN,
         ok' => ok /\ GoodDef(Parent),
         ~ok' => ~ok \/ ~WellFormed
  PROVE  Checked'
<1>1. dpos \in Nat /\ dpos' = dpos + 1 /\ rpos' = 1
  BY DEF TypeOK, NextDef
<1>2. CASE ~ok'
  BY <1>2, ProgramStays DEF Checked
<1>3. CASE ok'
  <2>1. ASSUME NEW i \in 1..Len(defs), i < dpos + 1 PROVE GoodDef(defs[i])
    <3>1. CASE i < dpos
      BY <1>3, <2>1, <3>1 DEF Checked
    <3>2. CASE i = dpos
      BY <1>3, <2>1, <3>2 DEF Parent
    <3> QED
      BY <1>1, <2>1, <3>1, <3>2
  <2> QED
    BY <1>1, <1>3, <2>1, ProgramStays DEF Checked
<1> QED
  BY <1>2, <1>3

-----------------------------------------------------------------------------
(***************************************************************************)
(* The stack of a walk.                                                    *)
(***************************************************************************)
LEMMA Started ==
  ASSUME NEW x \in Leaf, calls' = <<[at |-> x, next |-> 1]>>
  PROVE  /\ calls' \in Seq(Activation) /\ Len(calls') = 1 /\ calls' # <<>>
         /\ calls'[1] = [at |-> x, next |-> 1]
         /\ Len(calls') <= MaxCalls
<1>1. [at |-> x, next |-> 1] \in Activation
  BY DEF Activation
<1>2. 1 <= MaxCalls
  <2>1. Cardinality(Def) \in Nat
    BY DefsAreNotTags, FS_CardinalityType
  <2> QED
    BY <2>1, MaxCallsAssumption
<1> QED
  BY <1>1, <1>2

LEMMA Grown ==
  ASSUME TypeOK, walk # "none", NEW x \in Leaf, Len(calls) < MaxCalls,
         calls' = Append(calls, [at |-> x, next |-> 1])
  PROVE  /\ calls' \in Seq(Activation) /\ Len(calls') = Len(calls) + 1 /\ calls' # <<>>
         /\ Len(calls') <= MaxCalls
         /\ \A k \in 1..Len(calls) : calls'[k] = calls[k]
         /\ calls'[Len(calls) + 1] = [at |-> x, next |-> 1]
<1>1. [at |-> x, next |-> 1] \in Activation
  BY DEF Activation
<1>2. Len(calls) \in 1..MaxCalls /\ calls \in Seq(Activation) /\ MaxCalls \in Nat
  BY HereFacts, MaxCallsAssumption
<1>3. /\ calls' \in Seq(Activation) /\ Len(calls') = Len(calls) + 1
      /\ \A k \in 1..Len(calls) : calls'[k] = calls[k]
      /\ calls'[Len(calls) + 1] = [at |-> x, next |-> 1]
  BY <1>1, <1>2, AppendProperties
<1>4. calls' # <<>> /\ Len(calls') <= MaxCalls
  BY <1>2, <1>3, EmptySeq
<1> QED
  BY <1>3, <1>4

(***************************************************************************)
(* The walk that is out of stack has come to one of its defs twice.        *)
(***************************************************************************)
LEMMA OutOfStack ==
  ASSUME TypeOK, walk # "none", Len(calls) = MaxCalls,
         \A k \in 1..Len(calls) : calls[k].at \in Known \ {Parent},
         \A k \in 1..(Len(calls) - 1) : calls[k + 1].at \in MarkedKids(types, calls[k].at)
  PROVE  \E C \in SUBSET (Known \ {Parent}) : MarkedCycle(C)
<1> DEFINE n == Len(calls)
           at == [k \in 1..n |-> calls[k].at]
<1>1. n \in Nat /\ n > Cardinality(Def)
  BY MaxCallsAssumption
<1>2. at \in [1..n -> Known \ {Parent}]
  OBVIOUS
<1>3. \A k \in 1..(n - 1) : at[k + 1] \in MarkedKids(types, at[k])
  BY <1>1
<1>4. (Known \ {Parent}) \in SUBSET Def
  BY KnownDefs DEF TypeOK
<1> HIDE DEF n, at
<1> QED
  BY <1>1, <1>2, <1>3, <1>4, LongPathIsCyclic

LEMMA OutOfStackByAliases ==
  ASSUME TypeOK, walk # "none", Len(calls) = MaxCalls, NEW first, AliasPath(first),
         IsAlias(types, Here.at), Here.at # Parent
  PROVE  \E C \in SUBSET (Known \ {Parent}) : MarkedCycle(C)
<1>1. Len(calls) \in Nat \ {0} /\ Here = calls[Len(calls)]
  BY HereFacts, MaxCallsAssumption
<1>2. \A k \in 1..Len(calls) : IsAlias(types, calls[k].at) /\ calls[k].at # Parent
  BY <1>1 DEF AliasPath
<1>3. \A k \in 1..Len(calls) : calls[k].at \in Def /\ calls[k].at \in Known \ {Parent}
  BY <1>2 DEF IsAlias, AliasPath
<1>4. \A k \in 1..(Len(calls) - 1) : calls[k + 1].at \in MarkedKids(types, calls[k].at)
  <2> SUFFICES ASSUME NEW k \in 1..(Len(calls) - 1)
               PROVE  calls[k + 1].at \in MarkedKids(types, calls[k].at)
    OBVIOUS
  <2>1. k \in 1..Len(calls) /\ Typed(types)
    BY <1>1 DEF TypeOK, Typed
  <2>2. MarkedKids(types, calls[k].at) = {AliasOf(types, calls[k].at)}
    BY <1>2, <1>3, <2>1, AliasFacts
  <2> QED
    BY <2>2 DEF AliasPath
<1> QED
  BY <1>3, <1>4, OutOfStack

-----------------------------------------------------------------------------
(***************************************************************************)
(* The steps outside the walks.                                            *)
(***************************************************************************)
LEMMA BegunInv ==
  ASSUME Typed(types), defs \in Seq(Def), SelfContained(types, Known), Begun
  PROVE  Inv
<1>1. TypeOK
  BY MaxCallsAssumption, LenProperties DEF Begun, TypeOK, Typed
<1>2. WalkOK /\ Verdict
  BY DEF Begun, WalkOK, Verdict, OverflowIsForeignCycle
<1>3. Checked
  <2>1. ok /\ dpos = 1 /\ rpos = 1
    BY DEF Begun
  <2>2. ASSUME dpos <= Len(defs) PROVE Len(types[Parent].refs) \in Nat
    BY <1>1, <2>1, <2>2, ParentFacts DEF TypeOK
  <2> QED
    BY <2>1, <2>2 DEF Checked
<1> QED
  BY <1>1, <1>2, <1>3 DEF Inv

LEMMA InitInv == Init => Inv
  BY BegunInv, ProgramsAssumption, OrdersAssumption DEF Init, Typed

LEMMA UndefinedInv ==
  ASSUME Inv, Undefined
  PROVE  Inv'
<1>1. TypeOK /\ Checked /\ Len(defs) \in Nat
  BY DEF Inv, TypeOK
<1>2. dpos \in 1..Len(defs) /\ types' = types /\ defs' = defs
  BY <1>1 DEF Undefined, AtDef, TypeOK
<1>3. TypeOK'
  <2>1. ok' \in BOOLEAN
    BY DEF Undefined
  <2> QED
    BY <1>1, <1>2, <2>1, TypesKept DEF Undefined, AtDef, TypeOK, NextDef
<1>4. ~WellFormed
  BY <1>1, <1>2, ParentFacts DEF Undefined, WellFormed, AllDefined
<1>5. Checked'
  BY <1>1, <1>2, <1>4, DefChecked DEF Undefined
<1>6. WalkOK' /\ Verdict'
  BY DEF Undefined, AtDef, WalkOK, Verdict, OverflowIsForeignCycle
<1> QED
  BY <1>3, <1>5, <1>6 DEF Inv

LEMMA NotCheckedInv ==
  ASSUME Inv, NotChecked
  PROVE  Inv'
<1>1. TypeOK /\ Checked /\ Len(defs) \in Nat
  BY DEF Inv, TypeOK
<1>2. dpos \in 1..Len(defs) /\ types' = types /\ defs' = defs /\ ok' = ok /\ NextDef
  BY <1>1 DEF NotChecked, AtDef, TypeOK
<1>3. TypeOK'
  BY <1>1, <1>2, ProgramStays DEF NotChecked, AtDef, TypeOK, NextDef
<1>4. GoodDef(Parent)
  BY DEF NotChecked, GoodDef, PlainTags, Composite
<1>5. Checked'
  BY <1>1, <1>2, <1>4, DefChecked DEF TypeOK
<1>6. WalkOK' /\ Verdict'
  BY DEF NotChecked, AtDef, WalkOK, Verdict, OverflowIsForeignCycle
<1> QED
  BY <1>3, <1>5, <1>6 DEF Inv

LEMMA FieldsDoneInv ==
  ASSUME Inv, FieldsDone
  PROVE  Inv'
<1>1. TypeOK /\ Checked /\ Len(defs) \in Nat
  BY DEF Inv, TypeOK
<1>2. dpos \in 1..Len(defs) /\ types' = types /\ defs' = defs /\ ok' = ok /\ NextDef
  BY <1>1 DEF FieldsDone, AtDef, TypeOK
<1>3. TypeOK'
  BY <1>1, <1>2, ProgramStays DEF FieldsDone, AtDef, TypeOK, NextDef
<1>4. ASSUME ok PROVE GoodDef(Parent)
  <2>1. types[Parent].tag \in Composite /\ rpos > Len(types[Parent].refs)
    BY DEF FieldsDone
  <2>2. \A r \in Refs(types[Parent]) : GoodRef(Parent, r)
    <3>1. rpos \in Nat /\ Len(types[Parent].refs) \in Nat
      BY <1>1, <1>2, ParentFacts DEF TypeOK
    <3>2. \A j \in 1..Len(types[Parent].refs) : GoodRef(Parent, types[Parent].refs[j])
      BY <1>1, <1>2, <1>4, <2>1, <3>1 DEF Checked
    <3> QED
      BY <3>2 DEF Refs
  <2> QED
    BY <2>1, <2>2 DEF GoodDef, Composite
<1>5. Checked'
  BY <1>1, <1>2, <1>4, DefChecked DEF TypeOK
<1>6. WalkOK' /\ Verdict'
  BY DEF FieldsDone, AtDef, WalkOK, Verdict, OverflowIsForeignCycle
<1> QED
  BY <1>3, <1>5, <1>6 DEF Inv

LEMMA ReturnInv ==
  ASSUME Inv, Return
  PROVE  Inv'
<1>1. TypeOK /\ Checked
  BY DEF Inv
<1>2. TypeOK'
  BY <1>1, ProgramStays DEF Return, TypeOK
<1>3. Checked'
  BY <1>1, StillChecked DEF Return
<1>4. WalkOK' /\ Verdict'
  BY DEF Return, WalkOK, Verdict, OverflowIsForeignCycle
<1> QED
  BY <1>2, <1>3, <1>4 DEF Inv

LEMMA StoppedInv ==
  ASSUME Inv, UNCHANGED vvars
  PROVE  Inv'
<1>1. TypeOK' /\ Checked'
  BY StillChecked, ProgramStays DEF Inv, TypeOK, vvars
<1>2. Verdict'
  BY ProgramStays DEF Inv, Verdict, OverflowIsForeignCycle, vvars, Parent
<1>3. WalkOK'
  BY ProgramStays DEF Inv, vvars, WalkOK, AtRef, AtAlias, AliasPath, MarkedPath, Calls,
     Returned, Parent, ThisRef
<1> QED
  BY <1>1, <1>2, <1>3 DEF Inv

-----------------------------------------------------------------------------
(***************************************************************************)
(* The walk along the aliases of a reference.                              *)
(***************************************************************************)
LEMMA StartRefInv ==
  ASSUME Inv, StartRef
  PROVE  Inv'
<1>1. TypeOK /\ Checked /\ types' = types /\ defs' = defs
  BY DEF Inv, StartRef
<1>2. AtRef
  <2>1. dpos \in 1..Len(defs)
    BY <1>1 DEF StartRef, AtDef, TypeOK
  <2>2. Len(types[Parent].refs) \in Nat
    BY <1>1, <2>1, ParentFacts
  <2> QED
    BY <1>1, <2>1, <2>2 DEF StartRef, AtRef, TypeOK
<1>3. ThisRef.to \in Leaf
  BY <1>1, <1>2, ThisRefFacts DEF Ref
<1>4. /\ calls' \in Seq(Activation) /\ Len(calls') = 1 /\ calls' # <<>>
      /\ calls'[1] = [at |-> ThisRef.to, next |-> 1] /\ Len(calls') <= MaxCalls
  BY <1>3, Started DEF StartRef
<1>5. TypeOK'
  BY <1>1, <1>4, TypesKept DEF StartRef, TypeOK
<1>6. WalkOK'
  <2>1. AtRef'
    BY <1>1, <1>2 DEF AtRef, StartRef, Parent
  <2>2. AliasPath(ThisRef.to)'
    BY <1>1, <1>2, <1>4, ThisRefFacts, ProgramStays DEF AliasPath, StartRef, ThisRef, Parent
  <2> QED
    BY <2>1, <2>2 DEF StartRef, WalkOK
<1>7. Checked'
  BY <1>1, StillChecked DEF StartRef
<1>8. Verdict'
  BY DEF StartRef, AtDef, Verdict, OverflowIsForeignCycle
<1> QED
  BY <1>5, <1>6, <1>7, <1>8 DEF Inv

(***************************************************************************)
(* Either walk along aliases takes one more, or runs out of stack.         *)
(***************************************************************************)
LEMMA FollowInv ==
  ASSUME Inv, status = "run", walk \in {"ref", "alias"},
         IsAlias(types, Here.at), Here.at # Parent, Call(AliasOf(types, Here.at)),
         UNCHANGED <<types, defs, dpos, rpos, walk, ok>>
  PROVE  Inv'
<1> DEFINE first == IF walk = "ref" THEN ThisRef.to ELSE AliasOf(types, Parent)
<1>1. TypeOK /\ Checked /\ Verdict /\ WalkOK /\ AliasPath(first) /\ walk # "none"
  BY DEF Inv, WalkOK
<1>2. Len(calls) \in 1..MaxCalls /\ Here = calls[Len(calls)] /\ calls \in Seq(Activation)
  BY <1>1, HereFacts
<1>3. AliasOf(types, Here.at) \in Leaf
  BY <1>1, AliasFacts DEF IsAlias, Leaf, TypeOK, Typed
<1>4. CASE Len(calls) < MaxCalls /\ status' = status
           /\ calls' = Append(calls, [at |-> AliasOf(types, Here.at), next |-> 1])
  <2>1. /\ calls' \in Seq(Activation) /\ Len(calls') = Len(calls) + 1 /\ calls' # <<>>
        /\ Len(calls') <= MaxCalls
        /\ \A k \in 1..Len(calls) : calls'[k] = calls[k]
        /\ calls'[Len(calls) + 1] = [at |-> AliasOf(types, Here.at), next |-> 1]
    BY <1>1, <1>3, <1>4, Grown
  <2>2. TypeOK'
    BY <1>1, <2>1, <1>4, TypesKept DEF TypeOK
  <2>3. first' = first /\ Parent' = Parent
    BY DEF ThisRef, Parent
  <2>4. AliasPath(first)'
    <3>1. calls'[1].at = first
      BY <1>1, <1>2, <2>1 DEF AliasPath
    <3>2. ASSUME NEW k \in 1..Len(calls)
          PROVE  /\ IsAlias(types, calls'[k].at) /\ calls'[k].at # Parent
                 /\ calls'[k + 1].at = AliasOf(types, calls'[k].at)
      <4>1. CASE k \in 1..(Len(calls) - 1)
        <5>1. k + 1 \in 1..Len(calls) /\ calls'[k] = calls[k] /\ calls'[k + 1] = calls[k + 1]
          BY <1>2, <2>1, <4>1
        <5> QED
          BY <1>1, <4>1, <5>1 DEF AliasPath
      <4>2. CASE k = Len(calls)
        BY <1>2, <2>1, <4>2
      <4> QED
        BY <1>2, <4>1, <4>2
    <3>3. Len(calls') - 1 = Len(calls)
      BY <1>2, <2>1
    <3>4. Here.at \in Known /\ AliasOf(types, Here.at) \in Known
      BY <1>1, <1>2, KidsKnown DEF AliasPath, IsAlias
    <3>5. \A k \in 1..(Len(calls) + 1) : calls'[k].at \in Def => calls'[k].at \in Known
      BY <1>1, <1>2, <2>1, <3>4 DEF AliasPath
    <3> HIDE DEF first
    <3> QED
      BY <1>2, <2>1, <2>3, <3>1, <3>2, <3>3, <3>5, ProgramStays DEF AliasPath
  <2>5. WalkOK'
    BY <1>1, <2>4 DEF WalkOK, AtRef, AtAlias, Parent
  <2>6. Checked'
    BY <1>1, StillChecked
  <2>7. Verdict'
    BY <1>4 DEF Verdict, OverflowIsForeignCycle
  <2> QED
    BY <2>2, <2>5, <2>6, <2>7 DEF Inv
<1>5. CASE Len(calls) = MaxCalls /\ status' = "overflow" /\ calls' = calls
  <2>1. TypeOK' /\ Checked'
    BY <1>1, <1>5, StillChecked, ProgramStays DEF TypeOK
  <2>2. WalkOK'
    BY <1>1, <1>5, ProgramStays DEF WalkOK, AtRef, AtAlias, AliasPath, Parent, ThisRef
  <2>3. \E C \in SUBSET (Known \ {Parent}) : MarkedCycle(C)
    <3> HIDE DEF first
    <3> QED
      BY <1>1, <1>5, OutOfStackByAliases
  <2>4. Verdict'
    BY <1>5, <2>3, ProgramStays DEF Verdict, OverflowIsForeignCycle, Parent
  <2> QED
    BY <2>1, <2>2, <2>4 DEF Inv
<1> QED
  BY <1>2, <1>4, <1>5 DEF Call

LEMMA FollowRefInv ==
  ASSUME Inv, FollowRef
  PROVE  Inv'
<1>1. AtRef /\ types[Parent].tag # "alias"
  BY DEF Inv, WalkOK, FollowRef, AtRef, Composite
<1>2. Here.at # Parent
  BY <1>1 DEF FollowRef, IsAlias
<1> QED
  BY <1>2, FollowInv DEF FollowRef

LEMMA FollowAliasInv ==
  ASSUME Inv, FollowAlias
  PROVE  Inv'
  BY FollowInv DEF FollowAlias

(***************************************************************************)
(* Where the walk along a reference ends is what the reference names.      *)
(***************************************************************************)
LEMMA RefEnd ==
  ASSUME TypeOK, WalkOK, walk = "ref", ~IsAlias(types, Here.at)
  PROVE  /\ AtRef /\ ThisRef \in Refs(types[Parent]) /\ ThisRef \in Ref
         /\ Parent \in Def /\ Parent \in Known /\ (ThisRef.to \in Def => ThisRef.to \in Known)
         /\ UnaliasTag(types, ThisRef.to) = EndTag
<1>1. AtRef /\ AliasPath(ThisRef.to)
  BY DEF WalkOK
<1>2. /\ Parent \in Def /\ Typed(types) /\ ThisRef \in Ref /\ ThisRef \in Refs(types[Parent])
      /\ Parent \in Known /\ (ThisRef.to \in Def => ThisRef.to \in Known)
  BY <1>1, ThisRefFacts
<1> DEFINE n == Len(calls)
           at == [k \in 1..n |-> calls[k].at]
<1>3. n \in Nat \ {0} /\ Here = calls[n] /\ at \in [1..n -> Leaf]
  BY HereFacts
<1>4. /\ \A k \in 1..(n - 1) : IsAlias(types, at[k]) /\ at[k + 1] = AliasOf(types, at[k])
      /\ at[1] = ThisRef.to /\ at[n] = Here.at
  BY <1>1, <1>3 DEF AliasPath
<1> HIDE DEF n, at
<1>5. AliasesBefore(types, at, n)
  BY <1>4 DEF AliasesBefore
<1>6. UnaliasTag(types, at[1]) = IF at[n] \in Def THEN types[at[n]].tag ELSE at[n]
  BY <1>2, <1>3, <1>4, <1>5, PathUnaliases
<1> QED
  BY <1>1, <1>2, <1>4, <1>6 DEF EndTag

LEMMA RefusedRefInv ==
  ASSUME Inv, RefusedRef
  PROVE  Inv'
<1>1. TypeOK /\ Checked /\ WalkOK /\ types' = types /\ defs' = defs
  BY DEF Inv, RefusedRef
<1>2. /\ AtRef /\ ThisRef \in Refs(types[Parent]) /\ Parent \in Known
      /\ ~RefAllowed(ThisRef, UnaliasTag(types, ThisRef.to))
  BY <1>1, RefEnd DEF RefusedRef
<1>3. ~WellFormed
  BY <1>2 DEF WellFormed, RefsAllowed, AtRef
<1>4. ok' \in BOOLEAN /\ ~ok' /\ NextRef
  BY DEF RefusedRef
<1>5. TypeOK'
  BY <1>1, <1>4, WalkOver DEF RefusedRef
<1>6. Checked'
  BY <1>1, <1>2, <1>3, <1>4, RefChecked
<1>7. WalkOK' /\ Verdict'
  BY DEF RefusedRef, WalkOK, Verdict, OverflowIsForeignCycle
<1> QED
  BY <1>5, <1>6, <1>7 DEF Inv

LEMMA AllowedRefInv ==
  ASSUME Inv, AllowedRef
  PROVE  Inv'
<1>1. TypeOK /\ Checked /\ WalkOK /\ types' = types /\ defs' = defs /\ status = "run"
  BY DEF Inv, AllowedRef
<1>2. /\ AtRef /\ ThisRef \in Refs(types[Parent]) /\ ThisRef \in Ref
      /\ Parent \in Def /\ Parent \in Known /\ (ThisRef.to \in Def => ThisRef.to \in Known)
      /\ RefAllowed(ThisRef, UnaliasTag(types, ThisRef.to))
  BY <1>1, RefEnd DEF AllowedRef
<1>3. CASE /\ ThisRef.mode = "inplace" /\ ThisRef.to \in Def \ {Parent}
           /\ walk' = "marked"
           /\ calls' = <<[at |-> ThisRef.to, next |-> 1]>>
           /\ UNCHANGED <<dpos, rpos, ok, status>>
  <2>1. /\ calls' \in Seq(Activation) /\ Len(calls') = 1 /\ calls' # <<>>
        /\ calls'[1] = [at |-> ThisRef.to, next |-> 1] /\ Len(calls') <= MaxCalls
    BY <1>2, <1>3, Started DEF Ref
  <2>2. TypeOK'
    BY <1>1, <1>3, <2>1, TypesKept DEF TypeOK
  <2>3. Parent' = Parent /\ ThisRef' = ThisRef
    BY <1>1, <1>3 DEF Parent, ThisRef
  <2>4. AtRef'
    BY <1>1, <1>2, <1>3, <2>3 DEF AtRef
  <2>5. MarkedPath'
    <3>1. Returned(calls[1])'
      <4>1. types[calls[1].at]' = types[ThisRef.to] /\ Len(types[ThisRef.to].refs) \in Nat
        BY <1>1, <1>3, <2>1 DEF TypeOK, IsType
      <4> QED
        BY <2>1, <4>1 DEF Returned
    <3> QED
      BY <1>1, <1>2, <1>3, <2>1, <2>3, <3>1, ProgramStays DEF MarkedPath
  <2>6. WalkOK'
    BY <1>3, <2>4, <2>5 DEF WalkOK
  <2>7. Checked'
    BY <1>1, <1>3, StillChecked
  <2>8. Verdict'
    BY <1>1, <1>3 DEF Verdict, OverflowIsForeignCycle
  <2> QED
    BY <2>2, <2>6, <2>7, <2>8 DEF Inv
<1>4. CASE /\ ~(ThisRef.mode = "inplace" /\ ThisRef.to \in Def \ {Parent})
           /\ ok' = (ok /\ ~(ThisRef.mode = "inplace" /\ ThisRef.to = Parent))
           /\ walk' = "none" /\ calls' = <<>> /\ NextRef /\ status' = status
  <2>1. ok' \in BOOLEAN
    BY <1>4
  <2>2. ok' => ok /\ GoodRef(Parent, ThisRef)
    BY <1>2, <1>4 DEF GoodRef
  <2>3. ~ok' => ~ok \/ ~WellFormed
    <3> SUFFICES ASSUME ThisRef.mode = "inplace" /\ ThisRef.to = Parent PROVE ~WellFormed
      BY <1>4
    <3>1. Parent \in MarkedKids(types, Parent)
      BY <1>2 DEF MarkedKids, IsMarked, AtRef
    <3>2. MarkedCycle({Parent}) /\ {Parent} \in SUBSET Known
      BY <1>2, <3>1 DEF MarkedCycle
    <3> QED
      BY <3>2 DEF WellFormed
  <2>4. TypeOK'
    BY <1>1, <1>4, <2>1, WalkOver
  <2>5. Checked'
    BY <1>1, <1>2, <1>4, <2>1, <2>2, <2>3, RefChecked
  <2>6. WalkOK' /\ Verdict'
    BY <1>1, <1>4 DEF WalkOK, Verdict, OverflowIsForeignCycle
  <2> QED
    BY <2>4, <2>5, <2>6 DEF Inv
<1> QED
  BY <1>3, <1>4 DEF AllowedRef

-----------------------------------------------------------------------------
(***************************************************************************)
(* The walk along references marked inplace.                               *)
(***************************************************************************)
LEMMA MarkedFacts ==
  ASSUME Inv, Walking
  PROVE  /\ TypeOK /\ Typed(types) /\ Checked /\ Verdict /\ AtRef /\ MarkedPath
         /\ Len(calls) \in 1..MaxCalls /\ calls \in Seq(Activation)
         /\ Here = calls[Len(calls)] /\ Here.at \in Def \ {Parent} /\ Here.at \in Known /\ Here.next \in Nat \ {0}
         /\ Len(types[Here.at].refs) \in Nat
         /\ Parent \in Def /\ Parent \in Known /\ ThisRef \in Refs(types[Parent])
<1>1. TypeOK /\ Typed(types) /\ Checked /\ Verdict /\ AtRef /\ MarkedPath /\ walk # "none"
  BY DEF Inv, Walking, WalkOK, TypeOK, Typed
<1>2. /\ Len(calls) \in 1..MaxCalls /\ calls \in Seq(Activation)
      /\ Here = calls[Len(calls)] /\ Here \in Activation
  BY <1>1, HereFacts
<1>3. Here.at \in Def \ {Parent} /\ Here.at \in Known
  BY <1>1, <1>2, KnownDefs DEF MarkedPath, TypeOK
<1>4. Len(types[Here.at].refs) \in Nat /\ Here.next \in Nat \ {0}
  BY <1>1, <1>2, <1>3 DEF Typed, IsType, Activation
<1>5. Parent \in Def /\ Parent \in Known /\ ThisRef \in Refs(types[Parent])
  BY <1>1, ThisRefFacts
<1> QED
  BY <1>1, <1>2, <1>3, <1>4, <1>5

(***************************************************************************)
(* Every activation has called the next.                                   *)
(***************************************************************************)
LEMMA CallIsKid ==
  ASSUME NEW act, NEW x, Calls(act, x)
  PROVE  x \in MarkedKids(types, act.at)
  BY DEF Calls, MarkedKids, Refs

LEMMA NextField ==
  ASSUME NEW act, act.next \in Nat, NEW act2,
         act2.at = act.at, act2.next = act.next + 1,
         Returned(act), Len(types[act.at].refs) \in Nat,
         act.next \in 1..Len(types[act.at].refs)
           /\ IsMarked(types, act.at, types[act.at].refs[act.next])
             => types[act.at].refs[act.next].to \in Safe(Parent)
  PROVE  Returned(act2)
<1> SUFFICES ASSUME NEW j \in 1..Len(types[act.at].refs), j < act.next + 1,
                    IsMarked(types, act.at, types[act.at].refs[j])
             PROVE  types[act.at].refs[j].to \in Safe(Parent)
  BY DEF Returned
<1>1. CASE j < act.next
  BY <1>1 DEF Returned
<1>2. CASE j = act.next
  BY <1>2
<1> QED
  BY <1>1, <1>2

LEMMA NotMarkedInv ==
  ASSUME Inv, NotMarked
  PROVE  Inv'
<1> DEFINE n == Len(calls)
           next == Here.next + 1
<1>1. /\ TypeOK /\ Checked /\ AtRef /\ MarkedPath /\ n \in 1..MaxCalls
      /\ calls \in Seq(Activation) /\ Here = calls[n] /\ Here.at \in Def
      /\ Here.next \in Nat \ {0} /\ Len(types[Here.at].refs) \in Nat
  BY MarkedFacts DEF NotMarked
<1>2. UNCHANGED <<types, defs, dpos, rpos, walk, ok, status>> /\ status = "run" /\ walk = "marked"
  BY DEF NotMarked, Walking
<1>3. calls' = [calls EXCEPT ![n] = [at |-> Here.at, next |-> next]]
  <2>1. \A act \in Activation : [act EXCEPT !.next = @ + 1] = [at |-> act.at, next |-> act.next + 1]
    BY DEF Activation
  <2>2. Here \in Activation
    BY <1>1, ElementOfSeq
  <2> QED
    BY <1>1, <2>1, <2>2 DEF NotMarked
<1>4. /\ calls' \in Seq(Activation) /\ Len(calls') = n
      /\ \A k \in 1..n : calls'[k] = IF k = n THEN [at |-> Here.at, next |-> next] ELSE calls[k]
  <2>1. [at |-> Here.at, next |-> next] \in Activation
    BY <1>1 DEF Activation, Leaf
  <2> QED
    BY <1>1, <1>3, <2>1, ExceptSeq
<1>5. TypeOK'
  <2>1. calls' # <<>> /\ Len(calls') <= MaxCalls
    BY <1>1, <1>4, MaxCallsAssumption
  <2> QED
    BY <1>1, <1>2, <1>4, <2>1, TypesKept DEF TypeOK
<1>6. Parent' = Parent /\ ThisRef' = ThisRef
  BY <1>2 DEF Parent, ThisRef
<1>7. Returned([at |-> Here.at, next |-> next])
  <2>1. Returned(Here)
    BY <1>1 DEF MarkedPath
  <2>2. ~IsMarked(types, Here.at, types[Here.at].refs[Here.next])
    BY DEF NotMarked, Field
  <2> QED
    BY <1>1, <2>1, <2>2, NextField
<1>8. MarkedPath'
  <2>1. calls'[1].at = ThisRef.to
    BY <1>1, <1>4 DEF MarkedPath
  <2>2. ASSUME NEW k \in 1..n PROVE calls'[k].at \in Known \ {Parent} /\ Returned(calls'[k])
    <3>1. calls[k].at \in Known \ {Parent} /\ Returned(calls[k])
      BY <1>1, <2>2 DEF MarkedPath
    <3> QED
      BY <1>1, <1>4, <1>7, <2>2, <3>1
  <2>3. ASSUME NEW k \in 1..(n - 1) PROVE Calls(calls'[k], calls'[k + 1].at)
    <3>1. Calls(calls[k], calls[k + 1].at) /\ calls'[k] = calls[k]
          /\ calls'[k + 1].at = calls[k + 1].at
      BY <1>1, <1>4, <2>3 DEF MarkedPath
    <3> QED
      BY <3>1
  <2>4. \A k \in 1..n : Returned(calls[k])' <=> Returned(calls'[k])
    BY <1>2, <1>6, ProgramStays DEF Returned
  <2>5. \A k \in 1..(n - 1) : Calls(calls[k], calls[k + 1].at)' <=> Calls(calls'[k], calls'[k + 1].at)
    BY <1>2 DEF Calls
  <2> HIDE DEF n, next
  <2> QED
    BY <1>1, <1>2, <1>4, <1>6, <2>1, <2>2, <2>3, <2>4, <2>5, ProgramStays DEF MarkedPath
<1>9. WalkOK'
  BY <1>1, <1>2, <1>6, <1>8 DEF WalkOK, AtRef
<1>10. Checked' /\ Verdict'
  BY <1>1, <1>2, StillChecked DEF Verdict, OverflowIsForeignCycle
<1> QED
  BY <1>5, <1>9, <1>10 DEF Inv

LEMMA MarkedCallInv ==
  ASSUME Inv, MarkedCall
  PROVE  Inv'
<1> DEFINE n == Len(calls)
           x == Field.to
<1>1. /\ TypeOK /\ Typed(types) /\ Checked /\ AtRef /\ MarkedPath /\ n \in 1..MaxCalls
      /\ calls \in Seq(Activation) /\ Here = calls[n] /\ Here.at \in Def /\ Here.at \in Known
      /\ Here.next \in Nat \ {0} /\ Len(types[Here.at].refs) \in Nat
  BY MarkedFacts DEF MarkedCall
<1>2. /\ UNCHANGED <<types, defs, dpos, rpos, walk, ok>> /\ status = "run" /\ walk = "marked"
      /\ Call(x)
  BY DEF MarkedCall, Walking
<1>3. x \in Def \ {Parent} /\ x \in Known \ {Parent} /\ Calls(Here, x)
  <2> HIDE DEF n
  <2>1. /\ x \in Def \ {Parent} /\ Here.next <= Len(types[Here.at].refs)
        /\ IsMarked(types, Here.at, types[Here.at].refs[Here.next])
    BY <1>1 DEF MarkedCall, Field, FieldsLeft, IsMarked
  <2>2. Calls(Here, x)
    BY <1>1, <2>1 DEF Field, Calls
  <2>3. x \in MarkedKids(types, Here.at)
    BY <2>1, <2>2, CallIsKid
  <2> QED
    BY <1>1, <2>1, <2>2, <2>3, KidsKnown
<1>4. Parent' = Parent /\ ThisRef' = ThisRef
  BY <1>2 DEF Parent, ThisRef
<1>5. CASE n < MaxCalls /\ calls' = Append(calls, [at |-> x, next |-> 1]) /\ status' = status
  <2>1. /\ calls' \in Seq(Activation) /\ Len(calls') = n + 1 /\ calls' # <<>>
        /\ Len(calls') <= MaxCalls
        /\ \A k \in 1..n : calls'[k] = calls[k]
        /\ calls'[n + 1] = [at |-> x, next |-> 1]
    <3>1. x \in Leaf /\ walk # "none"
      BY <1>2, <1>3 DEF Leaf
    <3> HIDE DEF x
    <3> QED
      BY <1>1, <1>5, <3>1, Grown
  <2>2. TypeOK'
    BY <1>1, <1>2, <1>5, <2>1, TypesKept DEF TypeOK
  <2>3. MarkedPath'
    <3>1. calls'[1].at = ThisRef.to
      BY <1>1, <2>1 DEF MarkedPath
    <3>2. ASSUME NEW k \in 1..(n + 1) PROVE calls'[k].at \in Known \ {Parent} /\ Returned(calls'[k])
      <4>1. CASE k \in 1..n
        BY <1>1, <2>1, <4>1 DEF MarkedPath
      <4>2. CASE k = n + 1
        <5>1. Len(types[x].refs) \in Nat
          BY <1>1, <1>3 DEF Typed, IsType
        <5>2. calls'[k].at = x /\ calls'[k].next = 1
          BY <2>1, <4>2
        <5> HIDE DEF x
        <5> QED
          BY <1>3, <5>1, <5>2 DEF Returned
      <4> QED
        BY <1>1, <4>1, <4>2
    <3>3. ASSUME NEW k \in 1..n PROVE Calls(calls'[k], calls'[k + 1].at)
      <4>1. CASE k \in 1..(n - 1)
        <5>1. k + 1 \in 1..n /\ calls'[k] = calls[k] /\ calls'[k + 1] = calls[k + 1]
          BY <1>1, <2>1, <4>1
        <5> QED
          BY <1>1, <4>1, <5>1 DEF MarkedPath
      <4>2. CASE k = n
        <5>1. calls'[k] = Here /\ calls'[k + 1].at = x
          BY <1>1, <2>1, <4>2
        <5> QED
          BY <1>3, <5>1
      <4> QED
        BY <1>1, <4>1, <4>2
    <3>4. \A k \in 1..(n + 1) : Returned(calls[k])' <=> Returned(calls'[k])
      BY <1>2, <1>4, ProgramStays DEF Returned
    <3>5. \A k \in 1..n : Calls(calls[k], calls[k + 1].at)' <=> Calls(calls'[k], calls'[k + 1].at)
      BY <1>2 DEF Calls
    <3>6. Len(calls') = n + 1 /\ Len(calls') - 1 = n
      BY <1>1, <2>1
    <3> HIDE DEF n, x
    <3> QED
      BY <1>1, <1>2, <1>4, <3>1, <3>2, <3>3, <3>4, <3>5, <3>6, ProgramStays DEF MarkedPath
  <2>4. WalkOK'
    BY <1>1, <1>2, <1>4, <2>3 DEF WalkOK, AtRef
  <2>5. Checked' /\ Verdict'
    BY <1>1, <1>2, <1>5, StillChecked DEF Verdict, OverflowIsForeignCycle
  <2> QED
    BY <2>2, <2>4, <2>5 DEF Inv
<1>6. CASE n = MaxCalls /\ calls' = calls /\ status' = "overflow"
  <2>1. TypeOK' /\ Checked'
    BY <1>1, <1>2, <1>6, StillChecked, ProgramStays DEF TypeOK
  <2>2. WalkOK'
    <3>1. MarkedPath'
      BY <1>1, <1>2, <1>4, <1>6, ProgramStays DEF MarkedPath, Returned, Calls
    <3> QED
      BY <1>1, <1>2, <1>4, <3>1 DEF WalkOK, AtRef
  <2>3. \E C \in SUBSET (Known \ {Parent}) : MarkedCycle(C)
    <3>1. \A k \in 1..(Len(calls) - 1) : calls[k + 1].at \in MarkedKids(types, calls[k].at)
      BY <1>1, CallIsKid DEF MarkedPath
    <3>2. \A k \in 1..Len(calls) : calls[k].at \in Known \ {Parent}
      BY <1>1 DEF MarkedPath
    <3> QED
      BY <1>1, <1>2, <1>6, <3>1, <3>2, OutOfStack
  <2>4. Verdict'
    BY <1>2, <1>4, <1>6, <2>3, ProgramStays DEF Verdict, OverflowIsForeignCycle
  <2> QED
    BY <2>1, <2>2, <2>4 DEF Inv
<1> QED
  BY <1>1, <1>2, <1>5, <1>6 DEF Call

(***************************************************************************)
(* The walk is back at the def it is for.                                  *)
(***************************************************************************)
LEMMA MarkedCircleInv ==
  ASSUME Inv, MarkedCircle
  PROVE  Inv'
<1> DEFINE n == Len(calls)
           C == {Parent} \cup {calls[k].at : k \in 1..n}
<1>1. /\ TypeOK /\ Checked /\ AtRef /\ MarkedPath /\ n \in 1..MaxCalls
      /\ Here = calls[n] /\ Here.next \in Nat \ {0} /\ Parent \in Def /\ Parent \in Known
      /\ ThisRef \in Refs(types[Parent])
  BY MarkedFacts DEF MarkedCircle
<1>2. \E e \in C : e \in MarkedKids(types, Parent)
  <2>1. calls[1].at = ThisRef.to /\ calls[1].at \in Def /\ 1 \in 1..n /\ ThisRef.mode = "inplace"
    BY <1>1, KnownDefs DEF MarkedPath, TypeOK
  <2>2. IsMarked(types, Parent, ThisRef)
    BY <1>1, <2>1 DEF AtRef, IsMarked
  <2>3. calls[1].at \in MarkedKids(types, Parent)
    BY <1>1, <2>1, <2>2 DEF MarkedKids
  <2> QED
    BY <2>1, <2>3
<1>3. ASSUME NEW k \in 1..n PROVE \E e \in C : e \in MarkedKids(types, calls[k].at)
  <2>1. CASE k = n
    <3>1. Calls(Here, Parent)
      BY <1>1, MarkedFacts DEF MarkedCircle, FieldsLeft, Field, Calls
    <3>2. Parent \in MarkedKids(types, calls[k].at)
      BY <1>1, <2>1, <3>1, CallIsKid
    <3> QED
      BY <3>2
  <2>2. CASE k \in 1..(n - 1)
    <3>1. Calls(calls[k], calls[k + 1].at) /\ k + 1 \in 1..n
      BY <1>1, <2>2 DEF MarkedPath
    <3>2. calls[k + 1].at \in MarkedKids(types, calls[k].at) /\ calls[k + 1].at \in C
      BY <3>1, CallIsKid
    <3> QED
      BY <3>2
  <2> QED
    BY <1>1, <2>1, <2>2
<1>4. \A d \in C : \E e \in C : e \in MarkedKids(types, d)
  BY <1>2, <1>3
<1>5. C \in SUBSET Known /\ C # {}
  BY <1>1 DEF MarkedPath
<1>6. ~WellFormed
  <2> HIDE DEF C
  <2>1. MarkedCycle(C)
    BY <1>4, <1>5 DEF MarkedCycle
  <2> QED
    BY <1>5, <2>1 DEF WellFormed
<1>7. ok' \in BOOLEAN /\ ~ok' /\ NextRef /\ types' = types /\ defs' = defs
  BY DEF MarkedCircle
<1>8. TypeOK' /\ Checked'
  BY <1>1, <1>6, <1>7, WalkOver, RefChecked DEF MarkedCircle
<1>9. WalkOK' /\ Verdict'
  BY DEF MarkedCircle, Walking, WalkOK, Verdict, OverflowIsForeignCycle
<1> QED
  BY <1>8, <1>9 DEF Inv

(***************************************************************************)
(* An activation that returns has found all its kids safe: so is its def.  *)
(***************************************************************************)
LEMMA ReturnsSafe ==
  ASSUME Inv, Walking, ~FieldsLeft
  PROVE  Here.at \in Safe(Parent)
<1>1. /\ Typed(types) /\ MarkedPath /\ Len(calls) \in 1..MaxCalls /\ Here = calls[Len(calls)]
      /\ Here.at \in Def \ {Parent} /\ Here.next \in Nat \ {0}
      /\ Len(types[Here.at].refs) \in Nat
  BY MarkedFacts
<1>2. Returned(Here)
  BY <1>1 DEF MarkedPath
<1>3. ASSUME NEW j \in 1..Len(types[Here.at].refs), IsMarked(types, Here.at, types[Here.at].refs[j])
      PROVE  types[Here.at].refs[j].to \in Safe(Parent)
  <2>1. types[Here.at].tag \in Composite \cup {"alias"}
    BY <1>3 DEF IsMarked
  <2>2. j < Here.next
    BY <1>1, <2>1 DEF FieldsLeft
  <2> QED
    BY <1>2, <1>3, <2>2 DEF Returned
<1>4. MarkedKids(types, Here.at) \subseteq Safe(Parent)
  BY <1>3 DEF MarkedKids, Refs
<1> QED
  BY <1>1, <1>4, SafeFacts

LEMMA MarkedReturnInv ==
  ASSUME Inv, MarkedReturn
  PROVE  Inv'
<1> DEFINE n == Len(calls)
<1>1. /\ TypeOK /\ Typed(types) /\ Checked /\ AtRef /\ MarkedPath /\ n \in 1..MaxCalls
      /\ calls \in Seq(Activation) /\ Here = calls[n] /\ Here.at \in Def
      /\ Parent \in Def /\ ThisRef \in Refs(types[Parent])
  BY MarkedFacts DEF MarkedReturn
<1>2. Here.at \in Safe(Parent)
  BY ReturnsSafe DEF MarkedReturn
<1>3. UNCHANGED <<types, defs, ok, status>> /\ status = "run" /\ walk = "marked"
  BY DEF MarkedReturn, Walking
<1>4. CASE n = 1 /\ calls' = <<>> /\ walk' = "none" /\ NextRef
  <2>1. GoodRef(Parent, ThisRef)
    BY <1>1, <1>2, <1>4 DEF MarkedPath, GoodRef
  <2>2. ok' \in BOOLEAN /\ (ok' <=> ok)
    BY <1>1, <1>3 DEF TypeOK
  <2>3. TypeOK'
    BY <1>1, <1>3, <1>4, <2>2, WalkOver
  <2>4. Checked'
    BY <1>1, <1>3, <1>4, <2>1, <2>2, RefChecked
  <2>5. WalkOK' /\ Verdict'
    BY <1>3, <1>4 DEF WalkOK, Verdict, OverflowIsForeignCycle
  <2> QED
    BY <2>3, <2>4, <2>5 DEF Inv
<1>5. CASE /\ n > 1 /\ UNCHANGED <<dpos, rpos, walk>>
           /\ calls' = [Front(calls) EXCEPT ![n - 1].next = @ + 1]
  <2> DEFINE m == n - 1
             act == calls[m]
             act2 == [at |-> act.at, next |-> act.next + 1]
  <2>1. m \in 1..n /\ m \in Nat \ {0} /\ m + 1 = n /\ n \in Nat /\ m < MaxCalls /\ MaxCalls \in Nat
    BY <1>1, <1>5, MaxCallsAssumption
  <2>2. \A k \in 1..m : k \in 1..n /\ calls[k] \in Activation
    BY <1>1, <2>1, ElementOfSeq
  <2>3. /\ Front(calls) \in Seq(Activation) /\ Len(Front(calls)) = m
        /\ \A k \in 1..m : Front(calls)[k] = calls[k]
    <3>1. Front(calls) = SubSeq(calls, 1, m)
      BY DEF Front
    <3> HIDE DEF m
    <3> QED
      BY <1>1, <2>1, <2>2, <3>1, SubSeqProperties
  <2>4. act \in Activation /\ act2 \in Activation
    BY <2>1, <2>2 DEF Activation
  <2>5. calls' = [Front(calls) EXCEPT ![m] = act2]
    <3>1. \A a \in Activation : [a EXCEPT !.next = @ + 1] = [at |-> a.at, next |-> a.next + 1]
      BY DEF Activation
    <3>2. Front(calls)[m] = act
      BY <2>1, <2>3
    <3> QED
      BY <1>5, <2>4, <3>1, <3>2
  <2>6. /\ calls' \in Seq(Activation) /\ Len(calls') = m
        /\ \A k \in 1..m : calls'[k] = IF k = m THEN act2 ELSE calls[k]
    <3>1. m \in 1..Len(Front(calls))
      BY <2>1, <2>3
    <3> HIDE DEF m, act, act2
    <3> QED
      BY <2>3, <2>4, <2>5, <3>1, ExceptSeq
  <2>7. TypeOK'
    <3>1. calls' # <<>> /\ Len(calls') <= MaxCalls
      <4> HIDE DEF m, n
      <4> QED
        BY <2>1, <2>6, EmptySeq
    <3> QED
      BY <1>1, <1>3, <1>5, <2>6, <3>1, TypesKept DEF TypeOK
  <2>8. Parent' = Parent /\ ThisRef' = ThisRef
    BY <1>3, <1>5 DEF Parent, ThisRef
  <2>9. act.at \in Known \ {Parent} /\ Returned(act) /\ Calls(act, Here.at)
    BY <1>1, <2>1 DEF MarkedPath
  <2>10. Returned(act2)
    <3>1. Len(types[act.at].refs) \in Nat
      BY <1>1, <2>9 DEF Typed, IsType
    <3>2. act.next \in Nat
      BY <2>4 DEF Activation
    <3>3. types[act.at].refs[act.next].to \in Safe(Parent)
      BY <1>2, <2>9 DEF Calls
    <3> QED
      BY <2>9, <3>1, <3>2, <3>3, NextField
  <2>11. MarkedPath'
    <3>1. calls'[1].at = ThisRef.to
      <4>1. calls[1].at = ThisRef.to /\ 1 \in 1..m
        BY <1>1, <2>1 DEF MarkedPath
      <4>2. CASE 1 = m
        <5>1. calls'[1] = act2 /\ act2.at = act.at /\ act = calls[1]
          BY <2>6, <4>1, <4>2
        <5> HIDE DEF act, act2
        <5> QED
          BY <4>1, <5>1
      <4>3. CASE 1 # m
        BY <2>6, <4>1, <4>3
      <4> QED
        BY <4>2, <4>3
    <3>2. ASSUME NEW k \in 1..m PROVE calls'[k].at \in Known \ {Parent} /\ Returned(calls'[k])
      <4>1. calls[k].at \in Known \ {Parent} /\ Returned(calls[k])
        BY <1>1, <2>2 DEF MarkedPath
      <4>2. CASE k = m
        <5>1. calls'[k] = act2 /\ act2.at = act.at
          BY <2>6, <4>2
        <5> HIDE DEF act, act2
        <5> QED
          BY <2>9, <2>10, <5>1
      <4>3. CASE k # m
        BY <2>6, <4>1, <4>3
      <4> QED
        BY <4>2, <4>3
    <3>3. ASSUME NEW k \in 1..(m - 1) PROVE Calls(calls'[k], calls'[k + 1].at)
      <4>1. k \in 1..(n - 1) /\ k \in 1..m /\ k + 1 \in 1..m /\ k # m
        <5> HIDE DEF m, n
        <5> QED
          BY <2>1
      <4>2. Calls(calls[k], calls[k + 1].at) /\ calls'[k] = calls[k]
        BY <1>1, <2>6, <4>1 DEF MarkedPath
      <4>3. calls'[k + 1].at = calls[k + 1].at
        BY <2>6, <4>1
      <4> QED
        BY <4>2, <4>3
    <3>4. \A k \in 1..m : Returned(calls[k])' <=> Returned(calls'[k])
      BY <1>3, <2>8, ProgramStays DEF Returned
    <3>5. \A k \in 1..(m - 1) : Calls(calls[k], calls[k + 1].at)' <=> Calls(calls'[k], calls'[k + 1].at)
      BY <1>3 DEF Calls
    <3> HIDE DEF m, act, act2
    <3> QED
      BY <1>1, <1>3, <2>6, <2>8, <3>1, <3>2, <3>3, <3>4, <3>5, ProgramStays DEF MarkedPath
  <2>12. WalkOK'
    BY <1>1, <1>3, <1>5, <2>8, <2>11 DEF WalkOK, AtRef
  <2>13. Checked' /\ Verdict'
    BY <1>1, <1>3, <1>5, StillChecked DEF Verdict, OverflowIsForeignCycle
  <2> QED
    BY <2>7, <2>12, <2>13 DEF Inv
<1> QED
  BY <1>4, <1>5 DEF MarkedReturn

-----------------------------------------------------------------------------
(***************************************************************************)
(* The walk along the aliases of an alias.                                 *)
(***************************************************************************)
LEMMA StartAliasInv ==
  ASSUME Inv, StartAlias
  PROVE  Inv'
<1>1. TypeOK /\ Checked /\ types' = types /\ defs' = defs
  BY DEF Inv, StartAlias
<1>2. AtAlias
  BY <1>1 DEF StartAlias, AtDef, TypeOK, AtAlias
<1>3. AliasOf(types, Parent) \in Leaf
  BY <1>1, <1>2, ParentFacts, AliasFacts DEF AtAlias, IsAlias, Leaf
<1>4. /\ calls' \in Seq(Activation) /\ Len(calls') = 1 /\ calls' # <<>>
      /\ calls'[1] = [at |-> AliasOf(types, Parent), next |-> 1] /\ Len(calls') <= MaxCalls
  BY <1>3, Started DEF StartAlias
<1>5. TypeOK'
  BY <1>1, <1>4, TypesKept DEF StartAlias, TypeOK
<1>6. WalkOK'
  <2>1. AtAlias'
    BY <1>1, <1>2 DEF AtAlias, StartAlias, Parent
  <2>2. AliasPath(AliasOf(types, Parent))'
    <3>1. AliasOf(types, Parent) \in Known
      BY <1>1, <1>2, ParentFacts, KidsKnown DEF AtAlias, IsAlias
    <3> QED
      BY <1>1, <1>4, <3>1, ProgramStays DEF AliasPath, StartAlias, Parent
  <2> QED
    BY <2>1, <2>2 DEF StartAlias, WalkOK
<1>7. Checked'
  BY <1>1, StillChecked DEF StartAlias
<1>8. Verdict'
  BY DEF StartAlias, AtDef, Verdict, OverflowIsForeignCycle
<1> QED
  BY <1>5, <1>6, <1>7, <1>8 DEF Inv

LEMMA EndAliasInv ==
  ASSUME Inv, EndAlias
  PROVE  Inv'
<1> DEFINE n == Len(calls)
           at == [k \in 1..n |-> calls[k].at]
<1>1. /\ TypeOK /\ Checked /\ types' = types /\ defs' = defs /\ NextDef /\ status = "run"
      /\ AtAlias /\ AliasPath(AliasOf(types, Parent)) /\ walk = "alias"
  BY DEF Inv, EndAlias, WalkOK
<1>2. n \in Nat \ {0} /\ Here = calls[n]
  BY <1>1, HereFacts
<1>3. Parent \in Def /\ IsAlias(types, Parent)
  BY <1>1, ParentFacts DEF AtAlias, IsAlias
<1>4. ok' = (ok /\ ~IsAlias(types, Here.at)) /\ ok' \in BOOLEAN
  BY DEF EndAlias
<1>5. ok' => ok /\ GoodDef(Parent)
  <2> SUFFICES ASSUME ~IsAlias(types, Here.at) PROVE GoodDef(Parent)
    BY <1>4
  <2> SUFFICES ASSUME NEW C \in SUBSET Def, AliasLoop(types, C), Parent \in C PROVE FALSE
    BY <1>1 DEF GoodDef, AtAlias, Composite
  <2>1. at[1] \in C /\ 1 \in 1..n
    BY <1>1, <1>2 DEF AliasPath, AliasLoop
  <2>2. \A k \in 1..(n - 1) : at[k + 1] = AliasOf(types, at[k])
    BY <1>1, <1>2 DEF AliasPath
  <2>3. at[n] = Here.at
    BY <1>2
  <2> HIDE DEF at, n
  <2>4. at[n] \in C
    BY <1>2, <2>1, <2>2, LoopsTrapPaths
  <2> QED
    BY <2>3, <2>4 DEF AliasLoop
<1>6. ~ok' => ~ok \/ ~WellFormed
  <2> SUFFICES ASSUME IsAlias(types, Here.at) PROVE ~WellFormed
    BY <1>4
  <2>1. Here.at = Parent
    BY DEF EndAlias
  <2> DEFINE C == {Parent} \cup {calls[k].at : k \in 1..n}
  <2>2. ASSUME NEW k \in 1..n PROVE IsAlias(types, calls[k].at) /\ AliasOf(types, calls[k].at) \in C
    <3>1. CASE k = n
      <4>1. calls[k].at = Parent /\ 1 \in 1..n
        BY <1>2, <2>1, <3>1
      <4> QED
        BY <1>1, <1>3, <4>1 DEF AliasPath
    <3>2. CASE k \in 1..(n - 1)
      <4>1. k + 1 \in 1..n /\ IsAlias(types, calls[k].at)
            /\ calls[k + 1].at = AliasOf(types, calls[k].at)
        BY <1>1, <1>2, <3>2 DEF AliasPath
      <4> QED
        BY <4>1
    <3> QED
      BY <1>2, <3>1, <3>2
  <2>3. IsAlias(types, Parent) /\ AliasOf(types, Parent) \in C
    <3>1. calls[1].at = AliasOf(types, Parent) /\ 1 \in 1..n
      BY <1>1, <1>2 DEF AliasPath
    <3> QED
      BY <1>3, <3>1
  <2>4. \A d \in C : IsAlias(types, d) /\ AliasOf(types, d) \in C
    BY <2>2, <2>3
  <2> HIDE DEF C
  <2>5. C \in SUBSET Known /\ C # {}
    <3>1. C # {}
      BY DEF C
    <3>2. \A d \in C : d \in Known
      BY <1>1, <2>4, ParentFacts DEF C, IsAlias, AliasPath, AtAlias
    <3> QED
      BY <3>1, <3>2
  <2> QED
    BY <2>4, <2>5 DEF WellFormed, AliasCycle, AliasLoop
<1>7. dpos \in 1..Len(defs)
  BY <1>1 DEF AtAlias
<1>8. TypeOK'
  BY <1>1, <1>4, <1>7, WalkOver DEF EndAlias
<1>9. Checked'
  BY <1>1, <1>4, <1>5, <1>6, <1>7, DefChecked
<1>10. WalkOK' /\ Verdict'
  BY <1>1 DEF EndAlias, WalkOK, Verdict, OverflowIsForeignCycle
<1> QED
  BY <1>8, <1>9, <1>10 DEF Inv

-----------------------------------------------------------------------------
LEMMA NextInv == Inv /\ [Next]_vvars => Inv'
<1> SUFFICES ASSUME Inv, [Next]_vvars PROVE Inv'
  OBVIOUS
<1>1. CASE Undefined
  BY <1>1, UndefinedInv
<1>2. CASE NotChecked
  BY <1>2, NotCheckedInv
<1>3. CASE FieldsDone
  BY <1>3, FieldsDoneInv
<1>4. CASE Return
  BY <1>4, ReturnInv
<1>5. CASE StartRef
  BY <1>5, StartRefInv
<1>6. CASE FollowRef
  BY <1>6, FollowRefInv
<1>7. CASE RefusedRef
  BY <1>7, RefusedRefInv
<1>8. CASE AllowedRef
  BY <1>8, AllowedRefInv
<1>9. CASE NotMarked
  BY <1>9, NotMarkedInv
<1>10. CASE MarkedCall
  BY <1>10, MarkedCallInv
<1>11. CASE MarkedCircle
  BY <1>11, MarkedCircleInv
<1>12. CASE MarkedReturn
  BY <1>12, MarkedReturnInv
<1>13. CASE StartAlias
  BY <1>13, StartAliasInv
<1>14. CASE FollowAlias
  BY <1>14, FollowAliasInv
<1>15. CASE EndAlias
  BY <1>15, EndAliasInv
<1>16. CASE UNCHANGED vvars
  BY <1>16, StoppedInv
<1> QED
  BY <1>1, <1>2, <1>3, <1>4, <1>5, <1>6, <1>7, <1>8, <1>9, <1>10, <1>11, <1>12, <1>13,
     <1>14, <1>15, <1>16 DEF Next, Step, Stopped

LEMMA InvHolds == Spec => []Inv
  BY InitInv, NextInv, PTL DEF Spec

(***************************************************************************)
(* Types of the pass's state, for every program.                           *)
(***************************************************************************)
THEOREM TypeCorrect == Spec => []TypeOK
  BY InvHolds, PTL DEF Inv

(***************************************************************************)
(* compiler_validate accepts the programs that keep the rules, and refuses *)
(* those that do not, however many defs there are and in whatever order    *)
(* they come.                                                              *)
(***************************************************************************)
LEMMA InvAnswers ==
  ASSUME Inv
  PROVE  AnswerIsRight
<1>1. ASSUME status = "valid" PROVE WellFormed
  <2>1. TypeOK /\ Checked /\ Verdict
    BY DEF Inv
  <2>2. /\ ok /\ dpos > Len(defs) /\ dpos \in Nat /\ Len(defs) \in Nat
        /\ Known = {defs[i] : i \in 1..Len(defs)} /\ Known \subseteq Def
    BY <1>1, <2>1, KnownDefs DEF Verdict, TypeOK
  <2>3. ASSUME NEW d \in Known PROVE GoodDef(d)
    <3>1. PICK i \in 1..Len(defs) : defs[i] = d
      BY <2>2
    <3>2. i < dpos
      BY <2>2
    <3> QED
      BY <2>1, <2>2, <3>1, <3>2 DEF Checked
  <2> QED
    BY <2>1, <2>2, <2>3, GoodDefsSuffice DEF TypeOK, Typed
<1>2. ASSUME status = "invalid" PROVE ~WellFormed
  BY <1>2 DEF Inv, Verdict, Checked
<1> QED
  BY <1>1, <1>2 DEF AnswerIsRight

THEOREM AnswersAreRight == Spec => []AnswerIsRight
<1>1. Inv => AnswerIsRight
  BY InvAnswers
<1> QED
  BY <1>1, InvHolds, PTL

(***************************************************************************)
(* The recursion of compiler_validate, given stack for more calls than     *)
(* there are defs, only runs out of it in a cycle that the def being       *)
(* validated is not in.                                                    *)
(***************************************************************************)
THEOREM OverflowsAreForeign == Spec => []OverflowIsForeignCycle
  BY InvHolds, PTL DEF Inv, Verdict
=============================================================================
