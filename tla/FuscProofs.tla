----------------------------- MODULE FuscProofs -----------------------------
(***************************************************************************)
(* Proofs about Fusc: the passes of compiler_compile in a row, and what is *)
(* written after them, for every program, any number of defs and any       *)
(* split of them over files.                                               *)
(***************************************************************************)
EXTENDS Fusc, TypeGraphProofs

VP == INSTANCE ValidateProofs WITH status <- vstatus, Orders <- {Order}
SP == INSTANCE DefSortProofs WITH
        kids <- Kids, status <- sstatus, Graphs <- [Def -> Seq(Def)],
        Orders <- {Order}, StaleFlags <- SUBSET Def

-----------------------------------------------------------------------------
(***************************************************************************)
(* The modules' own names for what they share.                             *)
(***************************************************************************)
LEMMA SameOperators ==
  /\ Check!Parent = VP!Parent
  /\ Check!ThisRef = VP!ThisRef
  /\ Check!Here = VP!Here
  /\ Check!Field = VP!Field
  /\ Check!EndTag = VP!EndTag
  /\ Check!PlainTags = VP!PlainTags
  /\ Check!Composite = VP!Composite
  /\ Check!Leaf = VP!Leaf
  /\ \A t, d : Check!AliasOf(t, d) = VP!AliasOf(t, d)
  /\ \A t, x : Check!IsAlias(t, x) <=> VP!IsAlias(t, x)
  /\ \A t, d, r : Check!IsMarked(t, d, r) <=> VP!IsMarked(t, d, r)
  /\ \A r, tag : Check!RefAllowed(r, tag) <=> VP!RefAllowed(r, tag)
  /\ Check!AtDef <=> VP!AtDef
  /\ Check!Walking <=> VP!Walking
  /\ Check!FieldsLeft <=> VP!FieldsLeft
  /\ Check!NextRef <=> VP!NextRef
  /\ Check!NextDef <=> VP!NextDef
  /\ \A x : Check!Call(x) <=> VP!Call(x)
BY DEF Check!Parent, VP!Parent, Check!ThisRef, VP!ThisRef, Check!Here, VP!Here, Check!Field,
       VP!Field, Check!EndTag, VP!EndTag, Check!PlainTags, VP!PlainTags, Check!Composite,
       VP!Composite, Check!Leaf, VP!Leaf, Check!AliasOf, VP!AliasOf, Check!IsAlias,
       VP!IsAlias, Check!IsMarked, VP!IsMarked, Check!RefAllowed, VP!RefAllowed,
       Check!AtDef, VP!AtDef, Check!Walking, VP!Walking, Check!FieldsLeft, VP!FieldsLeft,
       Check!NextRef, VP!NextRef, Check!NextDef, VP!NextDef, Check!Call, VP!Call,
       Check!TagSupportsInplace, VP!TagSupportsInplace, Check!TagSupportsWeakref,
       VP!TagSupportsWeakref, Check!TagIsPointer, VP!TagIsPointer, Check!TagHasCleanup,
       VP!TagHasCleanup

LEMMA SameStep == Check!Step => VP!Step
<1>1. Check!Undefined => VP!Undefined
  BY SameOperators DEF Check!Undefined, VP!Undefined
<1>2. Check!NotChecked => VP!NotChecked
  BY SameOperators DEF Check!NotChecked, VP!NotChecked
<1>3. Check!FieldsDone => VP!FieldsDone
  BY SameOperators DEF Check!FieldsDone, VP!FieldsDone
<1>4. Check!Return => VP!Return
  BY SameOperators DEF Check!Return, VP!Return
<1>5. Check!StartRef => VP!StartRef
  BY SameOperators DEF Check!StartRef, VP!StartRef
<1>6. Check!FollowRef => VP!FollowRef
  BY SameOperators DEF Check!FollowRef, VP!FollowRef
<1>7. Check!RefusedRef => VP!RefusedRef
  BY SameOperators DEF Check!RefusedRef, VP!RefusedRef
<1>8. Check!AllowedRef => VP!AllowedRef
  BY SameOperators DEF Check!AllowedRef, VP!AllowedRef
<1>9. Check!NotMarked => VP!NotMarked
  <2>1. /\ Check!Walking <=> VP!Walking
        /\ Check!FieldsLeft <=> VP!FieldsLeft
        /\ Check!IsMarked(types, Check!Here.at, Check!Field) <=>
             VP!IsMarked(types, VP!Here.at, VP!Field)
    BY SameOperators
  <2> QED
    BY <2>1, Zenon DEF Check!NotMarked, VP!NotMarked
<1>10. Check!MarkedCall => VP!MarkedCall
  BY SameOperators DEF Check!MarkedCall, VP!MarkedCall
<1>11. Check!MarkedCircle => VP!MarkedCircle
  BY SameOperators DEF Check!MarkedCircle, VP!MarkedCircle
<1>12. Check!MarkedReturn => VP!MarkedReturn
  <2>1. /\ Check!Walking <=> VP!Walking
        /\ Check!FieldsLeft <=> VP!FieldsLeft
        /\ Check!NextRef <=> VP!NextRef
    BY SameOperators
  <2> QED
    BY <2>1, Zenon DEF Check!MarkedReturn, VP!MarkedReturn, Check!Front, VP!Front
<1>13. Check!StartAlias => VP!StartAlias
  BY SameOperators DEF Check!StartAlias, VP!StartAlias
<1>14. Check!FollowAlias => VP!FollowAlias
  BY SameOperators DEF Check!FollowAlias, VP!FollowAlias
<1>15. Check!EndAlias => VP!EndAlias
  BY SameOperators DEF Check!EndAlias, VP!EndAlias
<1> QED
  BY <1>1, <1>2, <1>3, <1>4, <1>5, <1>6, <1>7, <1>8, <1>9, <1>10, <1>11, <1>12, <1>13,
     <1>14, <1>15
    DEF Check!Step, VP!Step

LEMMA SameSort == Sort!Step => SP!Step
<1>1. Sort!OutOfMemory => SP!OutOfMemory
  BY DEF Sort!OutOfMemory, SP!OutOfMemory
<1>2. Sort!Begin => SP!Begin
  BY DEF Sort!Begin, SP!Begin
<1>3. Sort!VisitRoot => SP!VisitRoot
  BY DEF Sort!VisitRoot, SP!VisitRoot, Sort!Visit, SP!Visit, Sort!Called, SP!Called
<1>4. Sort!VisitKid => SP!VisitKid
  BY DEF Sort!VisitKid, SP!VisitKid, Sort!Visit, SP!Visit, Sort!Called, SP!Called,
         Sort!Advanced, SP!Advanced, Sort!Top, SP!Top
<1>5. Sort!Push => SP!Push
  BY DEF Sort!Push, SP!Push, Sort!Popped, SP!Popped, Sort!Top, SP!Top
<1>6. Sort!Finish => SP!Finish
  BY DEF Sort!Finish, SP!Finish
<1> QED
  BY <1>1, <1>2, <1>3, <1>4, <1>5, <1>6 DEF Sort!Step, SP!Step

LEMMA SameTypes ==
  /\ \A t : VP!Typed(t) <=> Typed(t)
  /\ \A t, S : VP!SelfContained(t, S) <=> SelfContained(t, S)
  /\ \A t, S : VP!AliasCycle(t, S) <=> AliasCycle(t, S)
  /\ \A t, d : VP!MarkedKids(t, d) = MarkedKids(t, d)
  /\ \A t, x : VP!UnaliasTag(t, x) = UnaliasTag(t, x)
<1>1. \A t : VP!Typed(t) <=> Typed(t)
  BY DEF VP!Typed, Typed, VP!IsType, IsType, VP!Tags, Tags, VP!PlainTags, PlainTags,
         VP!Composite, Composite, VP!Ref, Ref, VP!Leaf, Leaf, VP!Modes, Modes, VP!Refs, Refs
<1>2. \A t, S : VP!SelfContained(t, S) <=> SelfContained(t, S)
  BY DEF VP!SelfContained, SelfContained, VP!Refs, Refs
<1>3. \A t, S : VP!AliasCycle(t, S) <=> AliasCycle(t, S)
  BY DEF VP!AliasCycle, AliasCycle, VP!AliasLoop, AliasLoop, VP!IsAlias, IsAlias,
         VP!AliasOf, AliasOf
<1>4. \A t, d : VP!MarkedKids(t, d) = MarkedKids(t, d)
  BY DEF VP!MarkedKids, MarkedKids, VP!IsMarked, IsMarked, VP!Refs, Refs, VP!Composite, Composite
<1>5. \A t, x : VP!UnaliasTag(t, x) = UnaliasTag(t, x)
  <2>1. VP!Cardinality(Def) = Cardinality(Def)
    BY DEF VP!Cardinality, Cardinality
  <2>2. \A t, d : VP!DefUnalias(t, d) = DefUnalias(t, d)
    BY <2>1, Zenon
      DEF VP!DefUnalias, DefUnalias, VP!Follow, Follow, VP!IsAlias, IsAlias, VP!AliasOf,
          AliasOf
  <2> QED
    BY <2>2 DEF VP!UnaliasTag, UnaliasTag
<1> QED
  BY <1>1, <1>2, <1>3, <1>4, <1>5

(***************************************************************************)
(* What Validate and DefSort assume of their constants is so here.         *)
(***************************************************************************)
LEMMA ValidateAssumptions ==
  /\ VP!IsFiniteSet(Def) /\ Def \cap VP!Tags = {}
  /\ MaxCalls \in Nat /\ MaxCalls > VP!Cardinality(Def)
  /\ \A p \in Programs : VP!Typed(p)
  /\ {Order} \subseteq Seq(Def)
<1>1. VP!IsFiniteSet(Def)
  BY DefsAreNotTags DEF VP!IsFiniteSet, IsFiniteSet
<1>2. Def \cap VP!Tags = {}
  BY DefsAreNotTags DEF VP!Tags, Tags, VP!PlainTags, PlainTags, VP!Composite, Composite
<1>3. VP!Cardinality(Def) = Cardinality(Def)
  BY DEF VP!Cardinality, Cardinality
<1> QED
  BY <1>1, <1>2, <1>3, MaxCallsAssumption, ProgramsAssumption, OrderAssumption, SameTypes

LEMMA SortAssumptions ==
  /\ SP!IsFiniteSet(Def)
  /\ [Def -> Seq(Def)] \subseteq [Def -> Seq(Def)]
  /\ \A o \in {Order} :
       /\ o \in Seq(Def)
       /\ \A i, j \in 1..Len(o) : o[i] = o[j] => i = j
  /\ SUBSET Def \subseteq SUBSET Def
<1>1. SP!IsFiniteSet(Def)
  BY DefsAreNotTags DEF SP!IsFiniteSet, IsFiniteSet
<1>2. DOMAIN Order = 1..Len(Order)
  BY OrderAssumption, LenProperties
<1> QED
  BY <1>1, <1>2, OrderAssumption DEF IsInjective

-----------------------------------------------------------------------------
(***************************************************************************)
(* The sort, as the pipeline sees it: what it knows about orders, and what *)
(* one step of it does to compiler->defs.                                  *)
(***************************************************************************)
Given == ToSet(defs)

LEMMA SameOrders ==
  /\ \A g, l : SP!Ordered(g, l) <=> Sort!Ordered(g, l)
  /\ \A l : SP!Distinct(l) <=> Sort!Distinct(l)
  /\ \A g, l : SP!Spec2Abs!Cyclic(g, l) <=> TrapIn(g, SP!Listed(l))
BY DEF SP!Ordered, Sort!Ordered, SP!Spec2Abs!Ordered, Sort!Spec2Abs!Ordered,
       SP!Distinct, Sort!Distinct, SP!Spec2Abs!Distinct, Sort!Spec2Abs!Distinct,
       SP!Spec2Abs!Cyclic, SP!Spec2Abs!Trap, TrapIn, SP!Listed, SP!Spec2Abs!Listed

LEMMA ListedFacts ==
  ASSUME NEW l \in Seq(Def)
  PROVE  SP!Listed(l) = ToSet(l) /\ ToSet(l) \subseteq Def
BY ToSetFacts DEF SP!Listed, SP!Spec2Abs!Listed

LEMMA SortIsStep ==
  ASSUME SP!TypeOK, SP!Inv, Sort!Step
  PROVE  /\ SP!TypeOK' /\ SP!Inv'
         /\ defs' \in Seq(Def) /\ Len(defs') = Len(defs) /\ ToSet(defs') = ToSet(defs)
         /\ Sort!Distinct(defs')
         /\ Sort!Ordered(Kids, defs) => defs' = defs
<1>1. SP!Step
  BY SameSort
<1>2. SP!Next /\ [SP!Next]_(SP!vars)
  BY <1>1 DEF SP!Next
<1>3. SP!TypeOK'
  BY <1>2, SP!TypesNext, SortAssumptions
<1>4. SP!Inv'
  BY <1>2, <1>3, SP!InvNext, SortAssumptions
<1>5. Sort!Ordered(Kids, defs) => defs' = defs
  BY <1>2, SP!InOrderStays, SortAssumptions, SameOrders
<1>6. defs \in Seq(Def) /\ defs' \in Seq(Def)
  BY <1>3 DEF SP!TypeOK
<1>7. Len(defs') = Len(defs) /\ ToSet(defs') = ToSet(defs)
  <2>1. CASE SP!Finish
    <3>1. defs' = newDefs /\ Len(newDefs) = Len(defs) /\ SP!Listed(newDefs) = SP!Listed(defs)
      BY <2>1, SP!FinishFacts, SortAssumptions
    <3> QED
      BY <1>6, <3>1, ListedFacts
  <2>2. CASE ~SP!Finish
    <3>1. defs' = defs
      BY <1>1, <2>2 DEF SP!Step, SP!OutOfMemory, SP!Begin, SP!VisitRoot, SP!VisitKid, SP!Push
    <3> QED
      BY <3>1
  <2> QED
    BY <2>1, <2>2
<1>8. Sort!Distinct(defs')
  <2>1. (SP!Distinct(defs))'
    BY <1>4 DEF SP!Inv, SP!ListPart, SP!Complete, SP!Spec2Abs!Complete, SP!Distinct
  <2>2. SP!Distinct(defs')
    BY <2>1 DEF SP!Distinct, SP!Spec2Abs!Distinct
  <2> QED
    BY <2>2, SameOrders
<1> QED
  BY <1>3, <1>4, <1>5, <1>6, <1>7, <1>8

LEMMA SortAnswers ==
  ASSUME SP!TypeOK, SP!Inv
  PROVE  /\ sstatus = "ok" => ~TrapIn(Kids, Given) /\ Sort!Ordered(Kids, defs)
         /\ sstatus = "circular" => TrapIn(Kids, Given)
         /\ sstatus # "missed"
<1>1. SP!VerdictIsRight
  BY SP!InvVerdicts, SortAssumptions
<1>2. SP!Listed(defs) = Given
  BY ListedFacts DEF SP!TypeOK, Given
<1>3. sstatus = "ok" => Sort!Ordered(Kids, defs)
  BY SameOrders DEF SP!Inv, SP!PushedPart
<1> QED
  BY <1>1, <1>2, <1>3, SameOrders DEF SP!VerdictIsRight

-----------------------------------------------------------------------------
(***************************************************************************)
(* The validator, as the pipeline sees it.                                 *)
(***************************************************************************)
LEMMA ValidateIsStep ==
  ASSUME VP!Inv, Check!Step
  PROVE  VP!Inv' /\ types' = types /\ defs' = defs
<1>1. VP!Step
  BY SameStep
<1>2. types' = types /\ defs' = defs
  BY <1>1
     DEF VP!Step, VP!Undefined, VP!NotChecked, VP!FieldsDone, VP!Return, VP!StartRef,
         VP!FollowRef, VP!RefusedRef, VP!AllowedRef, VP!NotMarked, VP!MarkedCall,
         VP!MarkedCircle, VP!MarkedReturn, VP!StartAlias, VP!FollowAlias, VP!EndAlias
<1>3. [VP!Next]_(VP!vvars)
  BY <1>1 DEF VP!Next
<1> QED
  BY <1>2, <1>3, VP!NextInv, ValidateAssumptions

(***************************************************************************)
(* A new file is validated from the beginning.                             *)
(***************************************************************************)
AtBeginning ==
  /\ types \in Programs /\ defs \in Seq(Def) /\ SelfContained(types, Given)
  /\ dpos = 1 /\ rpos = 1 /\ walk = "none" /\ calls = <<>> /\ ok = TRUE /\ vstatus = "run"

LEMMA ValidateBegins == AtBeginning => VP!Inv
<1> SUFFICES ASSUME AtBeginning PROVE VP!Inv
  OBVIOUS
<1>1. VP!Known = Given
  BY DEF VP!Known, Given, VP!ToSet, ToSet
<1>2. VP!Typed(types) /\ VP!SelfContained(types, VP!Known)
  BY <1>1, ProgramsAssumption, SameTypes DEF AtBeginning
<1>3. VP!Begun
  BY DEF AtBeginning, VP!Begun
<1> QED
  BY <1>2, <1>3, VP!BegunInv, ValidateAssumptions DEF AtBeginning

(***************************************************************************)
(* Aliases that lead in a circle are a cycle the third walk follows, so    *)
(* the rule against those covers them.                                     *)
(***************************************************************************)
LEMMA MarkedCycles ==
  ASSUME NEW C
  PROVE  /\ Check!MarkedCycle(C) <=> C # {} /\ \A d \in C : MarkedKids(types, d) \cap C # {}
         /\ VP!MarkedCycle(C) <=> Check!MarkedCycle(C)
<1>1. \A d : Check!MarkedKids(types, d) = MarkedKids(types, d)
  BY DEF Check!MarkedKids, MarkedKids, Check!IsMarked, IsMarked, Check!Refs, Refs,
         Check!Composite, Composite
<1> QED
  BY <1>1, SameTypes DEF Check!MarkedCycle, VP!MarkedCycle

LEMMA RulesFacts ==
  ASSUME Typed(types), defs \in Seq(Def)
  PROVE  /\ KeepsRules => ~AliasCycle(types, Given)
         /\ VP!WellFormed <=> KeepsRules
<1>1. ASSUME AliasCycle(types, Given) PROVE ~KeepsRules
  <2>1. PICK C \in SUBSET Given : C # {} /\ AliasLoop(types, C)
    BY <1>1 DEF AliasCycle
  <2>2. ASSUME NEW d \in C PROVE MarkedKids(types, d) \cap C # {}
    <3>1. IsAlias(types, d) /\ AliasOf(types, d) \in C
      BY <2>1 DEF AliasLoop
    <3>2. MarkedKids(types, d) = {AliasOf(types, d)}
      BY <3>1, AliasFacts DEF IsAlias
    <3> QED
      BY <3>1, <3>2
  <2>3. Check!MarkedCycle(C)
    BY <2>1, <2>2, MarkedCycles
  <2> QED
    BY <2>3 DEF KeepsRules, Given
<1>2. VP!Known = Given /\ VP!Composite = Composite
  BY DEF VP!Known, Given, VP!ToSet, ToSet, VP!Composite, Composite
<1>3. \A d \in Given : VP!Refs(types[d]) = Refs(types[d])
  BY DEF VP!Refs, Refs
<1>4. \A r, tag : VP!RefAllowed(r, tag) <=> Check!RefAllowed(r, tag)
  BY SameOperators
<1>5. VP!AliasCycle(types, VP!Known) <=> AliasCycle(types, Given)
  BY <1>2, SameTypes
<1>6. VP!RefsAllowed <=>
        \A d \in Given : types[d].tag \in Composite =>
          \A r \in Refs(types[d]) : Check!RefAllowed(r, UnaliasTag(types, r.to))
  BY <1>2, <1>3, <1>4, SameTypes DEF VP!RefsAllowed
<1>7. \A C : VP!MarkedCycle(C) <=> Check!MarkedCycle(C)
  BY MarkedCycles
<1>8. VP!WellFormed <=> ~AliasCycle(types, Given) /\ KeepsRules
  BY <1>2, <1>5, <1>6, <1>7 DEF VP!WellFormed, VP!AllDefined, KeepsRules, Given
<1> QED
  BY <1>1, <1>8

LEMMA ValidateAnswers ==
  ASSUME VP!Inv, types \in Programs, defs \in Seq(Def)
  PROVE  /\ vstatus \in {"run", "valid", "invalid", "overflow"}
         /\ vstatus = "valid" => KeepsRules
         /\ vstatus \in {"invalid", "overflow"} => ~KeepsRules
<1>1. VP!AnswerIsRight
  BY VP!InvAnswers, ValidateAssumptions
<1>2. VP!TypeOK /\ VP!OverflowIsForeignCycle
  BY DEF VP!Inv, VP!Verdict
<1>3. VP!Known = Given
  BY DEF VP!Known, Given, VP!ToSet, ToSet
<1>4. ASSUME vstatus = "overflow" PROVE ~KeepsRules
  <2>1. PICK C \in SUBSET Given : VP!MarkedCycle(C)
    BY <1>2, <1>3, <1>4 DEF VP!OverflowIsForeignCycle
  <2> QED
    BY <2>1, MarkedCycles DEF KeepsRules, Given
<1> QED
  BY <1>1, <1>2, <1>4, RulesFacts, ProgramsAssumption DEF VP!AnswerIsRight, VP!TypeOK

-----------------------------------------------------------------------------
(***************************************************************************)
(* The invariant of the pipeline.  What each pass has made sure of stays   *)
(* so in the passes after it, though they reorder compiler->defs; before   *)
(* each pass the state is one that pass may start in.                      *)
(***************************************************************************)
SorterTypes ==
  sorting \in SUBSET Def /\ sorted \in SUBSET Def /\ stack \in Seq(SP!Frame) /\ pos \in Nat

PassPart ==
  /\ phase \in {"validate", "done"} => sstatus = "idle" /\ newDefs = <<>>
  /\ phase = "validate" => VP!Inv
  /\ phase \in {"inplace", "typedefs"} => SP!TypeOK /\ SP!Inv

PassedPart ==
  /\ phase \in {"inplace", "typedefs", "done"} => KeepsRules
  /\ phase = "typedefs" /\ sstatus = "idle" => Sort!Ordered(InplaceKids(types), defs)
  /\ phase \in {"typedefs", "done"} =>
       /\ ~TrapIn(InplaceKids(types), Given)
       /\ NoTypedefs => Sort!Ordered(InplaceKids(types), defs)
  /\ phase = "done" =>
       ~TrapIn(TypedefKids(types), Given) /\ Sort!Ordered(TypedefKids(types), defs)

AnswerPart ==
  /\ phase = "refused" => sstatus = "nomem" \/ ~Acceptable
  /\ phase = "crashed" => ~Acceptable

PipeInv ==
  /\ TypeOK
  /\ types \in Programs /\ defs \in Seq(Def) /\ SelfContained(types, Given)
  /\ SorterTypes /\ PassPart /\ PassedPart /\ AnswerPart

(***************************************************************************)
(* A sort may begin whatever it finds in the flags.                        *)
(***************************************************************************)
AtSort ==
  /\ types \in Programs /\ defs \in Seq(Def) /\ SelfContained(types, Given)
  /\ Sort!Distinct(defs) /\ SorterTypes
  /\ sstatus = "idle" /\ newDefs = <<>>

LEMMA SortBegins == AtSort => SP!TypeOK /\ SP!Inv
<1> SUFFICES ASSUME AtSort PROVE SP!TypeOK /\ SP!Inv
  OBVIOUS
<1>1. Typed(types) /\ Given \subseteq Def /\ SP!Listed(defs) = Given
  BY ProgramsAssumption, ListedFacts DEF AtSort, Given
<1>2. /\ Kids \in [Def -> Seq(Def)]
      /\ \A d \in Given : \A k \in 1..Len(Kids[d]) : Kids[d][k] \in Given
  BY <1>1, KidsStay DEF AtSort, Kids
<1>3. SP!TypeOK
  BY <1>2 DEF AtSort, SorterTypes, SP!TypeOK
<1>4. SP!Complete(Kids, defs)
  <2>1. SP!Spec2Abs!Distinct(defs)
    BY SameOrders DEF AtSort, SP!Distinct
  <2> QED
    BY <1>1, <1>2, <2>1 DEF SP!Complete, SP!Spec2Abs!Complete, SP!Listed
<1>5. SP!Inv
  BY <1>4 DEF AtSort, SP!Inv, SP!ListPart
<1> QED
  BY <1>3, <1>5

(***************************************************************************)
(* What a program is does not depend on the order of compiler->defs.       *)
(***************************************************************************)
LEMMA SameProgram ==
  ASSUME types' = types, ToSet(defs') = ToSet(defs)
  PROVE  /\ Given' = Given
         /\ NoTypedefs' <=> NoTypedefs
         /\ KeepsRules' <=> KeepsRules
         /\ Acceptable' <=> Acceptable
<1>1. \A C : Check!MarkedCycle(C)' <=> Check!MarkedCycle(C)
  BY DEF Check!MarkedCycle
<1>2. KeepsRules' <=> KeepsRules
  BY <1>1 DEF KeepsRules
<1>3. \A g, S : TrapIn(g, S)' <=> TrapIn(g, S)
  BY DEF TrapIn
<1>4. Acceptable' <=> Acceptable
  BY <1>2, <1>3 DEF Acceptable
<1> QED
  BY <1>2, <1>4 DEF Given, NoTypedefs

LEMMA NoTypedefsInOrder ==
  ASSUME Typed(types), defs \in Seq(Def), NoTypedefs
  PROVE  Sort!Ordered(TypedefKids(types), defs)
<1>1. ASSUME NEW i \in 1..Len(defs) PROVE Len(TypedefKids(types)[defs[i]]) = 0
  <2>1. defs[i] \in Def /\ types[defs[i]].tag \notin {"alias", "func"}
    BY ElementOfSeq DEF NoTypedefs
  <2> QED
    BY <2>1 DEF TypedefKids
<1> QED
  BY <1>1 DEF Sort!Ordered, Sort!Spec2Abs!Ordered

(***************************************************************************)
(* The files: compiler->defs grows by the next part of Order.              *)
(***************************************************************************)
LEMMA OrderFacts ==
  /\ Order \in Seq(Def) /\ Len(Order) \in Nat
  /\ \A i \in 1..Len(Order) : Order[i] \in Def
  /\ \A i, j \in 1..Len(Order) : Order[i] = Order[j] => i = j
  /\ ToSet(Order) = {Order[i] : i \in 1..Len(Order)} /\ ToSet(Order) = Def
<1>1. DOMAIN Order = 1..Len(Order) /\ Len(Order) \in Nat
  BY OrderAssumption, LenProperties
<1>2. \A i, j \in 1..Len(Order) : Order[i] = Order[j] => i = j
  BY <1>1, OrderAssumption DEF IsInjective
<1>3. \A i \in 1..Len(Order) : Order[i] \in Def
  BY OrderAssumption, ElementOfSeq
<1>4. ToSet(Order) = {Order[i] : i \in 1..Len(Order)}
  BY OrderAssumption, ToSetFacts
<1> QED
  BY <1>1, <1>2, <1>3, <1>4, OrderAssumption

LEMMA PartFacts ==
  ASSUME NEW m \in 1..(Len(Order) + 1), NEW n \in (m - 1)..Len(Order)
  PROVE  /\ SubSeq(Order, m, n) \in Seq(Def)
         /\ Len(SubSeq(Order, m, n)) = n - m + 1
         /\ \A i \in 1..(n - m + 1) : SubSeq(Order, m, n)[i] = Order[m + i - 1]
         /\ ToSet(SubSeq(Order, m, n)) = {Order[k] : k \in m..n}
<1> DEFINE part == SubSeq(Order, m, n)
<1>1. /\ part \in Seq(Def) /\ Len(part) = n - m + 1
      /\ \A i \in 1..(n - m + 1) : part[i] = Order[m + i - 1]
  BY OrderFacts, SubSeqProperties
<1>2. ToSet(part) = {part[i] : i \in 1..(n - m + 1)}
  BY <1>1, ToSetFacts
<1> HIDE DEF part
<1>3. ASSUME NEW k \in m..n PROVE Order[k] \in ToSet(part)
  <2>1. k - m + 1 \in 1..(n - m + 1) /\ part[k - m + 1] = Order[k]
    BY <1>1, OrderFacts
  <2> QED
    BY <1>2, <2>1
<1>4. ASSUME NEW i \in 1..(n - m + 1) PROVE part[i] \in {Order[k] : k \in m..n}
  <2>1. m + i - 1 \in m..n
    BY OrderFacts
  <2> QED
    BY <1>1, <2>1
<1> QED
  BY <1>1, <1>2, <1>3, <1>4 DEF part

LEMMA DistinctFacts ==
  ASSUME NEW l
  PROVE  Sort!Distinct(l) <=> \A i, j \in 1..Len(l) : l[i] = l[j] => i = j
BY DEF Sort!Distinct, Sort!Spec2Abs!Distinct

LEMMA InitPipe == Init => PipeInv
<1> SUFFICES ASSUME Init PROVE PipeInv
  OBVIOUS
<1>1. PICK n \in 1..Len(Order) : defs = SubSeq(Order, 1, n)
  BY DEF Init
<1>2. /\ defs \in Seq(Def) /\ Len(defs) = n
      /\ \A i \in 1..n : defs[i] = Order[i]
  <2>1. 1 \in 1..(Len(Order) + 1) /\ n \in (1 - 1)..Len(Order) /\ n - 1 + 1 = n
    BY OrderFacts
  <2>2. \A i \in 1..n : 1 + i - 1 = i
    OBVIOUS
  <2>3. /\ SubSeq(Order, 1, n) \in Seq(Def) /\ Len(SubSeq(Order, 1, n)) = n - 1 + 1
        /\ \A i \in 1..(n - 1 + 1) : SubSeq(Order, 1, n)[i] = Order[1 + i - 1]
    BY <2>1, PartFacts
  <2> QED
    BY <1>1, <2>1, <2>2, <2>3
<1>3. Sort!Distinct(defs)
  <2>1. ASSUME NEW i \in 1..n, NEW j \in 1..n, defs[i] = defs[j] PROVE i = j
    <3>1. defs[i] = Order[i] /\ defs[j] = Order[j]
      BY <1>2
    <3>2. i \in 1..Len(Order) /\ j \in 1..Len(Order)
      BY OrderFacts
    <3> QED
      BY <2>1, <3>1, <3>2, OrderFacts
  <2> QED
    BY <1>2, <2>1, DistinctFacts
<1>4. TypeOK
  BY <1>1, <1>2, <1>3 DEF Init, TypeOK, Check!Begun
<1>5. AtBeginning
  BY <1>2 DEF Init, AtBeginning, Check!Begun, Given
<1>6. SorterTypes
  BY DEF Init, SorterTypes
<1>7. PassPart /\ PassedPart /\ AnswerPart
  <2>1. phase = "validate" /\ sstatus = "idle" /\ newDefs = <<>>
    BY DEF Init
  <2> QED
    BY <1>5, <2>1, ValidateBegins DEF PassPart, PassedPart, AnswerPart
<1> QED
  BY <1>2, <1>4, <1>5, <1>6, <1>7 DEF PipeInv, AtBeginning

LEMMA NextFilePipe ==
  ASSUME PipeInv, NextFile
  PROVE  PipeInv'
<1> DEFINE n == Len(defs)
           N == Len(Order)
           rest == SubSeq(Order, n + 1, N)
<1>1. /\ phase = "done" /\ n < N /\ n \in Nat /\ defs \in Seq(Def) /\ phase' = "validate"
      /\ defs' = defs \o rest /\ types' = types
  BY LenProperties DEF NextFile, PipeInv
<1>2. /\ rest \in Seq(Def) /\ Len(rest) = N - n
      /\ \A i \in 1..(N - n) : rest[i] = Order[n + i]
      /\ ToSet(rest) = {Order[k] : k \in (n + 1)..N}
  <2>1. n + 1 \in 1..(N + 1) /\ N \in ((n + 1) - 1)..N /\ N - (n + 1) + 1 = N - n
    BY <1>1, OrderFacts
  <2>2. \A i \in 1..(N - n) : (n + 1) + i - 1 = n + i
    BY <1>1, OrderFacts
  <2> DEFINE m == n + 1
  <2>3. /\ SubSeq(Order, m, N) \in Seq(Def) /\ Len(SubSeq(Order, m, N)) = N - m + 1
        /\ \A i \in 1..(N - m + 1) : SubSeq(Order, m, N)[i] = Order[m + i - 1]
        /\ ToSet(SubSeq(Order, m, N)) = {Order[k] : k \in m..N}
    <3> HIDE DEF m, n
    <3> QED
      BY <2>1, PartFacts DEF m
  <2> HIDE DEF N
  <2> QED
    BY <2>1, <2>2, <2>3
<1>3. /\ defs' \in Seq(Def) /\ Len(defs') = N
      /\ \A i \in 1..N : defs'[i] = IF i <= n THEN defs[i] ELSE Order[i]
  <2>1. /\ defs' \in Seq(Def) /\ Len(defs') = n + Len(rest)
        /\ \A i \in 1..(n + Len(rest)) : defs'[i] = IF i <= n THEN defs[i] ELSE rest[i - n]
    <3> HIDE DEF rest
    <3> QED
      BY <1>1, <1>2, ConcatProperties
  <2>2. n + Len(rest) = N /\ \A i \in 1..N : ~(i <= n) => rest[i - n] = Order[i]
    <3>1. \A i \in 1..N : ~(i <= n) => i - n \in 1..(N - n) /\ n + (i - n) = i
      BY <1>1, OrderFacts
    <3>2. n + (N - n) = N
      BY <1>1, OrderFacts
    <3> HIDE DEF rest, n, N
    <3> QED
      BY <1>2, <3>1, <3>2
  <2>3. n \in Nat /\ N \in Nat
    BY <1>1, OrderFacts
  <2>4. ASSUME NEW i \in 1..N PROVE defs'[i] = IF i <= n THEN defs[i] ELSE Order[i]
    <3> HIDE DEF rest, n, N
    <3>1. i \in 1..(n + Len(rest))
      BY <2>2
    <3>2. defs'[i] = IF i <= n THEN defs[i] ELSE rest[i - n]
      BY <2>1, <3>1
    <3>3. ~(i <= n) => rest[i - n] = Order[i]
      BY <2>2, <2>3
    <3> QED
      BY <3>2, <3>3
  <2> HIDE DEF rest, n, N
  <2> QED
    BY <2>1, <2>2, <2>4
<1>4. Given = {Order[k] : k \in 1..n}
  <2>1. Given = ToSet(SubSeq(Order, 1, n))
    BY DEF PipeInv, TypeOK, Given
  <2>2. 1 \in 1..(N + 1) /\ n \in (1 - 1)..N
    BY <1>1, OrderFacts
  <2> HIDE DEF n
  <2> QED
    BY <2>1, <2>2, PartFacts
<1>5. Given' = Def
  <2>1. Given' = Given \cup ToSet(rest)
    <3> HIDE DEF rest
    <3>1. defs \in Seq(Def) /\ rest \in Seq(Def) /\ defs' = defs \o rest
      BY <1>1, <1>2
    <3>2. ToSet(defs \o rest) = ToSet(defs) \cup ToSet(rest)
      BY <3>1, ConcatFacts
    <3> QED
      BY <3>1, <3>2 DEF Given
  <2>2. ASSUME NEW k \in 1..N PROVE k \in 1..n \/ k \in (n + 1)..N
    BY <1>1
  <2> HIDE DEF rest, n, N
  <2>3. \A k \in 1..N : Order[k] \in Given'
    BY <1>2, <1>4, <2>1, <2>2
  <2>4. Given' \subseteq Def
    BY <1>3, ToSetFacts DEF Given
  <2>5. \A d \in Def : \E k \in 1..N : Order[k] = d
    BY OrderFacts DEF N
  <2> QED
    BY <2>3, <2>4, <2>5
<1>6. Sort!Distinct(defs')
  <2>1. ASSUME NEW i \in 1..n, NEW j \in (n + 1)..N PROVE defs[i] # Order[j]
    <3>1. defs[i] \in Given
      BY <1>1, ToSetFacts DEF Given
    <3>2. PICK k \in 1..n : defs[i] = Order[k]
      BY <1>4, <3>1
    <3> QED
      BY <1>1, <3>2, OrderFacts
  <2>2. \A i, j \in 1..n : defs[i] = defs[j] => i = j
    BY DistinctFacts DEF PipeInv, TypeOK
  <2>3. ASSUME NEW i \in 1..N, NEW j \in 1..N, defs'[i] = defs'[j] PROVE i = j
    <3>1. CASE i <= n /\ j <= n
      BY <1>3, <2>2, <2>3, <3>1
    <3>2. CASE i > n /\ j > n
      <4>1. defs'[i] = Order[i] /\ defs'[j] = Order[j]
        BY <1>1, <1>3, <3>2
      <4> QED
        BY <2>3, <4>1, OrderFacts
    <3>3. CASE i <= n /\ j > n
      BY <1>1, <1>3, <2>1, <2>3, <3>3
    <3>4. CASE i > n /\ j <= n
      BY <1>1, <1>3, <2>1, <2>3, <3>4
    <3> QED
      BY <1>1, <3>1, <3>2, <3>3, <3>4
  <2> QED
    BY <1>3, <2>3, DistinctFacts
<1>7. TypeOK'
  <2>1. SubSeq(Order, 1, Len(Order)) = Order
    BY OrderFacts, SubSeqFull
  <2>2. ToSet(defs') = ToSet(SubSeq(Order, 1, Len(defs')))
    BY <1>3, <1>5, <2>1, OrderFacts DEF Given
  <2>3. vstatus' = "run" /\ sstatus' = sstatus
    BY DEF NextFile, BeginValidating, sortVars
  <2> QED
    BY <1>1, <1>6, <2>2, <2>3 DEF TypeOK, PipeInv, Sort!Distinct, Sort!Spec2Abs!Distinct
<1>8. AtBeginning'
  <2>1. SelfContained(types', Def)
    BY DEF SelfContained
  <2> QED
    BY <1>1, <1>3, <1>5, <2>1 DEF AtBeginning, NextFile, BeginValidating, PipeInv, SelfContained
<1>9. VP!Inv'
  BY <1>8, ValidateBegins, PTL
<1>10. SorterTypes' /\ sstatus' = "idle" /\ newDefs' = <<>>
  BY <1>1 DEF PipeInv, PassPart, SorterTypes, NextFile, sortVars
<1>11. PassPart' /\ PassedPart' /\ AnswerPart'
  BY <1>1, <1>9, <1>10 DEF PassPart, PassedPart, AnswerPart
<1>12. (types \in Programs /\ defs \in Seq(Def) /\ SelfContained(types, Given))'
  BY <1>8 DEF AtBeginning
<1> QED
  BY <1>7, <1>10, <1>11, <1>12 DEF PipeInv

LEMMA PipeFacts ==
  ASSUME PipeInv
  PROVE  /\ Typed(types) /\ Given \subseteq Def /\ Sort!Distinct(defs)
         /\ phase = "validate" =>
              /\ VP!Inv /\ sstatus = "idle" /\ newDefs = <<>>
              /\ vstatus = "valid" => KeepsRules
              /\ vstatus \in {"invalid", "overflow"} => ~KeepsRules
BY ProgramsAssumption, ListedFacts, ValidateAnswers DEF PipeInv, PassPart, TypeOK, Given

LEMMA ValidatingPipe ==
  ASSUME PipeInv, Validating
  PROVE  PipeInv'
<1>1. /\ phase = "validate" /\ phase' = "validate" /\ VP!Inv /\ Check!Step
      /\ newDefs' = newDefs /\ sorting' = sorting /\ sorted' = sorted
      /\ stack' = stack /\ pos' = pos /\ sstatus' = sstatus
  BY DEF PipeInv, PassPart, Validating, sortVars
<1>2. VP!Inv' /\ types' = types /\ defs' = defs
  BY <1>1, ValidateIsStep
<1>3. vstatus' \in {"run", "valid", "invalid", "overflow"}
  BY <1>2 DEF VP!Inv, VP!TypeOK
<1>4. TypeOK'
  BY <1>1, <1>2, <1>3, DistinctFacts DEF PipeInv, TypeOK, Sort!Distinct, Sort!Spec2Abs!Distinct
<1>5. SorterTypes'
  BY <1>1 DEF PipeInv, SorterTypes
<1>6. PassPart' /\ PassedPart' /\ AnswerPart'
  BY <1>1, <1>2 DEF PipeInv, PassPart, PassedPart, AnswerPart
<1> QED
  BY <1>2, <1>4, <1>5, <1>6 DEF PipeInv, Given, SelfContained

LEMMA ValidatedPipe ==
  ASSUME PipeInv, Validated
  PROVE  PipeInv'
<1>1. /\ phase = "validate" /\ types' = types /\ defs' = defs /\ vstatus' = vstatus
      /\ newDefs' = newDefs /\ sorting' = sorting /\ sorted' = sorted
      /\ stack' = stack /\ pos' = pos /\ sstatus' = sstatus
      /\ vstatus \in {"valid", "invalid", "overflow"}
      /\ vstatus = "valid" => phase' = "inplace"
      /\ vstatus = "invalid" => phase' = "refused"
      /\ vstatus = "overflow" => phase' = "crashed"
  BY DEF PipeInv, TypeOK, Validated, validateVars, sortVars
<1>2. sstatus = "idle" /\ newDefs = <<>>
  BY <1>1, PipeFacts
<1>3. (KeepsRules' <=> KeepsRules) /\ (Acceptable' <=> Acceptable) /\ Given' = Given
  BY <1>1, SameProgram
<1>4. TypeOK'
  BY <1>1 DEF PipeInv, TypeOK, Sort!Distinct, Sort!Spec2Abs!Distinct
<1>5. SorterTypes'
  BY <1>1 DEF PipeInv, SorterTypes
<1>6. (types \in Programs /\ defs \in Seq(Def) /\ SelfContained(types, Given))'
  BY <1>1 DEF PipeInv, Given, SelfContained
<1>7. AtSort'
  <2>1. Sort!Distinct(defs)'
    BY <1>4 DEF TypeOK
  <2> QED
    BY <1>1, <1>2, <1>5, <1>6, <2>1 DEF AtSort
<1>8. SP!TypeOK' /\ SP!Inv'
  BY <1>7, SortBegins, PTL
<1>9. PassPart'
  BY <1>1, <1>8 DEF PassPart
<1>10. PassedPart'
  BY <1>1, <1>3, PipeFacts DEF PassedPart
<1>11. AnswerPart'
  BY <1>1, <1>3, PipeFacts DEF AnswerPart, Acceptable
<1> QED
  BY <1>4, <1>5, <1>6, <1>9, <1>10, <1>11 DEF PipeInv

LEMMA SortingPipe ==
  ASSUME PipeInv, Sorting
  PROVE  PipeInv'
<1>1. /\ phase \in {"inplace", "typedefs"} /\ phase' = phase /\ types' = types
      /\ vstatus' = vstatus /\ Sort!Step
  BY DEF Sorting, validateVars
<1>2. SP!TypeOK /\ SP!Inv
  BY <1>1 DEF PipeInv, PassPart
<1>3. /\ SP!TypeOK' /\ SP!Inv'
      /\ defs' \in Seq(Def) /\ Len(defs') = Len(defs) /\ ToSet(defs') = ToSet(defs)
      /\ Sort!Distinct(defs')
      /\ Sort!Ordered(Kids, defs) => defs' = defs
  BY <1>1, <1>2, SortIsStep
<1>4. /\ (KeepsRules' <=> KeepsRules) /\ (Acceptable' <=> Acceptable)
      /\ Given' = Given /\ (NoTypedefs' <=> NoTypedefs)
  BY <1>1, <1>3, SameProgram
<1>5. sstatus' # "idle" /\ sstatus' \in {"run"} \cup Sort!Answers
  BY <1>1 DEF Sort!Step, Sort!OutOfMemory, Sort!Begin, Sort!VisitRoot, Sort!VisitKid, Sort!Push,
     Sort!Finish, Sort!Visit, Sort!Answers
<1>6. TypeOK'
  <2>1. Sort!Distinct(defs)'
    BY <1>3 DEF Sort!Distinct, Sort!Spec2Abs!Distinct
  <2> QED
    BY <1>1, <1>3, <1>5, <2>1 DEF PipeInv, TypeOK
<1>7. SorterTypes'
  BY <1>3 DEF SP!TypeOK, SorterTypes
<1>8. PassPart'
  BY <1>1, <1>3 DEF PassPart
<1>9. PassedPart'
  <2>1. ASSUME phase = "typedefs", NoTypedefs PROVE Sort!Ordered(InplaceKids(types), defs)'
    <3>1. Sort!Ordered(Kids, defs)
      BY <2>1, NoTypedefsInOrder, PipeFacts DEF Kids, PipeInv
    <3>2. defs' = defs /\ Sort!Ordered(InplaceKids(types), defs)
      BY <1>3, <2>1, <3>1 DEF PipeInv, PassedPart
    <3> QED
      BY <1>1, <3>2
  <2>2. TrapIn(InplaceKids(types), Given)' <=> TrapIn(InplaceKids(types), Given)
    BY <1>1, <1>4
  <2> QED
    BY <1>1, <1>4, <1>5, <2>1, <2>2 DEF PipeInv, PassedPart
<1>10. AnswerPart'
  BY <1>1 DEF AnswerPart
<1>11. (types \in Programs /\ defs \in Seq(Def) /\ SelfContained(types, Given))'
  BY <1>1, <1>3, <1>4 DEF PipeInv
<1> QED
  BY <1>6, <1>7, <1>8, <1>9, <1>10, <1>11 DEF PipeInv

LEMMA SortedPipe ==
  ASSUME PipeInv, Sorted
  PROVE  PipeInv'
<1>1. /\ phase \in {"inplace", "typedefs"} /\ sstatus = "ok" /\ sstatus' = "idle"
      /\ newDefs' = <<>> /\ types' = types /\ defs' = defs /\ vstatus' = vstatus
      /\ sorting' = sorting /\ sorted' = sorted /\ stack' = stack /\ pos' = pos
      /\ phase = "inplace" => phase' = "typedefs"
      /\ phase = "typedefs" => phase' = "done"
  BY DEF Sorted, validateVars
<1>2. ~TrapIn(Kids, Given) /\ Sort!Ordered(Kids, defs)
  BY <1>1, SortAnswers DEF PipeInv, PassPart
<1>3. /\ (KeepsRules' <=> KeepsRules)
      /\ Given' = Given /\ (NoTypedefs' <=> NoTypedefs)
  BY <1>1, SameProgram
<1>4. TypeOK'
  BY <1>1 DEF PipeInv, TypeOK, Sort!Distinct, Sort!Spec2Abs!Distinct
<1>5. SorterTypes'
  BY <1>1 DEF PipeInv, SorterTypes
<1>6. (types \in Programs /\ defs \in Seq(Def) /\ SelfContained(types, Given))'
  BY <1>1 DEF PipeInv, Given, SelfContained
<1>7. AtSort'
  <2>1. Sort!Distinct(defs)'
    BY <1>4 DEF TypeOK
  <2> QED
    BY <1>1, <1>5, <1>6, <2>1 DEF AtSort
<1>8. SP!TypeOK' /\ SP!Inv'
  BY <1>7, SortBegins, PTL
<1>9. PassPart'
  BY <1>1, <1>8 DEF PassPart
<1>10. PassedPart'
  <2>1. /\ Sort!Ordered(InplaceKids(types), defs)' <=> Sort!Ordered(InplaceKids(types), defs)
        /\ Sort!Ordered(TypedefKids(types), defs)' <=> Sort!Ordered(TypedefKids(types), defs)
        /\ TrapIn(InplaceKids(types), Given)' <=> TrapIn(InplaceKids(types), Given)
        /\ TrapIn(TypedefKids(types), Given)' <=> TrapIn(TypedefKids(types), Given)
    BY <1>1, <1>3
  <2>2. CASE phase = "inplace"
    <3>1. Kids = InplaceKids(types) /\ phase' = "typedefs" /\ KeepsRules
      BY <1>1, <2>2 DEF Kids, PipeInv, PassedPart
    <3> QED
      BY <1>2, <1>3, <2>1, <3>1 DEF PassedPart
  <2>3. CASE phase = "typedefs"
    <3>1. /\ Kids = TypedefKids(types) /\ phase' = "done" /\ KeepsRules
          /\ ~TrapIn(InplaceKids(types), Given)
          /\ NoTypedefs => Sort!Ordered(InplaceKids(types), defs)
      BY <1>1, <2>3 DEF Kids, PipeInv, PassedPart
    <3> QED
      BY <1>2, <1>3, <2>1, <3>1 DEF PassedPart
  <2> QED
    BY <1>1, <2>2, <2>3
<1>11. AnswerPart'
  BY <1>1 DEF AnswerPart
<1> QED
  BY <1>4, <1>5, <1>6, <1>9, <1>10, <1>11 DEF PipeInv

LEMMA SortFailedPipe ==
  ASSUME PipeInv, SortFailed
  PROVE  PipeInv'
<1>1. /\ phase \in {"inplace", "typedefs"} /\ phase' = "refused" /\ sstatus' = sstatus
      /\ sstatus \in {"circular", "missed", "nomem"}
      /\ types' = types /\ defs' = defs /\ vstatus' = vstatus
      /\ sorting' = sorting /\ sorted' = sorted /\ stack' = stack /\ pos' = pos
  BY DEF SortFailed, validateVars, sortVars, Sort!Answers
<1>2. (sstatus = "circular" => TrapIn(Kids, Given)) /\ sstatus # "missed"
  BY <1>1, SortAnswers DEF PipeInv, PassPart
<1>3. Acceptable' <=> Acceptable
  BY <1>1, SameProgram
<1>4. TypeOK'
  BY <1>1 DEF PipeInv, TypeOK, Sort!Distinct, Sort!Spec2Abs!Distinct
<1>5. SorterTypes'
  BY <1>1 DEF PipeInv, SorterTypes
<1>6. (types \in Programs /\ defs \in Seq(Def) /\ SelfContained(types, Given))'
  BY <1>1 DEF PipeInv, Given, SelfContained
<1>7. PassPart' /\ PassedPart'
  BY <1>1 DEF PassPart, PassedPart
<1>8. AnswerPart'
  <2>1. sstatus = "nomem" \/ ~Acceptable
    BY <1>1, <1>2 DEF Kids, Acceptable, Given
  <2> QED
    BY <1>1, <1>3, <2>1 DEF AnswerPart
<1> QED
  BY <1>4, <1>5, <1>6, <1>7, <1>8 DEF PipeInv

(***************************************************************************)
(* Steps of the writer leave the pipeline as it is.                        *)
(***************************************************************************)
LEMMA StoppedPipe ==
  ASSUME PipeInv, UNCHANGED cvars
  PROVE  PipeInv'
<1>1. /\ types' = types /\ defs' = defs /\ phase' = phase
      /\ dpos' = dpos /\ rpos' = rpos /\ walk' = walk /\ calls' = calls
      /\ ok' = ok /\ vstatus' = vstatus
      /\ newDefs' = newDefs /\ sorting' = sorting /\ sorted' = sorted
      /\ stack' = stack /\ pos' = pos /\ sstatus' = sstatus
  BY DEF cvars, validateVars, sortVars
<1>2. /\ (KeepsRules' <=> KeepsRules) /\ (Acceptable' <=> Acceptable)
      /\ Given' = Given /\ (NoTypedefs' <=> NoTypedefs)
  BY <1>1, SameProgram
<1>3. TypeOK'
  BY <1>1 DEF PipeInv, TypeOK, Sort!Distinct, Sort!Spec2Abs!Distinct
<1>4. (types \in Programs /\ defs \in Seq(Def) /\ SelfContained(types, Given))'
  BY <1>1 DEF PipeInv, Given, SelfContained
<1>5. SorterTypes'
  BY <1>1 DEF PipeInv, SorterTypes
<1>6. VP!Inv => VP!Inv'
  <2>1. UNCHANGED VP!vvars
    BY <1>1 DEF VP!vvars
  <2> QED
    BY <2>1, VP!NextInv, ValidateAssumptions
<1>7. SP!TypeOK /\ SP!Inv => SP!TypeOK' /\ SP!Inv'
  <2>1. UNCHANGED SP!vars
    BY <1>1 DEF SP!vars, Kids
  <2> QED
    BY <2>1, SP!TypesNext, SP!InvNext, SortAssumptions
<1>8. PassPart' /\ AnswerPart'
  BY <1>1, <1>2, <1>6, <1>7 DEF PipeInv, PassPart, AnswerPart
<1>9. PassedPart'
  BY <1>1, <1>2 DEF PipeInv, PassedPart
<1> QED
  BY <1>3, <1>4, <1>5, <1>8, <1>9 DEF PipeInv

LEMMA NextPipe == PipeInv /\ [FuscNext]_fuscVars => PipeInv'
<1>1. ASSUME PipeInv, Step PROVE PipeInv'
  BY <1>1, ValidatingPipe, ValidatedPipe, SortingPipe, SortedPipe, SortFailedPipe, NextFilePipe
     DEF Step
<1>2. ASSUME [FuscNext]_fuscVars PROVE Step \/ UNCHANGED cvars
  BY <1>2 DEF FuscNext, Compiling, Writing, Exited, fuscVars
<1> QED
  BY <1>1, <1>2, StoppedPipe

LEMMA PipelineHolds == FuscSpec => []PipeInv
<1>1. FuscInit => PipeInv
  BY InitPipe DEF FuscInit
<1> QED
  BY <1>1, NextPipe, PTL DEF FuscSpec

-----------------------------------------------------------------------------
(***************************************************************************)
(* compiler->defs is at all times the defs parsed so far in some order,    *)
(* whatever the sorts have done to it and however the files are split.     *)
(***************************************************************************)
THEOREM PipelineTypeCorrect == FuscSpec => []TypeOK
<1>1. PipeInv => TypeOK
  BY DEF PipeInv
<1> QED
  BY <1>1, PipelineHolds, PTL

(***************************************************************************)
(* type_unalias and type_def_unalias end when a pass that calls them runs. *)
(***************************************************************************)
THEOREM UnaliasingEnds == FuscSpec => []UnaliasEnds
<1>1. PipeInv => UnaliasEnds
  BY RulesFacts, PipeFacts DEF PipeInv, PassedPart, UnaliasEnds, Given
<1> QED
  BY <1>1, PipelineHolds, PTL

(***************************************************************************)
(* The list is in the order of each sort once that sort has run, for any   *)
(* number of defs, also when earlier files have been sorted before.        *)
(***************************************************************************)
THEOREM SortsInOrder == FuscSpec => []EachSortInOrder
<1>1. PipeInv => EachSortInOrder
  BY DEF PipeInv, PassedPart, EachSortInOrder
<1> QED
  BY <1>1, PipelineHolds, PTL

(***************************************************************************)
(* The passes together accept exactly the acceptable programs.             *)
(***************************************************************************)
THEOREM CompilesExactlyAcceptable == FuscSpec => []CompilesIffAcceptable
<1>1. PipeInv => CompilesIffAcceptable
  BY DEF PipeInv, PassedPart, AnswerPart, CompilesIffAcceptable, Acceptable, Given
<1> QED
  BY <1>1, PipelineHolds, PTL

(***************************************************************************)
(* A cycle of defs held by value that has no array in it: each reference   *)
(* on it must be marked "inplace", for what it names is a struct or union. *)
(* Together with the aliases that stand between them its defs are a cycle  *)
(* the validator follows.                                                  *)
(***************************************************************************)
LEMMA HeldCyclesAreMarked ==
  ASSUME Typed(types), Given \in SUBSET Def, SelfContained(types, Given),
         ~AliasCycle(types, Given),
         TrapIn(InplaceKids(types), Given \ {d \in Given : types[d].tag = "array"})
  PROVE  \E C \in SUBSET Given : Check!MarkedCycle(C)
<1> DEFINE end(x) == DefUnalias(types, x)
<1>1. PICK C \in SUBSET (Given \ {d \in Given : types[d].tag = "array"}) :
        C # {} /\ \A d \in C : \E k \in 1..Len(InplaceKids(types)[d]) : InplaceKids(types)[d][k] \in C
  BY DEF TrapIn
<1>2. ASSUME NEW d \in C
      PROVE  /\ types[d].tag \in {"struct", "union"}
             /\ \E r \in Holding(types, Refs(types[d])) : end(r.to) \in C
  <2>1. d \in Def /\ types[d].tag # "array"
    BY <1>1
  <2> DEFINE kids == InplaceKids(types)[d]
  <2>2. PICK k \in 1..Len(kids) : kids[k] \in C
    BY <1>1
  <2>3. kids[k] \in ToSet(kids)
    <3>1. kids \in Seq(Def)
      BY <2>1, InplaceKidsFacts
    <3> HIDE DEF kids
    <3> QED
      BY <3>1, ToSetFacts
  <2>4. ToSet(kids) = IF types[d].tag \in Composite
                      THEN {end(r.to) : r \in Holding(types, Refs(types[d]))}
                      ELSE {}
    BY <2>1, InplaceKidsFacts
  <2> HIDE DEF kids, end
  <2> QED
    BY <2>1, <2>2, <2>3, <2>4 DEF Composite
<1> DEFINE D == {x \in Given : end(x) \in C}
<1>3. ASSUME NEW x \in Given
      PROVE  /\ ~IsAlias(types, x) => end(x) = x
             /\ IsAlias(types, x) => /\ AliasOf(types, x) \in Given
                                     /\ end(AliasOf(types, x)) = end(x)
  BY UnaliasFacts
<1>4. ASSUME NEW d \in C
      PROVE  d \in Def /\ ~IsAlias(types, d) /\ end(d) = d /\ d \in D
  <2>1. d \in Given /\ d \in Def /\ types[d].tag \in {"struct", "union"}
    BY <1>1, <1>2
  <2>2. ~IsAlias(types, d)
    BY <2>1 DEF IsAlias
  <2> HIDE DEF end
  <2> QED
    BY <1>3, <2>1, <2>2
<1>5. ASSUME NEW d \in D PROVE MarkedKids(types, d) \cap D # {}
  <2> HIDE DEF end
  <2>1. CASE IsAlias(types, d)
    <3>1. MarkedKids(types, d) = {AliasOf(types, d)}
      BY <2>1, AliasFacts
    <3>2. AliasOf(types, d) \in D
      BY <1>3, <2>1
    <3> QED
      BY <3>1, <3>2
  <2>2. CASE ~IsAlias(types, d)
    <3>1. d \in C
      BY <1>3, <2>2
    <3>2. PICK r \in Holding(types, Refs(types[d])) : end(r.to) \in C
      BY <1>2, <3>1
    <3>3. /\ r \in Refs(types[d]) /\ r.to \in Def /\ RefIsInplace(types, r)
          /\ r.to \in Given
      BY <3>2 DEF Holding, Naming, SelfContained
    <3>4. TagIsPointer(UnaliasTag(types, r.to))
      <4>1. UnaliasTag(types, r.to) = types[end(r.to)].tag
        BY <3>3 DEF UnaliasTag, end
      <4>2. types[end(r.to)].tag \in {"struct", "union"}
        BY <1>2, <3>2
      <4> QED
        BY <4>1, <4>2 DEF TagIsPointer
    <3>5. r.mode = "inplace"
      BY <3>3, <3>4 DEF RefIsInplace
    <3>6. r.to \in MarkedKids(types, d)
      BY <1>2, <3>1, <3>3, <3>5 DEF MarkedKids, IsMarked, Composite
    <3>7. r.to \in D
      BY <3>2, <3>3
    <3> QED
      BY <3>6, <3>7
  <2> QED
    BY <2>1, <2>2
<1>6. D \in SUBSET Given /\ D # {}
  <2> HIDE DEF end
  <2>1. \E d \in C : d \in D
    BY <1>1, <1>4
  <2> QED
    BY <2>1
<1> HIDE DEF D
<1> QED
  BY <1>5, <1>6, MarkedCycles

LEMMA TypedefCyclesAreAliases ==
  ASSUME Typed(types), Given \in SUBSET Def,
         TrapIn(TypedefKids(types), Given \ {d \in Given : types[d].tag = "func"})
  PROVE  AliasCycle(types, Given)
<1>1. PICK C \in SUBSET (Given \ {d \in Given : types[d].tag = "func"}) :
        C # {} /\ \A d \in C : \E k \in 1..Len(TypedefKids(types)[d]) : TypedefKids(types)[d][k] \in C
  BY DEF TrapIn
<1>2. ASSUME NEW d \in C PROVE IsAlias(types, d) /\ AliasOf(types, d) \in C
  <2>1. d \in Def /\ types[d].tag # "func"
    BY <1>1
  <2> DEFINE kids == TypedefKids(types)[d]
  <2>2. PICK k \in 1..Len(kids) : kids[k] \in C
    BY <1>1
  <2>3. kids[k] \in ToSet(kids)
    <3>1. kids \in Seq(Def)
      BY <2>1, TypedefKidsFacts
    <3> HIDE DEF kids
    <3> QED
      BY <3>1, ToSetFacts
  <2>4. ToSet(kids) = IF types[d].tag \in {"alias", "func"}
                      THEN {r.to : r \in Naming(Refs(types[d]))}
                      ELSE {}
    BY <2>1, TypedefKidsFacts
  <2> HIDE DEF kids
  <2>5. types[d].tag = "alias" /\ \E r \in Refs(types[d]) : r.to \in C
    BY <2>1, <2>2, <2>3, <2>4 DEF Naming
  <2>6. IsAlias(types, d)
    BY <2>1, <2>5 DEF IsAlias
  <2>7. Refs(types[d]) = {types[d].refs[1]}
    <3>1. Len(types[d].refs) = 1
      BY <2>1, <2>5 DEF Typed, IsType
    <3> QED
      BY <3>1 DEF Refs
  <2> QED
    BY <2>5, <2>6, <2>7 DEF AliasOf
<1>3. AliasLoop(types, C)
  BY <1>2 DEF AliasLoop
<1> QED
  BY <1>1, <1>3 DEF AliasCycle

(***************************************************************************)
(* The cycles the validator misses run through an array, or through a      *)
(* func: there are no others, however long they are.                       *)
(***************************************************************************)
THEOREM OnlyKnownCyclesPass == FuscSpec => []OnlyKnownCycles
<1>1. PipeInv => OnlyKnownCycles
  <2> SUFFICES ASSUME PipeInv PROVE OnlyKnownCycles
    OBVIOUS
  <2>1. Typed(types) /\ Given \in SUBSET Def /\ SelfContained(types, Given) /\ defs \in Seq(Def)
    BY PipeFacts DEF PipeInv
  <2>2. ASSUME phase \in {"inplace", "typedefs"} PROVE KeepsRules /\ ~AliasCycle(types, Given)
    BY <2>1, <2>2, RulesFacts DEF PipeInv, PassedPart
  <2>3. ASSUME phase = "inplace"
        PROVE  ~TrapIn(Kids, Given \ {d \in Given : types[d].tag = "array"})
    BY <2>1, <2>2, <2>3, HeldCyclesAreMarked DEF Kids, KeepsRules, Given
  <2>4. ASSUME phase = "typedefs"
        PROVE  ~TrapIn(Kids, Given \ {d \in Given : types[d].tag = "func"})
    BY <2>1, <2>2, <2>4, TypedefCyclesAreAliases DEF Kids
  <2> QED
    BY <2>3, <2>4 DEF OnlyKnownCycles, Given
<1> QED
  BY <1>1, PipelineHolds, PTL

-----------------------------------------------------------------------------
(***************************************************************************)
(* The writer.  First, what it shares with the passes.                     *)
(***************************************************************************)
LEMMA SameOutput ==
  /\ Out!Composite = Composite /\ Out!Cardinality(Def) = Cardinality(Def)
  /\ \A t : Out!Refs(t) = Refs(t)
  /\ \A t, x : Out!IsAlias(t, x) <=> IsAlias(t, x)
  /\ \A t, x : Out!AliasOf(t, x) = AliasOf(t, x)
  /\ \A t, x : Out!DefUnalias(t, x) = DefUnalias(t, x)
  /\ \A t, x : Out!UnaliasTag(t, x) = UnaliasTag(t, x)
  /\ \A t, r : Out!RefIsInplace(t, r) <=> RefIsInplace(t, r)
  /\ \A tag : Out!TagHasCleanup(tag) <=> TagHasCleanup(tag)
  /\ \A s : Out!ToSet(s) = ToSet(s)
<1>1. /\ Out!Composite = Composite /\ Out!Cardinality(Def) = Cardinality(Def)
      /\ \A tag : Out!TagHasCleanup(tag) <=> TagHasCleanup(tag)
      /\ \A tag : Out!TagIsPointer(tag) <=> TagIsPointer(tag)
  BY DEF Out!Composite, Composite, Out!Cardinality, Cardinality, Out!TagHasCleanup,
         TagHasCleanup, Out!TagIsPointer, TagIsPointer
<1>2. \A t : Out!Refs(t) = Refs(t)
  BY DEF Out!Refs, Refs
<1>3. /\ \A t, x : Out!IsAlias(t, x) <=> IsAlias(t, x)
      /\ \A t, x : Out!AliasOf(t, x) = AliasOf(t, x)
  BY DEF Out!IsAlias, IsAlias, Out!AliasOf, AliasOf
<1>4. \A t, x : Out!DefUnalias(t, x) = DefUnalias(t, x)
  BY <1>1, Zenon DEF Out!DefUnalias, DefUnalias, Out!Follow, Follow, Out!IsAlias, IsAlias,
                     Out!AliasOf, AliasOf
<1>5. \A t, x : Out!UnaliasTag(t, x) = UnaliasTag(t, x)
  BY <1>4 DEF Out!UnaliasTag, UnaliasTag
<1>6. \A t, r : Out!RefIsInplace(t, r) <=> RefIsInplace(t, r)
  BY <1>1, <1>5 DEF Out!RefIsInplace, RefIsInplace
<1>7. \A s : Out!ToSet(s) = ToSet(s)
  BY DEF Out!ToSet, ToSet
<1> QED
  BY <1>1, <1>2, <1>3, <1>4, <1>5, <1>6, <1>7

(***************************************************************************)
(* How far each section has come: the first Reached(name) defs have been   *)
(* written in it.                                                          *)
(***************************************************************************)
SectionNames ==
  {"typedefs", "enums", "structs", "prototypes", "types", "functions", "end"}

Rank(name) ==
  CASE name = "typedefs" -> 1
    [] name = "enums" -> 2
    [] name = "structs" -> 3
    [] name = "prototypes" -> 4
    [] name = "types" -> 5
    [] name = "functions" -> 6
    [] name = "end" -> 7

Reached(name) ==
  IF section = name THEN at - 1 ELSE IF Rank(name) < Rank(section) THEN Len(defs) ELSE 0

Wrote(name) == {defs[i] : i \in 1..Reached(name)}
Part(name) == SubSeq(defs, 1, Reached(name))

Placed == section \in SectionNames /\ at \in 1..(Len(defs) + 1)

LEMMA RankFacts ==
  /\ Rank("typedefs") = 1 /\ Rank("enums") = 2 /\ Rank("structs") = 3
  /\ Rank("prototypes") = 4 /\ Rank("types") = 5 /\ Rank("functions") = 6
  /\ Rank("end") = 7
  /\ \A name \in SectionNames : Rank(name) \in 1..7
  /\ \A m, n \in SectionNames : Rank(m) = Rank(n) => m = n
<1>1. /\ Rank("typedefs") = 1 /\ Rank("enums") = 2 /\ Rank("structs") = 3
      /\ Rank("prototypes") = 4 /\ Rank("types") = 5 /\ Rank("functions") = 6
      /\ Rank("end") = 7
  BY DEF Rank
<1> QED
  BY <1>1 DEF SectionNames

LEMMA SectionFacts ==
  /\ Len(Out!Sections) = 7
  /\ \A i \in 1..7 : Out!Sections[i] \in SectionNames /\ Rank(Out!Sections[i]) = i
<1>1. /\ Len(Out!Sections) = 7
      /\ Out!Sections[1] = "typedefs" /\ Out!Sections[2] = "enums" /\ Out!Sections[3] = "structs"
      /\ Out!Sections[4] = "prototypes" /\ Out!Sections[5] = "types"
      /\ Out!Sections[6] = "functions" /\ Out!Sections[7] = "end"
  BY DEF Out!Sections
<1>2. \A i \in 1..7 : i = 1 \/ i = 2 \/ i = 3 \/ i = 4 \/ i = 5 \/ i = 6 \/ i = 7
  OBVIOUS
<1> QED
  BY <1>1, <1>2, RankFacts DEF SectionNames

(***************************************************************************)
(* A section writes its next def, or begins where the last one has ended.  *)
(***************************************************************************)
LEMMA AtDefFacts ==
  ASSUME defs \in Seq(Def), Placed, NEW name \in SectionNames, Out!AtDef(name), defs' = defs
  PROVE  /\ section = name /\ section' = name /\ Placed' /\ Reached(name) = at - 1
         /\ Reached(name) \in Nat /\ Reached(name) < Len(defs)
         /\ Out!This = defs[Reached(name) + 1] /\ Out!This \in Def /\ Out!This \in Given
         /\ \A n \in SectionNames :
              Reached(n)' = IF n = name THEN Reached(n) + 1 ELSE Reached(n)
         /\ \A n \in SectionNames :
              Wrote(n)' = IF n = name THEN Wrote(n) \cup {Out!This} ELSE Wrote(n)
         /\ \A n \in SectionNames :
              Part(n)' = IF n = name THEN Append(Part(n), Out!This) ELSE Part(n)
<1>1. /\ section = name /\ section' = name /\ at <= Len(defs) /\ at' = at + 1
      /\ Len(defs) \in Nat /\ at \in Nat \ {0}
  BY LenProperties DEF Out!AtDef, Placed
<1>2. Placed' /\ Reached(name) = at - 1 /\ Reached(name) \in Nat /\ Reached(name) < Len(defs)
  BY <1>1 DEF Placed, Reached
<1>3. Out!This = defs[Reached(name) + 1] /\ Out!This \in Def /\ Out!This \in Given
  <2>1. Out!This = defs[at]
    BY DEF Out!This
  <2> QED
    BY <1>1, <1>2, <2>1, ToSetFacts, ElementOfSeq DEF Given
<1>4. ASSUME NEW n \in SectionNames
      PROVE  Reached(n)' = IF n = name THEN Reached(n) + 1 ELSE Reached(n)
  BY <1>1 DEF Reached
<1>5. ASSUME NEW n \in SectionNames
      PROVE  Wrote(n)' = IF n = name THEN Wrote(n) \cup {Out!This} ELSE Wrote(n)
  <2>1. CASE n = name
    <3>1. Wrote(n)' = {defs[i] : i \in 1..(Reached(name) + 1)}
      BY <1>4, <2>1 DEF Wrote
    <3>2. 1..(Reached(name) + 1) = 1..Reached(name) \cup {Reached(name) + 1}
      BY <1>2
    <3>3. {defs[i] : i \in 1..(Reached(name) + 1)} = Wrote(name) \cup {defs[Reached(name) + 1]}
      BY <3>2 DEF Wrote
    <3> QED
      BY <1>3, <2>1, <3>1, <3>3
  <2>2. CASE n # name
    BY <1>4, <2>2 DEF Wrote
  <2> QED
    BY <2>1, <2>2
<1>6. ASSUME NEW n \in SectionNames
      PROVE  Part(n)' = IF n = name THEN Append(Part(n), Out!This) ELSE Part(n)
  <2>1. CASE n = name
    <3>1. Part(n)' = SubSeq(defs, 1, Reached(name) + 1)
      BY <1>4, <2>1 DEF Part
    <3>2. SubSeq(defs, 1, Reached(name) + 1) =
            Append(SubSeq(defs, 1, Reached(name)), defs[Reached(name) + 1])
      BY <1>1, <1>2, SubSeqRecursiveSecond
    <3> QED
      BY <1>3, <2>1, <3>1, <3>2 DEF Part
  <2>2. CASE n # name
    BY <1>4, <2>2 DEF Part
  <2> QED
    BY <2>1, <2>2
<1> QED
  BY <1>1, <1>2, <1>3, <1>4, <1>5, <1>6

LEMMA NextSectionFacts ==
  ASSUME defs \in Seq(Def), Placed, Out!NextSection, defs' = defs
  PROVE  /\ Placed' /\ Rank(section') = Rank(section) + 1 /\ section' # section
         /\ \A n \in SectionNames :
              Reached(n)' = Reached(n) /\ Wrote(n)' = Wrote(n) /\ Part(n)' = Part(n)
<1>1. /\ section # "end" /\ at > Len(defs) /\ at' = 1
      /\ \E i \in 1..(Len(Out!Sections) - 1) :
           Out!Sections[i] = section /\ section' = Out!Sections[i + 1]
  BY DEF Out!NextSection
<1>2. /\ Rank(section') = Rank(section) + 1 /\ section' \in SectionNames
      /\ Rank(section) \in 1..6
  <2>1. PICK i \in 1..6 : Out!Sections[i] = section /\ section' = Out!Sections[i + 1]
    BY <1>1, SectionFacts
  <2> QED
    BY <2>1, SectionFacts
<1>3. Len(defs) \in Nat /\ at = Len(defs) + 1
  BY <1>1, LenProperties DEF Placed
<1>4. ASSUME NEW n \in SectionNames PROVE Reached(n)' = Reached(n)
  <2>1. Rank(n) \in 1..7 /\ (n = section <=> Rank(n) = Rank(section))
          /\ (n = section' <=> Rank(n) = Rank(section'))
    BY <1>2, RankFacts DEF Placed
  <2>2. Reached(n)' = IF section' = n THEN 0
                      ELSE IF Rank(n) < Rank(section') THEN Len(defs) ELSE 0
    BY <1>1 DEF Reached
  <2>3. Reached(n) = IF section = n THEN Len(defs)
                     ELSE IF Rank(n) < Rank(section) THEN Len(defs) ELSE 0
    BY <1>3 DEF Reached
  <2> QED
    BY <1>2, <2>1, <2>2, <2>3
<1>5. Placed' /\ section' # section
  <2>1. Rank(section) \in 1..6 /\ Rank(section') = Rank(section) + 1
    BY <1>2
  <2> QED
    BY <1>1, <1>2, <1>3, <2>1 DEF Placed
<1>6. ASSUME NEW n \in SectionNames
      PROVE  Wrote(n)' = Wrote(n) /\ Part(n)' = Part(n)
  BY <1>4 DEF Wrote, Part
<1> QED
  BY <1>2, <1>4, <1>5, <1>6

(***************************************************************************)
(* A def has a cleanup exactly if what it is an alias of has one, and each *)
(* alias on the way there has one too.                                     *)
(***************************************************************************)
LEMMA CleanupFacts ==
  ASSUME Typed(types), SelfContained(types, Def), ~AliasCycle(types, Def), NEW d \in Def
  PROVE  /\ Out!HasCleanup(d) <=> TagHasCleanup(types[DefUnalias(types, d)].tag)
         /\ ~IsAlias(types, d) => (Out!HasCleanup(d) <=> TagHasCleanup(types[d].tag))
         /\ IsAlias(types, d) => ~TagHasCleanup(types[d].tag)
         /\ Out!HasCleanup(d) <=> Out!HasCleanup(Follow(types, d))
         /\ Follow(types, d) \in Def
<1>1. \A x \in Def : Out!HasCleanup(x) <=> TagHasCleanup(types[DefUnalias(types, x)].tag)
  BY SameOutput DEF Out!HasCleanup, UnaliasTag
<1>2. /\ ~IsAlias(types, d) => DefUnalias(types, d) = d
      /\ IsAlias(types, d) =>
           /\ AliasOf(types, d) \in Def
           /\ DefUnalias(types, AliasOf(types, d)) = DefUnalias(types, d)
  BY UnaliasFacts
<1>3. IsAlias(types, d) => ~TagHasCleanup(types[d].tag)
  BY DEF IsAlias, TagHasCleanup
<1>4. Follow(types, d) \in Def /\ DefUnalias(types, Follow(types, d)) = DefUnalias(types, d)
  BY <1>2 DEF Follow
<1> QED
  BY <1>1, <1>2, <1>3, <1>4

(***************************************************************************)
(* What an alias's macro is replaced by is what it is an alias of, so the  *)
(* preprocessor goes where type_def_unalias goes.                          *)
(***************************************************************************)
MacroOf(t, d) ==
  IF ~TagHasCleanup(UnaliasTag(t, d)) THEN Out!NoCleanup
  ELSE IF IsAlias(t, d) THEN AliasOf(t, d)
  ELSE Out!NoMacro

LEMMA ReplacedFacts ==
  ASSUME Typed(types), SelfContained(types, Def), ~AliasCycle(types, Def),
         macros = [d \in Def |-> MacroOf(types, d)],
         NEW d \in Def, Out!HasCleanup(d)
  PROVE  Out!Replaced(d) = Follow(types, d)
<1>1. macros[d] = IF IsAlias(types, d) THEN AliasOf(types, d) ELSE Out!NoMacro
  BY SameOutput DEF MacroOf, Out!HasCleanup
<1>2. IsAlias(types, d) => AliasOf(types, d) \in Def /\ AliasOf(types, d) # Out!NoMacro
  BY AliasFacts, NamesAssumption
<1> QED
  BY <1>1, <1>2 DEF Out!Replaced, Follow

LEMMA ExpandedRun ==
  ASSUME NEW T, NEW x, NEW f \in [0..Cardinality(Def) -> T], f[0] = x,
         \A n \in 1..Cardinality(Def) : f[n] = Out!Replaced(f[n-1])
  PROVE  Out!Expanded(x) = f[Cardinality(Def)]
<1> DEFINE N == Cardinality(Def)
           Expands(g) == g = [n \in 0..N |-> IF n = 0 THEN x ELSE Out!Replaced(g[n-1])]
           expand == CHOOSE g : Expands(g)
<1>1. N \in Nat
  BY DefsAreNotTags, FS_CardinalityType
<1>2. Expands(f)
  <2>1. \A n \in 0..N : f[n] = IF n = 0 THEN x ELSE Out!Replaced(f[n-1])
    <3> TAKE n \in 0..N
    <3>1. CASE n = 0
      BY <3>1
    <3>2. CASE n # 0
      <4>1. n \in 1..N
        BY <1>1, <3>2
      <4> QED
        BY <3>2, <4>1
    <3> QED
      BY <3>1, <3>2
  <2>2. f = [n \in 0..N |-> f[n]]
    OBVIOUS
  <2> HIDE DEF N
  <2> QED
    BY <2>1, <2>2, Zenon
<1>3. Expands(expand)
  <2> HIDE DEF Expands
  <2> QED
    BY <1>2
<1>4. expand[0] = x /\ \A n \in 1..N : expand[n] = Out!Replaced(expand[n-1])
  <2> HIDE DEF expand
  <2>1. \A n \in 0..N : expand[n] = IF n = 0 THEN x ELSE Out!Replaced(expand[n-1])
    BY <1>3, Zenon
  <2>2. 0 \in 0..N /\ \A n \in 1..N : n \in 0..N /\ n # 0
    BY <1>1
  <2> HIDE DEF N
  <2> QED
    BY <2>1, <2>2
<1>5. \A n \in 0..N : f[n] = expand[n]
  <2> HIDE DEF expand
  <2>1. f[0] = expand[0] /\ \A n \in 1..N : f[n-1] = expand[n-1] => f[n] = expand[n]
    BY <1>4
  <2> QED
    BY <1>1, <2>1, RunUnique
<1>6. Out!Expanded(x) = expand[N]
  BY SameOutput, Zenon DEF Out!Expanded
<1> QED
  <2> HIDE DEF expand
  <2> QED
    BY <1>1, <1>5, <1>6

LEMMA ExpandedFacts ==
  ASSUME Typed(types), SelfContained(types, Def), ~AliasCycle(types, Def),
         macros = [d \in Def |-> MacroOf(types, d)],
         NEW d \in Def, Out!HasCleanup(d)
  PROVE  Out!Expanded(d) = DefUnalias(types, d)
<1> DEFINE N == Cardinality(Def)
<1>1. N \in Nat
  BY DefsAreNotTags, FS_CardinalityType
<1>2. PICK f \in [0..N -> Def] :
        /\ f[0] = d
        /\ \A n \in 1..N : f[n] = Follow(types, f[n-1])
        /\ DefUnalias(types, d) = f[N]
  BY UnaliasRun
<1>3. \A n \in 0..N : Out!HasCleanup(f[n])
  <2> DEFINE S == {n \in 0..N : Out!HasCleanup(f[n])}
  <2>1. 0 \in S
    BY <1>1, <1>2
  <2>2. ASSUME NEW n \in 1..N, n - 1 \in S PROVE n \in S
    <3>1. f[n-1] \in Def /\ Out!HasCleanup(f[n-1]) /\ f[n] = Follow(types, f[n-1])
      BY <1>1, <1>2, <2>2
    <3> QED
      BY <1>1, <3>1, CleanupFacts
  <2>3. 0..N \subseteq S
    <3> HIDE DEF S, N
    <3> QED
      BY <1>1, <2>1, <2>2, PassedOn
  <2> QED
    BY <2>3
<1>4. \A n \in 1..N : f[n] = Out!Replaced(f[n-1])
  <2> TAKE n \in 1..N
  <2>1. n - 1 \in 0..N
    BY <1>1
  <2>2. f[n-1] \in Def /\ Out!HasCleanup(f[n-1])
    BY <1>2, <1>3, <2>1
  <2> QED
    BY <1>2, <2>1, <2>2, ReplacedFacts
<1> QED
  BY <1>2, <1>4, ExpandedRun

(***************************************************************************)
(* The invariant of the writer.  Nothing is written before everything is   *)
(* compiled.  From then on each section has written its part of the defs:  *)
(* what is known of them, the two lists and the bodies are what the        *)
(* sections that have run, and this one up to `at`, make of them.          *)
(***************************************************************************)
Item == Def \cup {"any", "type"}
Fn == {"cleanup", "parse", "write"} \X Item

ReadyMade ==
  {<<"cleanup", "any">>, <<"parse", "any">>, <<"write", "any">>, <<"parse", "type">>,
   <<"write", "type">>}

FunctionsOf(t, S) ==
  {<<"parse", d>> : d \in S} \cup {<<"write", d>> : d \in S}
  \cup {<<"cleanup", d>> : d \in {d \in S : TagHasCleanup(t[d].tag)}}

StructsOf(t, S) == {d \in S : t[d].tag \in Composite}

KnownPart ==
  /\ typedefs = Wrote("typedefs")
  /\ complete = StructsOf(types, Wrote("structs"))
  /\ macros = [d \in Def |->
                 IF d \in Wrote("prototypes") THEN MacroOf(types, d) ELSE Out!NoMacro]
  /\ protos = IF Rank(section) < 4 THEN {}
              ELSE ReadyMade \cup FunctionsOf(types, Wrote("prototypes"))

ListsPart ==
  /\ constants = IF Rank(section) < 2 THEN <<>> ELSE Out!Builtins \o Part("enums")
  /\ table = IF Rank(section) < 5 THEN <<>> ELSE Out!Builtins \o Part("types")

BodiesPart ==
  /\ bodies \in Seq(Fn) /\ IsInjective(bodies)
  /\ ToSet(bodies) = IF Rank(section) < 6 THEN {}
                     ELSE ReadyMade \cup FunctionsOf(types, Wrote("functions"))

FaultsPart == NamesDeclared /\ CompleteWithoutTypedefs

Written == Placed /\ KnownPart /\ ListsPart /\ BodiesPart /\ FaultsPart

WriterInv == (Compiled \/ Out!OutInit) /\ Written

LEMMA NothingWritten ==
  ASSUME defs \in Seq(Def), Out!OutInit
  PROVE  Written
<1>1. /\ section = "typedefs" /\ at = 1 /\ typedefs = {} /\ complete = {} /\ protos = {}
      /\ macros = [d \in Def |-> Out!NoMacro]
      /\ constants = <<>> /\ table = <<>> /\ bodies = <<>> /\ faults = {}
  BY DEF Out!OutInit
<1>2. Len(defs) \in Nat
  BY LenProperties
<1>3. Placed /\ Rank(section) = 1
  BY <1>1, <1>2, RankFacts DEF Placed, SectionNames
<1>4. \A n \in SectionNames : Reached(n) = 0
  <2> TAKE n \in SectionNames
  <2>1. Rank(n) \in 1..7
    BY RankFacts
  <2> QED
    BY <1>1, <1>3, <2>1 DEF Reached
<1>5. \A n \in SectionNames : Wrote(n) = {}
  BY <1>4 DEF Wrote
<1>6. KnownPart
  BY <1>1, <1>3, <1>5 DEF KnownPart, StructsOf, SectionNames
<1>7. ListsPart
  BY <1>1, <1>3 DEF ListsPart
<1>8. BodiesPart
  <2>1. bodies \in Seq(Fn) /\ DOMAIN bodies = {}
    BY <1>1
  <2>2. ToSet(bodies) = {} /\ IsInjective(bodies)
    BY <2>1 DEF ToSet, IsInjective
  <2> QED
    BY <1>3, <2>1, <2>2 DEF BodiesPart
<1>9. FaultsPart
  BY <1>1 DEF FaultsPart, NamesDeclared, CompleteWithoutTypedefs
<1> QED
  BY <1>3, <1>6, <1>7, <1>8, <1>9 DEF Written

(***************************************************************************)
(* What the writer can rely on.                                            *)
(***************************************************************************)
LEMMA CompiledFacts ==
  ASSUME PipeInv, Compiled
  PROVE  /\ Given = Def /\ defs \in Seq(Def) /\ Given = {defs[i] : i \in 1..Len(defs)}
         /\ \A i, j \in 1..Len(defs) : defs[i] = defs[j] => i = j
         /\ Typed(types) /\ SelfContained(types, Def) /\ ~AliasCycle(types, Def)
         /\ \A d \in Def : types[d].tag # "undefined"
         /\ Sort!Ordered(TypedefKids(types), defs)
         /\ NoTypedefs => Sort!Ordered(InplaceKids(types), defs)
<1>1. phase = "done" /\ Len(defs) = Len(Order) /\ defs \in Seq(Def) /\ Typed(types)
  BY PipeFacts DEF Compiled, PipeInv
<1>2. Given = Def
  <2>1. SubSeq(Order, 1, Len(Order)) = Order
    BY OrderFacts, SubSeqFull
  <2> QED
    BY <1>1, <2>1, OrderFacts DEF PipeInv, TypeOK, Given
<1>3. Given = {defs[i] : i \in 1..Len(defs)}
  BY <1>1, ToSetFacts DEF Given
<1>4. \A i, j \in 1..Len(defs) : defs[i] = defs[j] => i = j
  BY DistinctFacts DEF PipeInv, TypeOK
<1>5. KeepsRules /\ SelfContained(types, Def)
  BY <1>1, <1>2 DEF PipeInv, PassedPart
<1>6. ~AliasCycle(types, Def) /\ \A d \in Def : types[d].tag # "undefined"
  BY <1>1, <1>2, <1>5, RulesFacts DEF KeepsRules, Given
<1> QED
  BY <1>1, <1>2, <1>3, <1>4, <1>5, <1>6 DEF PipeInv, PassedPart

(***************************************************************************)
(* The kids of the def a section is at are among those it has written.     *)
(***************************************************************************)
LEMMA KidsWritten ==
  ASSUME defs \in Seq(Def), NEW g \in [Def -> Seq(Def)], Sort!Ordered(g, defs),
         NEW n \in Nat, n < Len(defs)
  PROVE  ToSet(g[defs[n + 1]]) \subseteq {defs[i] : i \in 1..n}
<1>1. n + 1 \in 1..Len(defs) /\ defs[n + 1] \in Def
  BY LenProperties, ElementOfSeq
<1>2. g[defs[n + 1]] \in Seq(Def)
  BY <1>1
<1>3. ToSet(g[defs[n + 1]]) = {g[defs[n + 1]][k] : k \in 1..Len(g[defs[n + 1]])}
  BY <1>2, ToSetFacts
<1>4. ASSUME NEW k \in 1..Len(g[defs[n + 1]])
      PROVE  g[defs[n + 1]][k] \in {defs[i] : i \in 1..n}
  <2>1. PICK j \in 1..((n + 1) - 1) : defs[j] = g[defs[n + 1]][k]
    BY <1>1 DEF Sort!Ordered, Sort!Spec2Abs!Ordered
  <2> QED
    BY <2>1
<1> QED
  BY <1>3, <1>4

LEMMA NamedFacts ==
  ASSUME Typed(types), NEW d \in Def
  PROVE  /\ Out!DefsNamed(Refs(types[d])) = {r.to : r \in Naming(Refs(types[d]))}
         /\ Out!DefsNamed(Refs(types[d])) \subseteq Def
         /\ types[d].tag \in PlainTags \cup {"undefined"} =>
              Refs(types[d]) = {} /\ Out!DefsNamed(Refs(types[d])) = {}
         /\ Out!HeldByValue(Refs(types[d])) =
              {DefUnalias(types, r.to) : r \in Holding(types, Refs(types[d]))}
<1>1. Out!DefsNamed(Refs(types[d])) = {r.to : r \in Naming(Refs(types[d]))}
  BY DEF Out!DefsNamed, Naming
<1>2. types[d].tag \in PlainTags \cup {"undefined"} => Refs(types[d]) = {}
  <2>1. types[d].tag \in PlainTags \cup {"undefined"} => types[d].refs = <<>>
    BY DEF Typed, IsType
  <2>2. Len(<<>>) = 0
    OBVIOUS
  <2> QED
    BY <2>1, <2>2 DEF Refs
<1>3. Out!HeldByValue(Refs(types[d])) =
        {DefUnalias(types, r.to) : r \in Holding(types, Refs(types[d]))}
  <2>1. Out!DefsNamed({r \in Refs(types[d]) : Out!RefIsInplace(types, r)}) =
          {r.to : r \in Holding(types, Refs(types[d]))}
    BY SameOutput DEF Out!DefsNamed, Holding, Naming
  <2> QED
    BY <2>1, SameOutput DEF Out!HeldByValue
<1> QED
  BY <1>1, <1>2, <1>3 DEF Out!DefsNamed

LEMMA KidsAreFunctions ==
  ASSUME Typed(types)
  PROVE  TypedefKids(types) \in [Def -> Seq(Def)] /\ InplaceKids(types) \in [Def -> Seq(Def)]
<1>1. \A d \in Def : TypedefKids(types)[d] \in Seq(Def) /\ InplaceKids(types)[d] \in Seq(Def)
  BY TypedefKidsFacts, InplaceKidsFacts
<1>2. /\ TypedefKids(types) = [d \in Def |-> TypedefKids(types)[d]]
      /\ InplaceKids(types) = [d \in Def |-> InplaceKids(types)[d]]
  BY DEF TypedefKids, InplaceKids
<1> QED
  BY <1>1, <1>2, Zenon

(***************************************************************************)
(* A step of a section leaves what the other sections have written.        *)
(***************************************************************************)
LEMMA SectionStep ==
  ASSUME PipeInv, Compiled, Placed, UNCHANGED cvars, NEW name \in SectionNames, Out!AtDef(name)
  PROVE  /\ types' = types /\ defs' = defs /\ section = name /\ section' = name /\ Placed'
         /\ Reached(name) \in Nat /\ Reached(name) < Len(defs)
         /\ Out!This = defs[Reached(name) + 1] /\ Out!This \in Def
         /\ \A n \in SectionNames :
              IF n = name THEN Wrote(n)' = Wrote(n) \cup {Out!This} /\ Part(n)' = Append(Part(n), Out!This)
                          ELSE Wrote(n)' = Wrote(n) /\ Part(n)' = Part(n)
         /\ Wrote(name) = {defs[i] : i \in 1..Reached(name)}
<1>1. types' = types /\ defs' = defs
  BY DEF cvars
<1>2. defs \in Seq(Def)
  BY DEF PipeInv
<1> QED
  BY <1>1, <1>2, AtDefFacts DEF Wrote

LEMMA WriteTypedefWriter ==
  ASSUME PipeInv, Compiled, Written, UNCHANGED cvars, Out!WriteTypedef
  PROVE  Written'
<1>1. Out!AtDef("typedefs") /\ "typedefs" \in SectionNames /\ Placed
  BY DEF Out!WriteTypedef, SectionNames, Written
<1>2. /\ types' = types /\ defs' = defs /\ section = "typedefs" /\ section' = section /\ Placed'
      /\ Reached("typedefs") \in Nat /\ Reached("typedefs") < Len(defs)
      /\ Out!This = defs[Reached("typedefs") + 1] /\ Out!This \in Def
      /\ Wrote("typedefs") = {defs[i] : i \in 1..Reached("typedefs")}
      /\ Wrote("typedefs")' = Wrote("typedefs") \cup {Out!This}
      /\ Wrote("structs")' = Wrote("structs") /\ Wrote("prototypes")' = Wrote("prototypes")
      /\ Wrote("functions")' = Wrote("functions")
      /\ Part("enums")' = Part("enums") /\ Part("types")' = Part("types")
  BY <1>1, SectionStep DEF SectionNames
<1>3. /\ constants' = constants /\ complete' = complete /\ macros' = macros
      /\ protos' = protos /\ table' = table /\ bodies' = bodies
  BY DEF Out!WriteTypedef
<1>4. typedefs' = typedefs \cup {Out!This}
  <2>1. Out!Tag # "undefined"
    BY <1>2, CompiledFacts DEF Out!Tag
  <2> QED
    BY <2>1 DEF Out!WriteTypedef
<1>5. KnownPart'
  BY <1>2, <1>3, <1>4 DEF Written, KnownPart
<1>6. ListsPart' /\ BodiesPart'
  BY <1>2, <1>3 DEF Written, ListsPart, BodiesPart
<1>7. Out!Tag \in Composite \/ Out!DefsNamed(Refs(types[Out!This])) \subseteq typedefs
  <2> DEFINE d == Out!This
  <2>1. types[d].tag \in Tags /\ Out!Tag = types[d].tag
    BY <1>2, CompiledFacts DEF Typed, IsType, Out!Tag
  <2>2. CASE types[d].tag \in {"alias", "func"}
    <3>1. ToSet(TypedefKids(types)[d]) = Out!DefsNamed(Refs(types[d]))
      BY <1>2, <2>2, CompiledFacts, TypedefKidsFacts, NamedFacts
    <3>2. ToSet(TypedefKids(types)[d]) \subseteq Wrote("typedefs")
      BY <1>2, CompiledFacts, KidsAreFunctions, KidsWritten
    <3> QED
      BY <3>1, <3>2 DEF Written, KnownPart
  <2>3. CASE types[d].tag \in PlainTags \cup {"undefined"}
    BY <1>2, <2>3, CompiledFacts, NamedFacts
  <2> QED
    BY <2>1, <2>2, <2>3 DEF Tags
<1>8. faults' = faults
  BY <1>7, SameOutput DEF Out!WriteTypedef, Out!Blame
<1>9. FaultsPart'
  BY <1>2, <1>8 DEF Written, FaultsPart, NamesDeclared, CompleteWithoutTypedefs, NoTypedefs
<1> QED
  BY <1>2, <1>5, <1>6, <1>9 DEF Written

(***************************************************************************)
(* The types of what is listed.                                            *)
(***************************************************************************)
LEMMA PartTypes ==
  ASSUME defs \in Seq(Def), Placed, NEW n \in SectionNames
  PROVE  Part(n) \in Seq(Item) /\ Out!Builtins \in Seq(Item) /\ Reached(n) \in 0..Len(defs)
<1>1. Reached(n) \in 0..Len(defs)
  BY LenProperties DEF Placed, Reached
<1>2. \A i \in 1..Reached(n) : defs[i] \in Item
  BY <1>1, ElementOfSeq DEF Item
<1>3. Part(n) \in Seq(Item)
  BY <1>1, <1>2, SubSeqProperties DEF Part
<1>4. Out!Builtins \in Seq(Item)
  BY DEF Out!Builtins, Item
<1> QED
  BY <1>1, <1>3, <1>4

LEMMA AppendConcat ==
  \A s, t \in Seq(Item) : \A x \in Item : Append(s \o t, x) = s \o Append(t, x)
<1> TAKE s, t \in Seq(Item)
<1> TAKE x \in Item
<1>1. s \o t \in Seq(Item) /\ <<x>> \in Seq(Item)
  BY ConcatProperties
<1>2. Append(s \o t, x) = (s \o t) \o <<x>> /\ Append(t, x) = t \o <<x>>
  BY <1>1, AppendIsConcat
<1> QED
  BY <1>1, <1>2, ConcatAssociative

LEMMA WriteEnumWriter ==
  ASSUME PipeInv, Compiled, Written, UNCHANGED cvars, Out!WriteEnum
  PROVE  Written'
<1>1. Out!AtDef("enums") /\ "enums" \in SectionNames /\ Placed
  BY DEF Out!WriteEnum, SectionNames, Written
<1>2. /\ types' = types /\ defs' = defs /\ section = "enums" /\ section' = section /\ Placed'
      /\ Out!This \in Def
      /\ Wrote("typedefs")' = Wrote("typedefs")
      /\ Wrote("structs")' = Wrote("structs") /\ Wrote("prototypes")' = Wrote("prototypes")
      /\ Wrote("functions")' = Wrote("functions")
      /\ Part("enums")' = Append(Part("enums"), Out!This) /\ Part("types")' = Part("types")
  BY <1>1, SectionStep DEF SectionNames
<1>3. /\ constants' = Append(constants, Out!This) /\ faults' = faults
      /\ typedefs' = typedefs /\ complete' = complete /\ macros' = macros
      /\ protos' = protos /\ table' = table /\ bodies' = bodies
  BY DEF Out!WriteEnum
<1>4. KnownPart' /\ BodiesPart'
  BY <1>2, <1>3 DEF Written, KnownPart, BodiesPart
<1>5. ListsPart'
  <2>1. Append(Out!Builtins \o Part("enums"), Out!This) =
          Out!Builtins \o Append(Part("enums"), Out!This)
    <3>1. Part("enums") \in Seq(Item) /\ Out!Builtins \in Seq(Item) /\ Out!This \in Item
      BY <1>1, <1>2, PartTypes DEF PipeInv, Item
    <3> QED
      BY <3>1, AppendConcat
  <2>2. Rank(section) = 2
    BY <1>2, RankFacts
  <2> QED
    BY <1>2, <1>3, <2>1, <2>2 DEF Written, ListsPart
<1>6. FaultsPart'
  BY <1>2, <1>3 DEF Written, FaultsPart, NamesDeclared, CompleteWithoutTypedefs, NoTypedefs
<1> QED
  BY <1>2, <1>4, <1>5, <1>6 DEF Written

(***************************************************************************)
(* The sections that have run have written every def.                      *)
(***************************************************************************)
LEMMA PastFacts ==
  ASSUME PipeInv, Compiled, Placed, NEW n \in SectionNames, Rank(n) < Rank(section)
  PROVE  Wrote(n) = Def
<1>1. section # n
  BY RankFacts DEF Placed
<1>2. Reached(n) = Len(defs)
  BY <1>1 DEF Reached
<1> QED
  BY <1>2, CompiledFacts DEF Wrote

LEMMA StructsFacts == \A S : Out!Structs(S) = StructsOf(types, S)
BY SameOutput DEF Out!Structs, StructsOf

LEMMA WriteStructWriter ==
  ASSUME PipeInv, Compiled, Written, UNCHANGED cvars, Out!WriteStruct
  PROVE  Written'
<1>1. Out!AtDef("structs") /\ "structs" \in SectionNames /\ Placed
  BY DEF Out!WriteStruct, SectionNames, Written
<1>2. /\ types' = types /\ defs' = defs /\ section = "structs" /\ section' = section /\ Placed'
      /\ Reached("structs") \in Nat /\ Reached("structs") < Len(defs)
      /\ Out!This = defs[Reached("structs") + 1] /\ Out!This \in Def
      /\ Wrote("structs") = {defs[i] : i \in 1..Reached("structs")}
      /\ Wrote("structs")' = Wrote("structs") \cup {Out!This}
      /\ Wrote("typedefs")' = Wrote("typedefs") /\ Wrote("prototypes")' = Wrote("prototypes")
      /\ Wrote("functions")' = Wrote("functions")
      /\ Part("enums")' = Part("enums") /\ Part("types")' = Part("types")
  BY <1>1, SectionStep DEF SectionNames
<1>3. /\ constants' = constants /\ typedefs' = typedefs /\ macros' = macros
      /\ protos' = protos /\ table' = table /\ bodies' = bodies
      /\ complete' = complete \cup StructsOf(types, {Out!This})
  BY StructsFacts DEF Out!WriteStruct
<1>4. KnownPart'
  <2>1. StructsOf(types, Wrote("structs") \cup {Out!This}) =
          StructsOf(types, Wrote("structs")) \cup StructsOf(types, {Out!This})
    BY DEF StructsOf
  <2> QED
    BY <1>2, <1>3, <2>1 DEF Written, KnownPart
<1>5. ListsPart' /\ BodiesPart'
  BY <1>2, <1>3 DEF Written, ListsPart, BodiesPart
<1> DEFINE held == Out!HeldByValue(Refs(types[Out!This]))
           missing == IF Out!Tag \in {"struct", "union"}
                      THEN StructsOf(types, held) \ complete ELSE {}
<1>6. typedefs = Def
  <2>1. Rank("typedefs") < Rank(section) /\ "typedefs" \in SectionNames
    BY <1>2, RankFacts DEF SectionNames
  <2> QED
    BY <1>1, <2>1, PastFacts DEF Written, KnownPart
<1>7. Out!DefsNamed(Refs(types[Out!This])) \ typedefs = {}
  BY <1>2, <1>6, CompiledFacts, NamedFacts
<1>8. faults' = faults \cup {<<"incomplete type", x>> : x \in missing}
  <2>1. faults' = faults
          \cup {<<"unknown type", x>> : x \in
                  IF Out!Tag \in Composite
                  THEN Out!DefsNamed(Refs(types[Out!This])) \ typedefs ELSE {}}
          \cup {<<"incomplete type", x>> : x \in missing}
    BY SameOutput, StructsFacts DEF Out!WriteStruct
  <2> HIDE DEF missing
  <2> QED
    BY <1>7, <2>1
<1>9. NoTypedefs => missing = {}
  <2> SUFFICES ASSUME NoTypedefs, Out!Tag \in {"struct", "union"}
               PROVE  held \subseteq Wrote("structs")
    BY DEF Written, KnownPart, StructsOf
  <2>1. Out!Tag = types[Out!This].tag /\ Out!Tag \in Composite
    BY DEF Out!Tag, Composite
  <2>2. ToSet(InplaceKids(types)[Out!This]) = held
    BY <1>2, <2>1, CompiledFacts, InplaceKidsFacts, NamedFacts
  <2>3. ToSet(InplaceKids(types)[Out!This]) \subseteq Wrote("structs")
    BY <1>2, CompiledFacts, KidsAreFunctions, KidsWritten
  <2> QED
    BY <2>2, <2>3
<1>10. FaultsPart'
  <2> HIDE DEF missing
  <2>1. ASSUME NEW f \in faults' PROVE f[1] = "incomplete type"
    <3>1. CASE f \in faults
      BY <3>1 DEF Written, FaultsPart, NamesDeclared
    <3>2. CASE f \notin faults
      <4>1. PICK x \in missing : f = <<"incomplete type", x>>
        BY <1>8, <2>1, <3>2
      <4> QED
        BY <4>1
    <3> QED
      BY <3>1, <3>2
  <2>2. CompleteWithoutTypedefs'
    BY <1>2, <1>8, <1>9 DEF Written, FaultsPart, CompleteWithoutTypedefs, NoTypedefs
  <2> QED
    BY <2>1, <2>2 DEF FaultsPart, NamesDeclared
<1> QED
  BY <1>2, <1>4, <1>5, <1>10 DEF Written

(***************************************************************************)
(* What one more def adds to the functions.                                *)
(***************************************************************************)
LEMMA FunctionsFacts ==
  /\ \A x : ToSet(Out!Functions(x)) = {<<"parse", x>>, <<"write", x>>}
  /\ \A S, x : FunctionsOf(types, S \cup {x}) =
        FunctionsOf(types, S) \cup ToSet(Out!Functions(x))
          \cup {<<"cleanup", y>> : y \in {y \in {x} : TagHasCleanup(types[y].tag)}}
<1>1. ASSUME NEW x PROVE ToSet(Out!Functions(x)) = {<<"parse", x>>, <<"write", x>>}
  <2>1. /\ DOMAIN Out!Functions(x) = {1, 2}
        /\ Out!Functions(x)[1] = <<"parse", x>> /\ Out!Functions(x)[2] = <<"write", x>>
    BY DEF Out!Functions
  <2> QED
    BY <2>1 DEF ToSet
<1>2. ASSUME NEW S, NEW x
      PROVE  FunctionsOf(types, S \cup {x}) =
        FunctionsOf(types, S) \cup ToSet(Out!Functions(x))
          \cup {<<"cleanup", y>> : y \in {y \in {x} : TagHasCleanup(types[y].tag)}}
  <2> DEFINE parses(R) == {<<"parse", y>> : y \in R}
             writes(R) == {<<"write", y>> : y \in R}
             cleanups(R) == {<<"cleanup", y>> : y \in {y \in R : TagHasCleanup(types[y].tag)}}
  <2>1. cleanups(S \cup {x}) = cleanups(S) \cup cleanups({x})
    OBVIOUS
  <2>2. parses(S \cup {x}) = parses(S) \cup {<<"parse", x>>}
    OBVIOUS
  <2>3. writes(S \cup {x}) = writes(S) \cup {<<"write", x>>}
    OBVIOUS
  <2>4. /\ FunctionsOf(types, S) = parses(S) \cup writes(S) \cup cleanups(S)
        /\ FunctionsOf(types, S \cup {x}) =
             parses(S \cup {x}) \cup writes(S \cup {x}) \cup cleanups(S \cup {x})
    BY DEF FunctionsOf
  <2>5. ToSet(Out!Functions(x)) = {<<"parse", x>>} \cup {<<"write", x>>}
    BY <1>1
  <2> HIDE DEF parses, writes, cleanups
  <2>6. FunctionsOf(types, S \cup {x}) =
          FunctionsOf(types, S) \cup ToSet(Out!Functions(x)) \cup cleanups({x})
    BY <2>1, <2>2, <2>3, <2>4, <2>5
  <2> QED
    BY <2>6 DEF cleanups
<1> QED
  BY <1>1, <1>2

LEMMA WritePrototypesWriter ==
  ASSUME PipeInv, Compiled, Written, UNCHANGED cvars, Out!WritePrototypes
  PROVE  Written'
<1>1. Out!AtDef("prototypes") /\ "prototypes" \in SectionNames /\ Placed
  BY DEF Out!WritePrototypes, SectionNames, Written
<1> DEFINE d == Out!This
           W == Wrote("prototypes")
<1>2. /\ types' = types /\ defs' = defs /\ section = "prototypes" /\ section' = section
      /\ Placed' /\ d \in Def /\ Wrote("prototypes")' = W \cup {d}
      /\ Wrote("typedefs")' = Wrote("typedefs") /\ Wrote("structs")' = Wrote("structs")
      /\ Wrote("functions")' = Wrote("functions")
      /\ Part("enums")' = Part("enums") /\ Part("types")' = Part("types")
  BY <1>1, SectionStep DEF SectionNames
<1>3. /\ constants' = constants /\ typedefs' = typedefs /\ complete' = complete
      /\ table' = table /\ bodies' = bodies
  BY DEF Out!WritePrototypes
<1>4. /\ protos = ReadyMade \cup FunctionsOf(types, W)
      /\ macros = [x \in Def |-> IF x \in W THEN MacroOf(types, x) ELSE Out!NoMacro]
      /\ Rank(section) = 4
  BY <1>2, RankFacts DEF Written, KnownPart
<1>5. /\ Out!HasCleanup(d) <=> TagHasCleanup(UnaliasTag(types, d))
      /\ Out!Tag = types[d].tag /\ (Out!Tag = "alias" <=> IsAlias(types, d))
      /\ ~IsAlias(types, d) => (Out!HasCleanup(d) <=> TagHasCleanup(types[d].tag))
      /\ IsAlias(types, d) => ~TagHasCleanup(types[d].tag)
  BY <1>2, CompiledFacts, CleanupFacts, SameOutput DEF Out!Tag, Out!HasCleanup, IsAlias
<1>6. macros' = [macros EXCEPT ![d] = MacroOf(types, d)]
  <2>1. Out!HasCleanup(d) /\ Out!Tag # "alias" =>
          macros[d] = Out!NoMacro /\ MacroOf(types, d) = Out!NoMacro
    BY <1>2, <1>4, <1>5 DEF MacroOf
  <2>2. Out!HasCleanup(d) /\ Out!Tag # "alias" => macros' = macros
    BY DEF Out!WritePrototypes
  <2>3. Out!HasCleanup(d) /\ Out!Tag = "alias" =>
          macros' = [macros EXCEPT ![d] = AliasOf(types, d)] /\ MacroOf(types, d) = AliasOf(types, d)
    BY <1>5, SameOutput DEF Out!WritePrototypes, MacroOf
  <2>4. ~Out!HasCleanup(d) =>
          macros' = [macros EXCEPT ![d] = Out!NoCleanup] /\ MacroOf(types, d) = Out!NoCleanup
    BY <1>5 DEF Out!WritePrototypes, MacroOf
  <2>5. macros[d] = MacroOf(types, d) => macros = [macros EXCEPT ![d] = MacroOf(types, d)]
    BY <1>4
  <2> QED
    BY <2>1, <2>2, <2>3, <2>4, <2>5
<1>7. macros' = [x \in Def |-> IF x \in W \cup {d} THEN MacroOf(types, x) ELSE Out!NoMacro]
  <2> HIDE DEF d, W
  <2> QED
    BY <1>2, <1>4, <1>6
<1>8. protos' = protos \cup ToSet(Out!Functions(d))
        \cup {<<"cleanup", y>> : y \in {y \in {d} : TagHasCleanup(types[y].tag)}}
  <2> DEFINE always == protos \cup ToSet(Out!Functions(d))
             own == {<<"cleanup", y>> : y \in {y \in {d} : TagHasCleanup(types[y].tag)}}
  <2>1. CASE TagHasCleanup(types[d].tag)
    <3>1. own = {<<"cleanup", d>>}
      BY <2>1
    <3>2. protos' = always \cup {<<"cleanup", d>>}
      BY <1>5, <2>1, SameOutput DEF Out!WritePrototypes
    <3> QED
      BY <3>1, <3>2
  <2>2. CASE ~TagHasCleanup(types[d].tag)
    <3>1. own = {}
      BY <2>2
    <3>2. protos' = always
      BY <1>5, <2>2, SameOutput DEF Out!WritePrototypes
    <3> QED
      BY <3>1, <3>2
  <2> QED
    BY <2>1, <2>2
<1>9. protos' = ReadyMade \cup FunctionsOf(types, W \cup {d})
  BY <1>4, <1>8, FunctionsFacts
<1>10. KnownPart'
  BY <1>2, <1>3, <1>4, <1>7, <1>9 DEF Written, KnownPart
<1>11. ListsPart' /\ BodiesPart'
  BY <1>2, <1>3 DEF Written, ListsPart, BodiesPart
<1>12. d \in typedefs
  <2>1. Rank("typedefs") < Rank(section) /\ "typedefs" \in SectionNames
    BY <1>2, RankFacts DEF SectionNames
  <2> QED
    BY <1>1, <1>2, <2>1, PastFacts DEF Written, KnownPart
<1>13. faults' = faults
  <2>1. {d} \ typedefs = {}
    BY <1>12
  <2> QED
    BY <2>1 DEF Out!WritePrototypes, Out!Blame
<1>14. FaultsPart'
  BY <1>2, <1>13 DEF Written, FaultsPart, NamesDeclared, CompleteWithoutTypedefs, NoTypedefs
<1> QED
  BY <1>2, <1>10, <1>11, <1>14 DEF Written

(***************************************************************************)
(* With all prototypes written, whatever has a cleanup has one declared.   *)
(***************************************************************************)
Declared ==
  /\ Typed(types) /\ SelfContained(types, Def) /\ ~AliasCycle(types, Def)
  /\ macros = [d \in Def |-> MacroOf(types, d)]
  /\ protos = ReadyMade \cup FunctionsOf(types, Def)

LEMMA CleanupDeclared ==
  ASSUME Declared, NEW x \in Leaf, Out!HasCleanup(x)
  PROVE  <<"cleanup", Out!Expanded(x)>> \in protos
<1>1. CASE x \in Def
  <2>1. Out!Expanded(x) = DefUnalias(types, x)
    BY <1>1, ExpandedFacts DEF Declared
  <2>2. DefUnalias(types, x) \in Def /\ TagHasCleanup(types[DefUnalias(types, x)].tag)
    BY <1>1, CleanupFacts, UnaliasStays DEF Declared
  <2>3. <<"cleanup", DefUnalias(types, x)>> \in FunctionsOf(types, Def)
    BY <2>2 DEF FunctionsOf
  <2> QED
    BY <2>1, <2>3 DEF Declared
<1>2. CASE x \notin Def
  <2>1. x = "any"
    <3>1. TagHasCleanup(x) /\ x \in PlainTags
      BY <1>2, SameOutput DEF Out!HasCleanup, UnaliasTag, Leaf
    <3> QED
      BY <3>1 DEF TagHasCleanup, PlainTags
  <2> DEFINE f == [n \in 0..Cardinality(Def) |-> x]
  <2>2. Out!Replaced(x) = x
    BY <1>2 DEF Out!Replaced
  <2>3. Cardinality(Def) \in Nat
    BY DefsAreNotTags, FS_CardinalityType
  <2>4. /\ f \in [0..Cardinality(Def) -> {x}] /\ f[0] = x /\ f[Cardinality(Def)] = x
        /\ \A n \in 1..Cardinality(Def) : f[n] = Out!Replaced(f[n-1])
    BY <2>2, <2>3
  <2>5. Out!Expanded(x) = x
    <3> HIDE DEF f
    <3> QED
      BY <2>4, ExpandedRun
  <2> QED
    BY <2>1, <2>5 DEF Declared, ReadyMade
<1> QED
  BY <1>1, <1>2

LEMMA AllDeclared ==
  ASSUME PipeInv, Compiled, Written, Rank(section) > 4
  PROVE  Declared
<1>1. Wrote("prototypes") = Def
  BY PastFacts, RankFacts DEF Written, SectionNames
<1>2. Rank(section) \in 1..7
  BY RankFacts DEF Written, Placed
<1> QED
  BY <1>1, <1>2, CompiledFacts DEF Declared, Written, KnownPart

LEMMA WriteTypeDefinitionWriter ==
  ASSUME PipeInv, Compiled, Written, UNCHANGED cvars, Out!WriteTypeDefinition
  PROVE  Written'
<1>1. Out!AtDef("types") /\ "types" \in SectionNames /\ Placed
  BY DEF Out!WriteTypeDefinition, SectionNames, Written
<1>2. /\ types' = types /\ defs' = defs /\ section = "types" /\ section' = section /\ Placed'
      /\ Out!This \in Def /\ Rank(section) = 5
      /\ Wrote("typedefs")' = Wrote("typedefs")
      /\ Wrote("structs")' = Wrote("structs") /\ Wrote("prototypes")' = Wrote("prototypes")
      /\ Wrote("functions")' = Wrote("functions")
      /\ Part("types")' = Append(Part("types"), Out!This) /\ Part("enums")' = Part("enums")
  BY <1>1, SectionStep, RankFacts DEF SectionNames
<1>3. /\ table' = Append(table, Out!This) /\ constants' = constants
      /\ typedefs' = typedefs /\ complete' = complete /\ macros' = macros
      /\ protos' = protos /\ bodies' = bodies
  BY DEF Out!WriteTypeDefinition
<1>4. KnownPart' /\ BodiesPart'
  BY <1>2, <1>3 DEF Written, KnownPart, BodiesPart
<1>5. ListsPart'
  <2>1. Append(Out!Builtins \o Part("types"), Out!This) =
          Out!Builtins \o Append(Part("types"), Out!This)
    <3>1. Part("types") \in Seq(Item) /\ Out!Builtins \in Seq(Item) /\ Out!This \in Item
      BY <1>1, <1>2, PartTypes DEF PipeInv, Item
    <3> QED
      BY <3>1, AppendConcat
  <2>2. table = Out!Builtins \o Part("types") /\ constants = Out!Builtins \o Part("enums")
    BY <1>2 DEF Written, ListsPart
  <2>3. table' = Out!Builtins \o Part("types")' /\ constants' = Out!Builtins \o Part("enums")'
    BY <1>2, <1>3, <2>1, <2>2
  <2> QED
    BY <1>2, <2>3 DEF ListsPart
<1>6. Declared
  BY <1>2, AllDeclared
<1>7. Out!Undeclared({x \in {Out!This} : Out!HasCleanup(x)}) = {}
  BY <1>2, <1>6, CleanupDeclared DEF Out!Undeclared, Leaf
<1>8. ToSet(Out!Functions(Out!This)) \ protos = {}
  BY <1>2, <1>6, FunctionsFacts DEF Declared, FunctionsOf
<1>9. faults' = faults
  BY <1>7, <1>8, SameOutput DEF Out!WriteTypeDefinition, Out!Blame
<1>10. FaultsPart'
  BY <1>2, <1>9 DEF Written, FaultsPart, NamesDeclared, CompleteWithoutTypedefs, NoTypedefs
<1> QED
  BY <1>2, <1>4, <1>5, <1>10 DEF Written

(***************************************************************************)
(* Sequences without repetitions, one after the other.                     *)
(***************************************************************************)
LEMMA InjectiveConcat ==
  \A s, t \in Seq(Fn) :
    IsInjective(s) /\ IsInjective(t) /\ ToSet(s) \cap ToSet(t) = {} =>
      s \o t \in Seq(Fn) /\ IsInjective(s \o t) /\ ToSet(s \o t) = ToSet(s) \cup ToSet(t)
<1> SUFFICES ASSUME NEW s \in Seq(Fn), NEW t \in Seq(Fn), IsInjective(s), IsInjective(t),
                    ToSet(s) \cap ToSet(t) = {}
             PROVE  /\ s \o t \in Seq(Fn) /\ IsInjective(s \o t)
                    /\ ToSet(s \o t) = ToSet(s) \cup ToSet(t)
  OBVIOUS
<1> DEFINE c == s \o t
<1>1. /\ c \in Seq(Fn) /\ Len(c) = Len(s) + Len(t) /\ Len(s) \in Nat /\ Len(t) \in Nat
      /\ \A i \in 1..(Len(s) + Len(t)) : c[i] = IF i <= Len(s) THEN s[i] ELSE t[i - Len(s)]
      /\ DOMAIN s = 1..Len(s) /\ DOMAIN t = 1..Len(t)
  BY ConcatProperties, LenProperties
<1>2. DOMAIN c = 1..(Len(s) + Len(t))
  BY <1>1, LenProperties
<1>3. ToSet(c) = ToSet(s) \cup ToSet(t)
  BY ConcatFacts
<1> HIDE DEF c
<1>4. ASSUME NEW i \in DOMAIN c, NEW j \in DOMAIN c, c[i] = c[j] PROVE i = j
  <2>1. CASE i <= Len(s) /\ j <= Len(s)
    <3>1. i \in DOMAIN s /\ j \in DOMAIN s /\ s[i] = s[j]
      BY <1>1, <1>2, <1>4, <2>1
    <3> QED
      BY <3>1 DEF IsInjective
  <2>2. CASE i > Len(s) /\ j > Len(s)
    <3>1. i - Len(s) \in DOMAIN t /\ j - Len(s) \in DOMAIN t /\ t[i - Len(s)] = t[j - Len(s)]
      BY <1>1, <1>2, <1>4, <2>2
    <3>2. i - Len(s) = j - Len(s)
      BY <3>1 DEF IsInjective
    <3> QED
      BY <1>1, <1>2, <3>2
  <2>3. CASE i <= Len(s) /\ j > Len(s)
    <3>1. s[i] \in ToSet(s) /\ t[j - Len(s)] \in ToSet(t) /\ s[i] = t[j - Len(s)]
      BY <1>1, <1>2, <1>4, <2>3 DEF ToSet
    <3> QED
      BY <3>1
  <2>4. CASE i > Len(s) /\ j <= Len(s)
    <3>1. s[j] \in ToSet(s) /\ t[i - Len(s)] \in ToSet(t) /\ s[j] = t[i - Len(s)]
      BY <1>1, <1>2, <1>4, <2>4 DEF ToSet
    <3> QED
      BY <3>1
  <2> QED
    BY <1>1, <1>2, <2>1, <2>2, <2>3, <2>4
<1>5. IsInjective(c)
  BY <1>4 DEF IsInjective
<1> QED
  BY <1>1, <1>3, <1>5 DEF c

(***************************************************************************)
(* The two or three functions of one def.                                  *)
(***************************************************************************)
LEMMA BodyFacts ==
  ASSUME NEW x \in Item
  PROVE  /\ Out!Functions(x) \in Seq(Fn) /\ IsInjective(Out!Functions(x))
         /\ << <<"cleanup", x>> >> \in Seq(Fn) /\ IsInjective(<< <<"cleanup", x>> >>)
         /\ ToSet(<< <<"cleanup", x>> >>) = {<<"cleanup", x>>}
<1>1. <<"cleanup", x>> \in Fn /\ <<"parse", x>> \in Fn /\ <<"write", x>> \in Fn
  BY DEF Fn
<1>2. Out!Functions(x) \in Seq(Fn)
  BY <1>1 DEF Out!Functions
<1>3. /\ DOMAIN Out!Functions(x) = {1, 2}
      /\ Out!Functions(x)[1] = <<"parse", x>> /\ Out!Functions(x)[2] = <<"write", x>>
  BY DEF Out!Functions
<1>4. <<"parse", x>> # <<"write", x>>
  OBVIOUS
<1>5. IsInjective(Out!Functions(x))
  BY <1>3, <1>4 DEF IsInjective
<1> DEFINE one == << <<"cleanup", x>> >>
<1>6. one \in Seq(Fn) /\ DOMAIN one = {1} /\ one[1] = <<"cleanup", x>>
  BY <1>1
<1>7. IsInjective(one) /\ ToSet(one) = {<<"cleanup", x>>}
  <2> HIDE DEF one
  <2> QED
    BY <1>6 DEF IsInjective, ToSet
<1> QED
  BY <1>2, <1>5, <1>6, <1>7

LEMMA BodiesGrow ==
  \A b \in Seq(Fn) : \A x \in Item :
    IsInjective(b) /\ (\A name : <<name, x>> \notin ToSet(b)) =>
      /\ b \o Out!Functions(x) \in Seq(Fn) /\ IsInjective(b \o Out!Functions(x))
      /\ ToSet(b \o Out!Functions(x)) = ToSet(b) \cup ToSet(Out!Functions(x))
      /\ b \o << <<"cleanup", x>> >> \o Out!Functions(x) \in Seq(Fn)
      /\ IsInjective(b \o << <<"cleanup", x>> >> \o Out!Functions(x))
      /\ ToSet(b \o << <<"cleanup", x>> >> \o Out!Functions(x)) =
           ToSet(b) \cup ToSet(Out!Functions(x)) \cup {<<"cleanup", x>>}
<1> SUFFICES ASSUME NEW b \in Seq(Fn), NEW x \in Item, IsInjective(b),
                    \A name : <<name, x>> \notin ToSet(b)
             PROVE
      /\ b \o Out!Functions(x) \in Seq(Fn) /\ IsInjective(b \o Out!Functions(x))
      /\ ToSet(b \o Out!Functions(x)) = ToSet(b) \cup ToSet(Out!Functions(x))
      /\ b \o << <<"cleanup", x>> >> \o Out!Functions(x) \in Seq(Fn)
      /\ IsInjective(b \o << <<"cleanup", x>> >> \o Out!Functions(x))
      /\ ToSet(b \o << <<"cleanup", x>> >> \o Out!Functions(x)) =
           ToSet(b) \cup ToSet(Out!Functions(x)) \cup {<<"cleanup", x>>}
  OBVIOUS
<1> DEFINE f == Out!Functions(x)
           c == << <<"cleanup", x>> >>
<1>1. /\ f \in Seq(Fn) /\ IsInjective(f) /\ ToSet(f) = {<<"parse", x>>, <<"write", x>>}
      /\ c \in Seq(Fn) /\ IsInjective(c) /\ ToSet(c) = {<<"cleanup", x>>}
  BY BodyFacts, FunctionsFacts
<1>2. /\ ToSet(b) \cap {<<"parse", x>>, <<"write", x>>} = {}
      /\ ToSet(b) \cap {<<"cleanup", x>>} = {}
      /\ (ToSet(b) \cup {<<"cleanup", x>>}) \cap {<<"parse", x>>, <<"write", x>>} = {}
  OBVIOUS
<1> HIDE DEF f, c
<1>3. b \o f \in Seq(Fn) /\ IsInjective(b \o f) /\ ToSet(b \o f) = ToSet(b) \cup ToSet(f)
  BY <1>1, <1>2, InjectiveConcat
<1>4. b \o c \in Seq(Fn) /\ IsInjective(b \o c) /\ ToSet(b \o c) = ToSet(b) \cup ToSet(c)
  BY <1>1, <1>2, InjectiveConcat
<1>5. /\ b \o c \o f \in Seq(Fn) /\ IsInjective(b \o c \o f)
      /\ ToSet(b \o c \o f) = ToSet(b \o c) \cup ToSet(f)
  <2>1. ToSet(b \o c) \cap ToSet(f) = {}
    BY <1>1, <1>2, <1>4
  <2> DEFINE bc == b \o c
  <2>2. bc \in Seq(Fn) /\ IsInjective(bc) /\ ToSet(bc) \cap ToSet(f) = {}
    BY <1>4, <2>1
  <2> HIDE DEF bc
  <2>3. /\ bc \o f \in Seq(Fn) /\ IsInjective(bc \o f)
        /\ ToSet(bc \o f) = ToSet(bc) \cup ToSet(f)
    BY <1>1, <2>2, InjectiveConcat
  <2> QED
    BY <2>3 DEF bc
<1>6. ToSet(b \o c \o f) = ToSet(b) \cup ToSet(f) \cup {<<"cleanup", x>>}
  BY <1>1, <1>4, <1>5
<1> QED
  BY <1>3, <1>5, <1>6 DEF f, c

LEMMA HeldStays ==
  ASSUME Typed(types), SelfContained(types, Def), NEW d \in Def
  PROVE  Out!HeldByValue(Refs(types[d])) \subseteq Def
<1>1. \A r \in Holding(types, Refs(types[d])) : DefUnalias(types, r.to) \in Def
  BY UnaliasStays DEF Holding, Naming
<1> QED
  BY <1>1, NamedFacts

LEMMA WriteFunctionsWriter ==
  ASSUME PipeInv, Compiled, Written, UNCHANGED cvars, Out!WriteFunctions
  PROVE  Written'
<1>1. Out!AtDef("functions") /\ "functions" \in SectionNames /\ Placed
  BY DEF Out!WriteFunctions, SectionNames, Written
<1> DEFINE d == Out!This
           W == Wrote("functions")
<1>2. /\ types' = types /\ defs' = defs /\ section = "functions" /\ section' = section
      /\ Placed' /\ d \in Def /\ Rank(section) = 6
      /\ Reached("functions") \in Nat /\ Reached("functions") < Len(defs)
      /\ d = defs[Reached("functions") + 1] /\ W = {defs[i] : i \in 1..Reached("functions")}
      /\ Wrote("functions")' = W \cup {d}
      /\ Wrote("typedefs")' = Wrote("typedefs") /\ Wrote("structs")' = Wrote("structs")
      /\ Wrote("prototypes")' = Wrote("prototypes")
      /\ Part("enums")' = Part("enums") /\ Part("types")' = Part("types")
  BY <1>1, SectionStep, RankFacts DEF SectionNames
<1>3. /\ constants' = constants /\ typedefs' = typedefs /\ complete' = complete
      /\ macros' = macros /\ protos' = protos /\ table' = table
  BY DEF Out!WriteFunctions
<1>4. KnownPart' /\ ListsPart'
  BY <1>2, <1>3 DEF Written, KnownPart, ListsPart
<1>5. /\ bodies \in Seq(Fn) /\ IsInjective(bodies)
      /\ ToSet(bodies) = ReadyMade \cup FunctionsOf(types, W)
  BY <1>2 DEF Written, BodiesPart
<1>6. \A name : <<name, d>> \notin ToSet(bodies)
  <2>1. d \notin W
    <3>1. \A i \in 1..Reached("functions") : i \in 1..Len(defs) /\ i # Reached("functions") + 1
      BY <1>2
    <3>2. Reached("functions") + 1 \in 1..Len(defs)
      BY <1>2
    <3> QED
      BY <1>2, <3>1, <3>2, CompiledFacts
  <2>2. d # "any" /\ d # "type"
    BY <1>2, DefsAreNotTags DEF Tags, PlainTags
  <2> HIDE DEF d, W
  <2> QED
    BY <1>5, <2>1, <2>2 DEF ReadyMade, FunctionsOf
<1>7. /\ Out!Tag = types[d].tag
      /\ TagHasCleanup(types[d].tag) =>
           bodies' = bodies \o << <<"cleanup", d>> >> \o Out!Functions(d)
      /\ ~TagHasCleanup(types[d].tag) => bodies' = bodies \o Out!Functions(d)
  BY SameOutput DEF Out!WriteFunctions, Out!Tag
<1>8. /\ bodies' \in Seq(Fn) /\ IsInjective(bodies')
      /\ ToSet(bodies') = ToSet(bodies) \cup ToSet(Out!Functions(d))
           \cup {<<"cleanup", y>> : y \in {y \in {d} : TagHasCleanup(types[y].tag)}}
  <2> DEFINE own == {<<"cleanup", y>> : y \in {y \in {d} : TagHasCleanup(types[y].tag)}}
  <2>1. d \in Item
    BY <1>2 DEF Item
  <2>2. CASE TagHasCleanup(types[d].tag)
    <3>1. own = {<<"cleanup", d>>}
      BY <2>2
    <3>2. /\ bodies' \in Seq(Fn) /\ IsInjective(bodies')
          /\ ToSet(bodies') = ToSet(bodies) \cup ToSet(Out!Functions(d)) \cup {<<"cleanup", d>>}
      <4> HIDE DEF d
      <4> QED
        BY <1>5, <1>6, <1>7, <2>1, <2>2, BodiesGrow
    <3> QED
      BY <3>1, <3>2
  <2>3. CASE ~TagHasCleanup(types[d].tag)
    <3>1. own = {}
      BY <2>3
    <3>2. /\ bodies' \in Seq(Fn) /\ IsInjective(bodies')
          /\ ToSet(bodies') = ToSet(bodies) \cup ToSet(Out!Functions(d))
      <4> HIDE DEF d
      <4> QED
        BY <1>5, <1>6, <1>7, <2>1, <2>3, BodiesGrow
    <3> QED
      BY <3>1, <3>2
  <2> QED
    BY <2>2, <2>3
<1>9. BodiesPart'
  <2>1. ToSet(bodies') = ReadyMade \cup FunctionsOf(types, W \cup {d})
    BY <1>5, <1>8, FunctionsFacts
  <2>2. FunctionsOf(types, Wrote("functions"))' = FunctionsOf(types, W \cup {d})
    <3> HIDE DEF d, W
    <3> QED
      BY <1>2
  <2> HIDE DEF d, W
  <2> QED
    BY <1>2, <1>8, <2>1, <2>2 DEF BodiesPart
<1>10. faults' = faults
  <2>1. Declared
    BY <1>2, AllDeclared
  <2>2. Out!Undeclared(Out!Owned(d)) = {}
    <3>1. Out!Owned(d) \subseteq Leaf
      BY <1>2, <2>1, RefsFacts, SameOutput DEF Declared, Out!Owned, Ref
    <3>2. \A x \in Out!Owned(d) : Out!HasCleanup(x)
      BY DEF Out!Owned
    <3> QED
      BY <2>1, <3>1, <3>2, CleanupDeclared DEF Out!Undeclared
  <2>3. complete = StructsOf(types, Def)
    <3>1. Wrote("structs") = Def
      BY <1>1, <1>2, PastFacts, RankFacts DEF SectionNames
    <3> QED
      BY <3>1 DEF Written, KnownPart
  <2>4. StructsOf(types, {d} \cup Out!HeldByValue(Refs(types[d]))) \ complete = {}
    <3>1. Out!HeldByValue(Refs(types[d])) \subseteq Def
      BY <1>2, <2>1, HeldStays DEF Declared
    <3> QED
      BY <1>2, <2>3, <3>1 DEF StructsOf
  <2> QED
    BY <2>2, <2>4, SameOutput, StructsFacts DEF Out!WriteFunctions
<1>11. FaultsPart'
  BY <1>2, <1>10 DEF Written, FaultsPart, NamesDeclared, CompleteWithoutTypedefs, NoTypedefs
<1> QED
  BY <1>2, <1>4, <1>9, <1>11 DEF Written

(***************************************************************************)
(* What is written at the head of a section, before its loop.              *)
(***************************************************************************)
LEMMA ReadyMadeFacts ==
  /\ {<<"cleanup", "any">>} \cup ToSet(Out!Functions("any") \o Out!Functions("type")) = ReadyMade
  /\ << <<"cleanup", "any">> >> \o Out!Functions("any") \o Out!Functions("type") \in Seq(Fn)
  /\ IsInjective(<< <<"cleanup", "any">> >> \o Out!Functions("any") \o Out!Functions("type"))
  /\ ToSet(<< <<"cleanup", "any">> >> \o Out!Functions("any") \o Out!Functions("type")) = ReadyMade
<1> DEFINE c == << <<"cleanup", "any">> >>
           f == Out!Functions("any")
           g == Out!Functions("type")
<1>1. /\ c \in Seq(Fn) /\ IsInjective(c) /\ ToSet(c) = {<<"cleanup", "any">>}
      /\ f \in Seq(Fn) /\ IsInjective(f) /\ ToSet(f) = {<<"parse", "any">>, <<"write", "any">>}
      /\ g \in Seq(Fn) /\ IsInjective(g) /\ ToSet(g) = {<<"parse", "type">>, <<"write", "type">>}
  BY BodyFacts, FunctionsFacts DEF Item
<1> HIDE DEF c, f, g
<1>2. "any" # "type" /\ "cleanup" # "parse" /\ "cleanup" # "write" /\ "parse" # "write"
  OBVIOUS
<1>3. f \o g \in Seq(Fn) /\ ToSet(f \o g) = ToSet(f) \cup ToSet(g)
  BY <1>1, <1>2, InjectiveConcat
<1>4. c \o f \in Seq(Fn) /\ IsInjective(c \o f) /\ ToSet(c \o f) = ToSet(c) \cup ToSet(f)
  BY <1>1, <1>2, InjectiveConcat
<1> DEFINE cf == c \o f
<1>5. cf \in Seq(Fn) /\ IsInjective(cf) /\ ToSet(cf) \cap ToSet(g) = {}
  BY <1>1, <1>2, <1>4
<1>6. cf \o g \in Seq(Fn) /\ IsInjective(cf \o g) /\ ToSet(cf \o g) = ToSet(cf) \cup ToSet(g)
  <2> HIDE DEF cf
  <2> QED
    BY <1>1, <1>5, InjectiveConcat
<1>7. {<<"cleanup", "any">>} \cup ToSet(f \o g) = ReadyMade
  BY <1>1, <1>3 DEF ReadyMade
<1>8. ToSet(c \o f \o g) = ReadyMade
  BY <1>1, <1>4, <1>6 DEF ReadyMade
<1> QED
  BY <1>6, <1>7, <1>8 DEF c, f, g

LEMMA NextSectionWriter ==
  ASSUME PipeInv, Compiled, Written, UNCHANGED cvars, Out!NextSection
  PROVE  Written'
<1>1. types' = types /\ defs' = defs /\ defs \in Seq(Def) /\ Placed
  BY DEF cvars, PipeInv, Written
<1>2. /\ Placed' /\ Rank(section') = Rank(section) + 1 /\ section' # section
      /\ \A n \in SectionNames :
           Reached(n)' = Reached(n) /\ Wrote(n)' = Wrote(n) /\ Part(n)' = Part(n)
  BY <1>1, NextSectionFacts
<1>3. /\ typedefs' = typedefs /\ complete' = complete /\ macros' = macros /\ faults' = faults
      /\ Out!Preamble(section')
  BY DEF Out!NextSection
<1>4. /\ Wrote("typedefs")' = Wrote("typedefs") /\ Wrote("structs")' = Wrote("structs")
      /\ Wrote("prototypes")' = Wrote("prototypes") /\ Wrote("functions")' = Wrote("functions")
      /\ Part("enums")' = Part("enums") /\ Part("types")' = Part("types")
  BY <1>2 DEF SectionNames
<1>5. /\ Rank(section) \in 1..6 /\ Rank(section') \in 2..7
      /\ section' = "enums" <=> Rank(section) = 1
      /\ section' = "prototypes" <=> Rank(section) = 3
      /\ section' = "types" <=> Rank(section) = 4
      /\ section' = "functions" <=> Rank(section) = 5
  <2>1. section \in SectionNames /\ section' \in SectionNames
    BY <1>1, <1>2 DEF Placed
  <2> HIDE DEF Rank
  <2> QED
    BY <1>2, <2>1, RankFacts DEF SectionNames
<1>6. ASSUME NEW n \in SectionNames, Rank(section) < Rank(n)
      PROVE  Wrote(n) = {} /\ Part(n) = <<>>
  <2>1. section # n /\ ~(Rank(n) < Rank(section))
    BY <1>5, <1>6, RankFacts
  <2>2. Reached(n) = 0
    BY <2>1 DEF Reached
  <2> QED
    BY <2>2, SubSeqEmpty DEF Wrote, Part
<1>7. KnownPart'
  <2>1. protos' = IF Rank(section') < 4 THEN {}
                  ELSE ReadyMade \cup FunctionsOf(types, Wrote("prototypes"))
    <3>1. CASE Rank(section) = 3
      <4>1. Wrote("prototypes") = {}
        BY <1>6, <3>1, RankFacts DEF SectionNames
      <4>2. protos' = ReadyMade
        BY <1>3, <1>5, <3>1, ReadyMadeFacts, SameOutput DEF Out!Preamble
      <4> QED
        BY <1>2, <3>1, <4>1, <4>2 DEF FunctionsOf
    <3>2. CASE Rank(section) # 3
      <4>1. protos' = protos
        BY <1>3, <1>5, <3>2 DEF Out!Preamble
      <4> QED
        BY <1>2, <1>5, <3>2, <4>1 DEF Written, KnownPart
    <3> QED
      BY <3>1, <3>2
  <2> QED
    BY <1>1, <1>3, <1>4, <2>1 DEF Written, KnownPart
<1>8. ListsPart'
  <2>1. Out!Builtins \o <<>> = Out!Builtins
    BY <1>1, PartTypes, ConcatEmptySeq DEF SectionNames
  <2>2. constants' = IF Rank(section') < 2 THEN <<>> ELSE Out!Builtins \o Part("enums")
    <3>1. CASE Rank(section) = 1
      <4>1. Part("enums") = <<>>
        BY <1>6, <3>1, RankFacts DEF SectionNames
      <4>2. constants' = Out!Builtins
        BY <1>3, <1>5, <3>1 DEF Out!Preamble
      <4>3. Out!Builtins \o Part("enums") = Out!Builtins
        BY <2>1, <4>1, Zenon
      <4>4. ~(Rank(section') < 2)
        BY <1>2, <3>1
      <4> QED
        BY <4>2, <4>3, <4>4, Zenon
    <3>2. CASE Rank(section) # 1
      <4>1. constants' = constants
        BY <1>3, <1>5, <3>2 DEF Out!Preamble
      <4> QED
        BY <1>2, <1>5, <3>2, <4>1 DEF Written, ListsPart
    <3> QED
      BY <3>1, <3>2
  <2>3. table' = IF Rank(section') < 5 THEN <<>> ELSE Out!Builtins \o Part("types")
    <3>1. CASE Rank(section) = 4
      <4>1. Part("types") = <<>>
        BY <1>6, <3>1, RankFacts DEF SectionNames
      <4>2. table' = Out!Builtins
        BY <1>3, <1>5, <3>1 DEF Out!Preamble
      <4>3. Out!Builtins \o Part("types") = Out!Builtins
        BY <2>1, <4>1, Zenon
      <4>4. ~(Rank(section') < 5)
        BY <1>2, <3>1
      <4> QED
        BY <4>2, <4>3, <4>4, Zenon
    <3>2. CASE Rank(section) # 4
      <4>1. table' = table
        BY <1>3, <1>5, <3>2 DEF Out!Preamble
      <4> QED
        BY <1>2, <1>5, <3>2, <4>1 DEF Written, ListsPart
    <3> QED
      BY <3>1, <3>2
  <2> QED
    BY <1>4, <2>2, <2>3 DEF ListsPart
<1>9. BodiesPart'
  <2>1. CASE Rank(section) = 5
    <3>1. Wrote("functions") = {}
      BY <1>6, <2>1, RankFacts DEF SectionNames
    <3>2. bodies' = << <<"cleanup", "any">> >> \o Out!Functions("any") \o Out!Functions("type")
      BY <1>3, <1>5, <2>1 DEF Out!Preamble
    <3>3. bodies' \in Seq(Fn) /\ IsInjective(bodies') /\ ToSet(bodies') = ReadyMade
      BY <3>2, ReadyMadeFacts
    <3> QED
      BY <1>1, <1>2, <1>4, <2>1, <3>1, <3>3 DEF BodiesPart, FunctionsOf
  <2>2. CASE Rank(section) # 5
    <3>1. bodies' = bodies
      BY <1>3, <1>5, <2>2 DEF Out!Preamble
    <3> QED
      BY <1>1, <1>2, <1>4, <1>5, <2>2, <3>1 DEF Written, BodiesPart
  <2> QED
    BY <2>1, <2>2
<1>10. FaultsPart'
  BY <1>1, <1>3 DEF Written, FaultsPart, NamesDeclared, CompleteWithoutTypedefs, NoTypedefs
<1> QED
  BY <1>2, <1>7, <1>8, <1>9, <1>10 DEF Written

(***************************************************************************)
(* Compiling steps begin and end before anything is written.               *)
(***************************************************************************)
LEMMA CompilingWriter ==
  ASSUME PipeInv, WriterInv, Compiling, PipeInv'
  PROVE  WriterInv'
<1>1. ~Compiled
  BY LenProperties
     DEF Compiling, Step, Compiled, Validating, Validated, Sorting, Sorted, SortFailed, NextFile
<1>2. Out!OutInit
  BY <1>1 DEF WriterInv
<1>3. Out!OutInit'
  BY <1>2 DEF Compiling, outVars, Out!OutInit
<1>4. (defs \in Seq(Def))'
  BY DEF PipeInv
<1>5. Written'
  BY <1>3, <1>4, NothingWritten, PTL
<1> QED
  BY <1>3, <1>5 DEF WriterInv

LEMMA WritingWriter ==
  ASSUME PipeInv, WriterInv, Writing
  PROVE  WriterInv'
<1>1. Compiled /\ Written /\ UNCHANGED cvars /\ Out!Write
  BY DEF Writing, WriterInv
<1>2. Compiled'
  BY <1>1 DEF Compiled, cvars
<1>3. Written'
  BY <1>1, WriteTypedefWriter, WriteEnumWriter, WriteStructWriter, WritePrototypesWriter,
     WriteTypeDefinitionWriter, WriteFunctionsWriter, NextSectionWriter DEF Out!Write
<1> QED
  BY <1>2, <1>3 DEF WriterInv

LEMMA StillWriter ==
  ASSUME WriterInv, UNCHANGED fuscVars
  PROVE  WriterInv'
<1>1. /\ types' = types /\ defs' = defs /\ phase' = phase
      /\ section' = section /\ at' = at /\ typedefs' = typedefs /\ constants' = constants
      /\ complete' = complete /\ macros' = macros /\ protos' = protos /\ table' = table
      /\ bodies' = bodies /\ faults' = faults
  BY DEF fuscVars, cvars, outVars
<1>2. \A n : Wrote(n)' = Wrote(n) /\ Part(n)' = Part(n)
  BY <1>1 DEF Wrote, Part, Reached
<1>3. (Compiled \/ Out!OutInit)'
  BY <1>1 DEF WriterInv, Compiled, Out!OutInit
<1>4. KnownPart' /\ ListsPart' /\ BodiesPart' /\ Placed'
  BY <1>1, <1>2 DEF WriterInv, Written, KnownPart, ListsPart, BodiesPart, Placed
<1>5. FaultsPart'
  BY <1>1 DEF WriterInv, Written, FaultsPart, NamesDeclared, CompleteWithoutTypedefs, NoTypedefs
<1> QED
  BY <1>3, <1>4, <1>5 DEF WriterInv, Written

LEMMA WriterHolds == FuscSpec => []WriterInv
<1>1. FuscInit => WriterInv
  <2>1. FuscInit => Out!OutInit /\ defs \in Seq(Def)
    BY InitPipe DEF FuscInit, PipeInv
  <2> QED
    BY <2>1, NothingWritten DEF WriterInv
<1>2. PipeInv /\ PipeInv' /\ WriterInv /\ [FuscNext]_fuscVars => WriterInv'
  BY CompilingWriter, WritingWriter, StillWriter DEF FuscNext, Exited
<1> QED
  BY <1>1, <1>2, PipelineHolds, PTL DEF FuscSpec

-----------------------------------------------------------------------------
(***************************************************************************)
(* Whatever program is compiled, however long its chains of aliases, the   *)
(* names the output uses are known where it uses them.                     *)
(***************************************************************************)
THEOREM NamesAreDeclared == FuscSpec => []NamesDeclared
<1>1. WriterInv => NamesDeclared
  BY DEF WriterInv, Written, FaultsPart
<1> QED
  BY <1>1, WriterHolds, PTL

(***************************************************************************)
(* Every function that is declared is written, once, and no other; and     *)
(* types[TYPE_d] is d's entry in the table, for any number of defs.        *)
(***************************************************************************)
THEOREM OutputLinks == FuscSpec => []Links
<1>1. PipeInv /\ WriterInv => Links
  <2> SUFFICES ASSUME PipeInv, WriterInv, section = "end" PROVE Links
    BY DEF Links
  <2>1. Compiled /\ Written /\ Placed
    BY DEF WriterInv, Written, Out!OutInit
  <2>2. Wrote("prototypes") = Def /\ Wrote("functions") = Def
    BY <2>1, PastFacts, RankFacts DEF SectionNames
  <2>3. Part("enums") = Part("types")
    BY RankFacts DEF Part, Reached
  <2>4. Rank(section) = 7
    BY RankFacts
  <2>5. ToSet(bodies) = protos /\ IsInjective(bodies)
    <3>1. protos = ReadyMade \cup FunctionsOf(types, Def)
      BY <2>1, <2>2, <2>4 DEF Written, KnownPart
    <3>2. ToSet(bodies) = ReadyMade \cup FunctionsOf(types, Def) /\ IsInjective(bodies)
      BY <2>1, <2>2, <2>4 DEF Written, BodiesPart
    <3> QED
      BY <3>1, <3>2
  <2>6. table = constants
    BY <2>1, <2>3, <2>4 DEF Written, ListsPart
  <2> QED
    BY <2>5, <2>6 DEF Links
<1> QED
  BY <1>1, PipelineHolds, WriterHolds, PTL

(***************************************************************************)
(* A program without aliases and funcs is written as valid C: its structs  *)
(* are complete where they are held by value.                              *)
(***************************************************************************)
THEOREM CompleteWithoutTypedefsHolds == FuscSpec => []CompleteWithoutTypedefs
<1>1. WriterInv => CompleteWithoutTypedefs
  BY DEF WriterInv, Written, FaultsPart
<1> QED
  BY <1>1, WriterHolds, PTL
=============================================================================
