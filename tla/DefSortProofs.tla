--------------------------- MODULE DefSortProofs ---------------------------
(***************************************************************************)
(* Proofs about DefSort, for every set of defs, every family of children   *)
(* relations and every starting order.                                     *)
(***************************************************************************)
EXTENDS DefSort, SequenceTheorems, FiniteSetTheorems, TLAPS

-----------------------------------------------------------------------------
(***************************************************************************)
(* The stack after each of the three things that happen to it, element by  *)
(* element: sorter_visit moves on to a child, calls itself, returns.       *)
(***************************************************************************)
LEMMA AdvancedFacts ==
  ASSUME stack \in Seq(Frame), stack # <<>>
  PROVE  /\ Top = stack[Len(stack)]
         /\ Top \in Frame
         /\ Advanced \in Seq(Frame)
         /\ Len(Advanced) = Len(stack)
         /\ \A i \in 1..Len(stack) :
              /\ Advanced[i].def = stack[i].def
              /\ Advanced[i].kid = IF i = Len(stack) THEN stack[i].kid + 1
                                                     ELSE stack[i].kid
<1> DEFINE new == [Top EXCEPT !.kid = @ + 1]
<1>1. Len(stack) \in 1..Len(stack) /\ Top = stack[Len(stack)] /\ Top \in Frame
  BY DEF Top
<1>2. new \in Frame /\ new.def = Top.def /\ new.kid = Top.kid + 1
  BY <1>1 DEF Frame
<1>3. Advanced = [stack EXCEPT ![Len(stack)] = new]
  BY DEF Advanced, Top
<1> HIDE DEF new
<1>4. /\ Advanced \in Seq(Frame)
      /\ Len(Advanced) = Len(stack)
      /\ \A i \in 1..Len(stack) :
           Advanced[i] = IF i = Len(stack) THEN new ELSE stack[i]
  BY <1>1, <1>2, <1>3, ExceptSeq
<1> QED
  BY <1>1, <1>2, <1>4

(***************************************************************************)
(* The stack after sorter_visit has called itself on d: one activation     *)
(* more, whose visit_children is at its first child.                       *)
(***************************************************************************)
LEMMA CalledFacts ==
  ASSUME NEW callers \in Seq(Frame), NEW d \in Def
  PROVE  /\ Called(callers, d) \in Seq(Frame)
         /\ Len(Called(callers, d)) = Len(callers) + 1
         /\ \A i \in 1..Len(callers) : Called(callers, d)[i] = callers[i]
         /\ Called(callers, d)[Len(callers) + 1].def = d
         /\ Called(callers, d)[Len(callers) + 1].kid = 1
<1> DEFINE new == [def |-> d, kid |-> 1]
<1>1. new \in Frame /\ new.def = d /\ new.kid = 1
  BY DEF Frame
<1> HIDE DEF new
<1>2. Called(callers, d) = Append(callers, new)
  BY DEF Called, new
<1> QED
  BY <1>1, <1>2, AppendProperties

(***************************************************************************)
(* The stack after sorter_visit has returned: the innermost activation is  *)
(* gone.                                                                   *)
(***************************************************************************)
LEMMA PoppedFacts ==
  ASSUME stack \in Seq(Frame), stack # <<>>
  PROVE  /\ Popped \in Seq(Frame)
         /\ Len(Popped) = Len(stack) - 1
         /\ \A i \in 1..(Len(stack) - 1) : Popped[i] = stack[i]
<1>1. Len(stack) \in Nat \ {0} /\ \A i \in 1..(Len(stack) - 1) : stack[i] \in Frame
  OBVIOUS
<1> DEFINE n == Len(stack) - 1
<1>2. n \in Nat /\ \A i \in 1..n : stack[i] \in Frame
  BY <1>1
<1> HIDE DEF n
<1>3. /\ SubSeq(stack, 1, n) \in Seq(Frame)
      /\ Len(SubSeq(stack, 1, n)) = IF 1 <= n THEN n - 1 + 1 ELSE 0
      /\ \A i \in 1..(n - 1 + 1) : SubSeq(stack, 1, n)[i] = stack[1 + i - 1]
  BY <1>2, SubSeqProperties
<1>4. /\ Len(SubSeq(stack, 1, n)) = n
      /\ \A i \in 1..n : SubSeq(stack, 1, n)[i] = stack[i]
  BY <1>2, <1>3
<1> QED
  BY <1>3, <1>4 DEF Popped, n

(***************************************************************************)
(* The state of the sorter keeps its types.                                *)
(***************************************************************************)
LEMMA TypesNext ==
  ASSUME TypeOK, [Next]_vars
  PROVE  TypeOK'
<1> USE DEF TypeOK
<1>1. CASE OutOfMemory
  BY <1>1 DEF OutOfMemory, Answers
<1>2. CASE Begin
  BY <1>2 DEF Begin, Frame
<1>3. CASE VisitRoot
  <2>1. pos \in 1..Len(defs) /\ <<>> \in Seq(Frame)
    BY <1>3 DEF VisitRoot
  <2>2. defs[pos] \in Def
    BY <2>1
  <2>3. Called(<<>>, defs[pos]) \in Seq(Frame)
    BY <2>1, <2>2, CalledFacts
  <2>4. /\ sorting' \in SUBSET Def /\ stack' \in Seq(Frame)
        /\ status' \in {"run", "circular"}
    BY <2>1, <2>2, <2>3, <1>3 DEF VisitRoot, Visit
  <2>5. pos' \in Nat /\ pos' \in 1..(Len(defs) + 1) /\ UNCHANGED defs
    BY <2>1, <1>3 DEF VisitRoot
  <2> QED
    BY <2>4, <2>5, <1>3 DEF VisitRoot, Answers
<1>4. CASE VisitKid
  <2>1. Top \in Frame /\ Advanced \in Seq(Frame)
    BY <1>4, AdvancedFacts DEF VisitKid
  <2>2. kids[Top.def][Top.kid] \in Def
    BY <2>1, <1>4 DEF Frame, VisitKid
  <2>3. Called(Advanced, kids[Top.def][Top.kid]) \in Seq(Frame)
    BY <2>1, <2>2, CalledFacts
  <2> QED
    BY <2>1, <2>2, <2>3, <1>4 DEF VisitKid, Visit, Answers
<1>5. CASE Push
  <2>1. Top \in Frame /\ Popped \in Seq(Frame)
    BY <1>5, AdvancedFacts, PoppedFacts DEF Push
  <2>2. sorted \cup {Top.def} \in SUBSET Def /\ Append(newDefs, Top.def) \in Seq(Def)
    BY <2>1 DEF Frame
  <2> QED
    BY <2>1, <2>2, <1>5 DEF Push
<1>6. CASE Finish
  BY <1>6 DEF Finish, Answers
<1>7. CASE UNCHANGED vars
  BY <1>7 DEF vars
<1> QED
  BY <1>1, <1>2, <1>3, <1>4, <1>5, <1>6, <1>7 DEF Next, Step, Returned

THEOREM TypeCorrect == Spec => []TypeOK
<1>1. Init => TypeOK
  BY GraphsAssumption, OrdersAssumption, StaleFlagsAssumption
     DEF Init, TypeOK, Frame, Answers
<1>2. TypeOK /\ [Next]_vars => TypeOK'
  BY TypesNext
<1> QED
  BY <1>1, <1>2, PTL DEF Spec

-----------------------------------------------------------------------------
(***************************************************************************)
(* A list that names no def twice, and only defs of another such list, is  *)
(* no longer than the other, and names them all when it is as long.        *)
(***************************************************************************)
LEMMA SameLength ==
  ASSUME NEW s \in Seq(Def), Distinct(s), NEW t \in Seq(Def), Distinct(t),
         Listed(s) \subseteq Listed(t)
  PROVE  /\ Len(s) <= Len(t)
         /\ Len(s) = Len(t) <=> Listed(s) = Listed(t)
<1> DEFINE D == Listed(t)
<1>1. /\ Len(s) \in Nat /\ s \in [1..Len(s) -> D]
      /\ Len(t) \in Nat /\ t \in [1..Len(t) -> D]
  <2>1. Len(s) \in Nat /\ s \in [1..Len(s) -> Def] /\ Len(t) \in Nat /\ t \in [1..Len(t) -> Def]
    BY LenProperties
  <2>2. (\A i \in 1..Len(s) : s[i] \in D) /\ (\A i \in 1..Len(t) : t[i] \in D)
    BY DEF Listed, Spec2Abs!Listed
  <2> HIDE DEF D
  <2> QED
    BY <2>1, <2>2
<1> USE DefAssumption DEF Distinct, Listed, Spec2Abs!Distinct, Spec2Abs!Listed
<1>2. D \subseteq Def
  BY <1>1
<1>3. IsFiniteSet(D)
  BY <1>2, FS_Subset
<1>4. s \in Injection(1..Len(s), D) /\ t \in Injection(1..Len(t), D)
  BY <1>1 DEF Injection, IsInjective
<1>5. t \in Surjection(1..Len(t), D)
  BY <1>1 DEF Surjection
<1>6. s \in Surjection(1..Len(s), D) <=> Listed(s) = D
  <2>1. Listed(s) = {s[i] : i \in 1..Len(s)} /\ Listed(s) \subseteq D
    OBVIOUS
  <2> HIDE DEF D, Listed
  <2> QED
    BY <1>1, <2>1 DEF Surjection
<1>7. /\ Cardinality(1..Len(s)) = Len(s)
      /\ Cardinality(1..Len(t)) = Len(t)
  <2>1. ASSUME NEW n \in Nat PROVE Cardinality(1..n) = n
    <3>1. Cardinality(1..n) = IF 1 > n THEN 0 ELSE n - 1 + 1
      BY FS_Interval
    <3> QED
      BY <3>1
  <2> QED
    BY <1>1, <2>1
<1> HIDE DEF D
<1>8. Cardinality(1..Len(t)) = Cardinality(D)
  BY <1>3, <1>4, <1>5, FS_Injection
<1>9. /\ Cardinality(1..Len(s)) <= Cardinality(D)
      /\ Cardinality(1..Len(s)) = Cardinality(D) <=> s \in Surjection(1..Len(s), D)
  BY <1>3, <1>4, FS_Injection
<1> QED
  BY <1>6, <1>7, <1>8, <1>9 DEF D

(***************************************************************************)
(* Nothing has been pushed when compiler_sort_defs is called.              *)
(***************************************************************************)
LEMMA InvInit == Init => Inv
<1> SUFFICES ASSUME Init PROVE Inv
  OBVIOUS
<1>1. Complete(kids, defs)
  BY DEF Init
<1> QED
  BY <1>1 DEF Init, Inv, ListPart

(***************************************************************************)
(* Clearing the flags makes them agree with the empty new_defs, whatever   *)
(* an earlier sort left in them.                                           *)
(***************************************************************************)
LEMMA InvBegin ==
  ASSUME TypeOK, Inv, Begin
  PROVE  Inv'
<1> USE DEF Begin
<1>1. ListPart'
  BY DEF Inv, ListPart, Complete, Listed, Spec2Abs!Complete, Spec2Abs!Listed, Spec2Abs!Distinct
<1>2. PushedPart'
  BY DEF PushedPart, Distinct, Ordered, Spec2Abs!Distinct, Spec2Abs!Ordered,
         Spec2Abs!Trap
<1>3. StackPart'
  BY DEF StackPart
<1>4. RootPart'
  BY DEF RootPart
<1>5. StablePart'
  BY DEF StablePart
<1> QED
  BY <1>1, <1>2, <1>3, <1>4, <1>5 DEF Inv

(***************************************************************************)
(* The loop over compiler->defs calls sorter_visit on a def that is sorted *)
(* already, or starts a path of activations with it.                       *)
(***************************************************************************)
LEMMA InvVisitRoot ==
  ASSUME TypeOK, Inv, VisitRoot
  PROVE  Inv'
<1> DEFINE d == defs[pos]
<1>1. /\ pos \in 1..Len(defs) /\ d \in Def /\ defs \in Seq(Def)
      /\ <<>> \in Seq(Frame) /\ Len(<<>>) = 0
      /\ kids \in [Def -> Seq(Def)] /\ newDefs \in Seq(Def)
  BY DEF VisitRoot, TypeOK
<1>2. /\ status = "run" /\ stack = <<>> /\ Len(stack) = 0 /\ pos' = pos + 1
      /\ UNCHANGED <<kids, defs, newDefs, sorted>> /\ Visit(d, <<>>)
  BY DEF VisitRoot
<1>3. ListPart /\ PushedPart /\ StackPart /\ RootPart /\ StablePart
  BY <1>2 DEF Inv
<1>4. sorting = {}
  BY <1>2, <1>3 DEF StackPart
<1>5. ListPart' /\ PushedPart'
  <2>1. d \in Listed(defs) /\ sorting' \subseteq sorting \cup {d}
    BY <1>1, <1>2 DEF Visit, Listed, Spec2Abs!Listed
  <2>2. ListPart'
    BY <1>2, <1>3, <2>1
      DEF ListPart, Complete, Listed, Spec2Abs!Complete, Spec2Abs!Listed,
          Spec2Abs!Distinct
  <2> QED
    BY <1>2, <1>3, <2>2 DEF PushedPart, Distinct, Ordered, Spec2Abs!Distinct,
                            Spec2Abs!Ordered, Spec2Abs!Trap
<1> HIDE DEF d
<1>6. CASE d \in sorted
  <2>1. stack' = <<>> /\ sorting' = {} /\ status' = "run" /\ Len(stack') = 0
    BY <1>1, <1>2, <1>4, <1>6 DEF Visit
  <2>2. StackPart'
    BY <2>1 DEF StackPart
  <2>3. RootPart'
    BY <1>1, <1>2, <1>3, <1>6, <2>1 DEF RootPart, d
  <2>4. StablePart'
    <3>1. SUFFICES ASSUME Ordered(kids, defs) PROVE FALSE
      BY <1>2 DEF StablePart
    <3>2. \A i \in 1..Len(newDefs) : newDefs[i] = defs[i] /\ i < pos
      BY <1>1, <1>2, <1>3, <3>1 DEF StablePart
    <3>3. PICK i \in 1..Len(newDefs) : newDefs[i] = d
      BY <1>3, <1>6 DEF PushedPart
    <3>4. i \in 1..Len(defs) /\ defs[i] = defs[pos] /\ i < pos
      BY <1>1, <3>2, <3>3 DEF d
    <3> QED
      BY <1>1, <1>3, <3>4 DEF ListPart, Complete, Spec2Abs!Complete, Spec2Abs!Distinct
  <2> QED
    BY <1>5, <2>1, <2>2, <2>3, <2>4 DEF Inv
<1>7. CASE d \notin sorted
  <2>1. /\ stack' = Called(<<>>, d)
        /\ sorting' = {d}
        /\ status' = "run"
    BY <1>2, <1>4, <1>7 DEF Visit
  <2>2. /\ stack' # <<>> /\ Len(stack') = 1
        /\ stack'[1].def = d /\ stack'[1].kid = 1
    <3>1. /\ Called(<<>>, d) \in Seq(Frame)
          /\ Len(Called(<<>>, d)) = Len(<<>>) + 1
          /\ Called(<<>>, d)[Len(<<>>) + 1].def = d
          /\ Called(<<>>, d)[Len(<<>>) + 1].kid = 1
      BY <1>1, CalledFacts
    <3> QED
      BY <1>1, <2>1, <3>1
  <2>3. StackPart'
    BY <1>2, <1>7, <2>1, <2>2 DEF StackPart
  <2>4. RootPart'
    BY <1>1, <1>2, <1>3, <2>2 DEF RootPart, d
  <2>5. StablePart'
    BY <1>1, <1>2, <1>3, <2>2 DEF StablePart
  <2> QED
    BY <1>5, <2>1, <2>3, <2>4, <2>5 DEF Inv
<1> QED
  BY <1>6, <1>7

(***************************************************************************)
(* What the invariant's type part says of every activation and of the      *)
(* children of its def.                                                    *)
(***************************************************************************)
LEMMA StackTypes ==
  ASSUME TypeOK, stack # <<>>
  PROVE  /\ Len(stack) \in Nat \ {0} /\ Top = stack[Len(stack)]
         /\ \A i \in 1..Len(stack) :
              stack[i].def \in Def /\ stack[i].kid \in Nat /\ stack[i].kid >= 1
         /\ \A x \in Def : /\ kids[x] \in Seq(Def) /\ Len(kids[x]) \in Nat
                          /\ \A k \in 1..Len(kids[x]) : kids[x][k] \in Def
<1>1. stack \in Seq(Frame) /\ kids \in [Def -> Seq(Def)]
  BY DEF TypeOK
<1>2. Len(stack) \in Nat \ {0} /\ Top = stack[Len(stack)]
  BY <1>1 DEF Top
<1>3. ASSUME NEW i \in 1..Len(stack)
      PROVE  stack[i].def \in Def /\ stack[i].kid \in Nat /\ stack[i].kid >= 1
  <2>1. stack[i] \in Frame
    BY <1>1
  <2> QED
    BY <2>1 DEF Frame
<1>4. ASSUME NEW x \in Def
      PROVE  /\ kids[x] \in Seq(Def) /\ Len(kids[x]) \in Nat
             /\ \A k \in 1..Len(kids[x]) : kids[x][k] \in Def
  <2>1. kids[x] \in Seq(Def)
    BY <1>1
  <2> QED
    BY <2>1
<1> QED
  BY <1>2, <1>3, <1>4

(***************************************************************************)
(* A child found sorting closes a cycle: the defs of the activations from  *)
(* the child's own to the innermost.                                       *)
(***************************************************************************)
LEMMA BackEdgeIsCycle ==
  ASSUME TypeOK, StackPart, stack # <<>>, Top.kid <= Len(kids[Top.def]),
         kids[Top.def][Top.kid] \in sorting, sorting \subseteq Listed(defs)
  PROVE  Spec2Abs!Cyclic(kids, defs)
<1> DEFINE n == Len(stack)
<1>1. /\ n \in Nat \ {0} /\ Top = stack[n]
      /\ \A i \in 1..n : /\ stack[i].def \in Def
                        /\ stack[i].kid \in Nat /\ stack[i].kid >= 1
      /\ \A x \in Def : Len(kids[x]) \in Nat
  BY StackTypes
<1>2. PICK j \in 1..n : stack[j].def = kids[Top.def][Top.kid]
  BY DEF StackPart
<1> DEFINE C == {stack[i].def : i \in j..n}
<1>3. C \subseteq Listed(defs) /\ C # {}
  <2>1. C \subseteq sorting
    BY <1>1, <1>2 DEF StackPart
  <2> QED
    BY <1>1, <1>2, <2>1
<1>4. ASSUME NEW x \in C
      PROVE  \E k \in 1..Len(kids[x]) : kids[x][k] \in C
  <2>1. PICK i \in j..n : x = stack[i].def
    BY <1>4
  <2>2. CASE i = n
    <3>1. Top.kid \in 1..Len(kids[x]) /\ kids[x][Top.kid] = stack[j].def
      BY <1>1, <1>2, <2>1, <2>2
    <3> QED
      BY <1>1, <1>2, <3>1
  <2>3. CASE i # n
    <3>1. i \in 1..(n-1) /\ i+1 \in j..n
      BY <1>1, <1>2, <2>1, <2>3
    <3>2. /\ stack[i].kid > 1 /\ stack[i].kid <= Len(kids[x]) + 1
          /\ kids[x][stack[i].kid - 1] = stack[i+1].def
      BY <1>1, <2>1, <3>1 DEF StackPart
    <3>3. stack[i].kid - 1 \in 1..Len(kids[x])
      BY <1>1, <1>3, <2>1, <3>1, <3>2, SMTT(30)
    <3> QED
      BY <3>1, <3>2, <3>3
  <2> QED
    BY <2>2, <2>3
<1> QED
  BY <1>3, <1>4 DEF Spec2Abs!Cyclic, Spec2Abs!Trap, Listed

(***************************************************************************)
(* visit_children calls sorter_visit on the next child: it is sorted, or   *)
(* closes a cycle, or lengthens the path.                                  *)
(***************************************************************************)
LEMMA InvVisitKid ==
  ASSUME TypeOK, Inv, VisitKid
  PROVE  Inv'
<1> DEFINE n == Len(stack)
           d == kids[Top.def][Top.kid]
<1>1. /\ status = "run" /\ stack # <<>> /\ Top.kid <= Len(kids[Top.def])
      /\ kids' = kids /\ defs' = defs /\ newDefs' = newDefs
      /\ sorted' = sorted /\ pos' = pos
  BY DEF VisitKid
<1>2. ListPart /\ PushedPart /\ StackPart /\ RootPart /\ StablePart
  BY <1>1 DEF Inv
<1>3. /\ n \in Nat \ {0} /\ Top = stack[n] /\ stack \in Seq(Frame)
      /\ \A i \in 1..n : /\ stack[i].def \in Def
                        /\ stack[i].kid \in Nat /\ stack[i].kid >= 1
      /\ \A x \in Def : /\ Len(kids[x]) \in Nat
                       /\ \A k \in 1..Len(kids[x]) : kids[x][k] \in Def
  BY <1>1, StackTypes DEF TypeOK
<1>4. /\ Advanced \in Seq(Frame) /\ Len(Advanced) = n
      /\ \A i \in 1..n :
           /\ Advanced[i].def = stack[i].def
           /\ Advanced[i].kid = IF i = n THEN stack[i].kid + 1 ELSE stack[i].kid
  BY <1>1, <1>3, AdvancedFacts
<1>5. Top.def \in Def /\ Top.kid \in 1..Len(kids[Top.def]) /\ d \in Def
  <2>1. n \in 1..n
    BY <1>3
  <2>2. Top.def \in Def /\ Top.kid \in Nat /\ Top.kid >= 1
    BY <1>3, <2>1
  <2>3. Top.kid \in 1..Len(kids[Top.def])
    BY <1>1, <1>3, <2>2
  <2> QED
    BY <1>3, <2>2, <2>3
<1>6. ListPart' /\ PushedPart'
  <2>1. Top.def \in sorting
    BY <1>2, <1>3 DEF StackPart
  <2>2. sorting \cup sorted \subseteq Listed(defs)
    BY <1>1, <1>2 DEF ListPart
  <2>3. d \in Listed(defs)
    BY <1>2, <1>5, <2>1, <2>2 DEF ListPart, Complete, Spec2Abs!Complete, Listed
  <2>4. sorting' \subseteq sorting \cup {d}
    BY DEF VisitKid, Visit
  <2>5. Listed(defs)' = Listed(defs)
    BY <1>1 DEF Listed, Spec2Abs!Listed
  <2>6. sorting' \cup sorted' \subseteq Listed(defs)'
    BY <1>1, <2>2, <2>3, <2>4, <2>5
  <2>7. Complete(kids, defs)'
    BY <1>1, <1>2
      DEF ListPart, Complete, Listed, Spec2Abs!Complete, Spec2Abs!Listed,
          Spec2Abs!Distinct
  <2> QED
    BY <1>1, <1>2, <2>6, <2>7
       DEF ListPart, PushedPart, Distinct, Ordered, Spec2Abs!Distinct,
           Spec2Abs!Ordered, Spec2Abs!Trap
<1>7. CASE d \in sorted
  <2>1. stack' = Advanced /\ sorting' = sorting /\ status' = "run"
    BY <1>1, <1>2, <1>7 DEF VisitKid, Visit, StackPart
  <2>2. StackPart'
    <3>1. sorting' = {stack'[i].def : i \in 1..Len(stack')} /\ sorting' \cap sorted' = {}
      BY <1>1, <1>2, <1>4, <2>1 DEF StackPart
    <3>2. \A i, j \in 1..Len(stack') : stack'[i].def = stack'[j].def => i = j
      BY <1>2, <1>4, <2>1 DEF StackPart
    <3>3. \A i \in 1..Len(stack') : stack'[i].kid <= Len(kids'[stack'[i].def]) + 1
      BY <1>1, <1>2, <1>3, <1>4, <2>1 DEF StackPart
    <3>4. ASSUME NEW i \in 1..(Len(stack') - 1)
          PROVE  /\ stack'[i].kid > 1
                 /\ kids'[stack'[i].def][stack'[i].kid - 1] = stack'[i+1].def
      <4>1. i \in 1..(n-1) /\ i \in 1..n /\ i # n /\ i+1 \in 1..n
        BY <1>3, <1>4, <2>1
      <4>2. /\ stack'[i].def = stack[i].def /\ stack'[i].kid = stack[i].kid
            /\ stack'[i+1].def = stack[i+1].def
        BY <1>4, <2>1, <4>1
      <4> QED
        BY <1>1, <1>2, <4>1, <4>2 DEF StackPart
    <3>5. ASSUME NEW i \in 1..Len(stack'), NEW k \in 1..(stack'[i].kid - 1)
          PROVE  \/ kids'[stack'[i].def][k] \in sorted'
                 \/ i < Len(stack') /\ k = stack'[i].kid - 1
      <4>1. i \in 1..n /\ stack'[i].def = stack[i].def
        BY <1>4, <2>1, <3>5
      <4>2. CASE i = n /\ k = stack[i].kid
        BY <1>1, <1>3, <1>4, <1>7, <2>1, <4>2
      <4>3. CASE ~(i = n /\ k = stack[i].kid)
        BY <1>1, <1>2, <1>3, <1>4, <2>1, <4>1, <4>3 DEF StackPart
      <4> QED
        BY <4>2, <4>3
    <3> QED
      BY <3>1, <3>2, <3>3, <3>4, <3>5 DEF StackPart
  <2>3. stack' # <<>> /\ stack'[1].def = stack[1].def /\ Len(stack') = n
    BY <1>3, <1>4, <2>1
  <2>4. RootPart'
    BY <1>1, <1>2, <2>3 DEF RootPart
  <2>5. StablePart'
    BY <1>1, <1>2, <2>3 DEF StablePart
  <2> QED
    BY <1>6, <2>1, <2>2, <2>4, <2>5 DEF Inv
<1>8. CASE d \in sorting \ sorted
  <2>1. status' = "circular"
    BY <1>1, <1>8 DEF VisitKid, Visit
  <2>2. Spec2Abs!Cyclic(kids, defs)
    BY <1>1, <1>2, <1>8, BackEdgeIsCycle DEF ListPart
  <2>3. Spec2Abs!Cyclic(kids, defs)'
    BY <1>1, <2>2 DEF Spec2Abs!Cyclic, Spec2Abs!Trap, Spec2Abs!Listed
  <2> QED
    BY <1>6, <2>1, <2>3 DEF Inv
<1>9. CASE d \notin sorting \cup sorted
  <2>1. /\ stack' = Called(Advanced, d) /\ sorting' = sorting \cup {d}
        /\ status' = "run"
    BY <1>1, <1>9 DEF VisitKid, Visit
  <2>2. /\ stack' \in Seq(Frame) /\ Len(stack') = n + 1
        /\ \A i \in 1..n :
             /\ stack'[i].def = stack[i].def
             /\ stack'[i].kid = IF i = n THEN stack[i].kid + 1 ELSE stack[i].kid
        /\ stack'[n+1].def = d /\ stack'[n+1].kid = 1
    <3>1. /\ Called(Advanced, d) \in Seq(Frame)
          /\ Len(Called(Advanced, d)) = Len(Advanced) + 1
          /\ \A i \in 1..Len(Advanced) : Called(Advanced, d)[i] = Advanced[i]
          /\ Called(Advanced, d)[Len(Advanced) + 1].def = d
          /\ Called(Advanced, d)[Len(Advanced) + 1].kid = 1
      BY <1>4, <1>5, CalledFacts
    <3> HIDE DEF d, n
    <3> QED
      BY <1>4, <2>1, <3>1
  <2>3. StackPart'
    <3>1. sorting' = {stack'[i].def : i \in 1..Len(stack')} /\ sorting' \cap sorted' = {}
      <4>1. {stack'[i].def : i \in 1..(n+1)} = {stack[i].def : i \in 1..n} \cup {d}
        <5>1. 1..(n+1) = 1..n \cup {n+1}
          BY <1>3
        <5>2. \A i \in 1..n : stack'[i].def = stack[i].def
          BY <2>2
        <5> QED
          BY <2>2, <5>1, <5>2
      <4> QED
        BY <1>1, <1>2, <1>9, <2>1, <2>2, <4>1 DEF StackPart
    <3>2. ASSUME NEW i \in 1..Len(stack'), NEW j \in 1..Len(stack'),
                 stack'[i].def = stack'[j].def
          PROVE  i = j
      <4>1. \A x \in 1..n : stack[x].def # d
        BY <1>2, <1>9 DEF StackPart
      <4>2. (i \in 1..n \/ i = n+1) /\ (j \in 1..n \/ j = n+1)
        BY <1>3, <2>2
      <4> QED
        BY <1>2, <2>2, <3>2, <4>1, <4>2 DEF StackPart
    <3>3. ASSUME NEW i \in 1..Len(stack')
          PROVE  stack'[i].kid <= Len(kids'[stack'[i].def]) + 1
      <4>1. CASE i \in 1..n
        BY <1>1, <1>2, <1>3, <2>2, <4>1, SMTT(30) DEF StackPart
      <4>2. CASE i = n+1
        BY <1>1, <1>3, <1>5, <2>2, <4>2
      <4> QED
        BY <1>3, <2>2, <4>1, <4>2
    <3>4. ASSUME NEW i \in 1..(Len(stack') - 1)
          PROVE  /\ stack'[i].kid > 1
                 /\ kids'[stack'[i].def][stack'[i].kid - 1] = stack'[i+1].def
      <4>1. i \in 1..n
        BY <1>3, <2>2
      <4>2. CASE i = n
        BY <1>1, <1>3, <2>2, <4>1, <4>2
      <4>3. CASE i # n
        BY <1>1, <1>2, <1>3, <2>2, <4>1, <4>3, SMTT(30) DEF StackPart
      <4> QED
        BY <4>2, <4>3
    <3>5. ASSUME NEW i \in 1..Len(stack'), NEW k \in 1..(stack'[i].kid - 1)
          PROVE  \/ kids'[stack'[i].def][k] \in sorted'
                 \/ i < Len(stack') /\ k = stack'[i].kid - 1
      <4>1. i \in 1..n
        BY <1>3, <2>2
      <4>2. CASE i = n /\ k = stack[i].kid
        BY <1>3, <2>2, <4>1, <4>2
      <4>3. CASE ~(i = n /\ k = stack[i].kid)
        BY <1>1, <1>2, <1>3, <2>2, <4>1, <4>3, SMTT(30) DEF StackPart
      <4> QED
        BY <4>2, <4>3
    <3> QED
      BY <3>1, <3>2, <3>3, <3>4, <3>5 DEF StackPart
  <2>4. RootPart'
    <3>1. stack' # <<>> /\ stack'[1].def = stack[1].def
      BY <1>3, <2>2
    <3> QED
      BY <1>1, <1>2, <3>1 DEF RootPart
  <2>5. StablePart'
    <3>1. SUFFICES ASSUME Ordered(kids, defs) PROVE FALSE
      BY <1>1 DEF StablePart
    <3>2. n = 1 /\ Top.def = defs[pos-1] /\ pos - 1 = Len(newDefs) + 1
      <4>1. n <= 1 /\ Len(newDefs) + n = pos - 1
        BY <1>2, <3>1 DEF StablePart
      <4>2. stack[1].def = defs[pos-1]
        BY <1>1, <1>2 DEF RootPart
      <4>3. pos \in Nat /\ Len(newDefs) \in Nat
        BY DEF TypeOK
      <4>4. n = 1
        <5>1. n \in Nat /\ n # 0
          BY <1>3
        <5> HIDE DEF n
        <5> QED
          BY <4>1, <5>1
      <4> QED
        BY <1>3, <4>1, <4>2, <4>3, <4>4
    <3>3. pos \in 1..(Len(defs) + 1) /\ pos - 1 \in 1..Len(defs)
      BY <1>1, <1>2 DEF TypeOK, RootPart
    <3>4. PICK j \in 1..(pos-2) : defs[j] = d
      <4>1. Top.kid \in 1..Len(kids[defs[pos-1]])
        BY <1>1, <1>3, <3>2
      <4> QED
        BY <3>1, <3>2, <3>3, <4>1 DEF Ordered, Spec2Abs!Ordered
    <3>5. newDefs[j] = d /\ j \in 1..Len(newDefs)
      BY <1>2, <3>1, <3>2, <3>4 DEF StablePart, TypeOK
    <3> QED
      BY <1>2, <1>9, <3>5 DEF PushedPart
  <2> QED
    BY <1>6, <2>1, <2>3, <2>4, <2>5 DEF Inv
<1> QED
  BY <1>7, <1>8, <1>9

(***************************************************************************)
(* sorter_push comes after all the children, so that order is kept; no     *)
(* cycle runs through the def, all its children being off every cycle.     *)
(***************************************************************************)
LEMMA InvPush ==
  ASSUME TypeOK, TypeOK', Inv, Push
  PROVE  Inv'
<1> DEFINE n == Len(stack)
           d == Top.def
           m == Len(newDefs)
<1>1. /\ status = "run" /\ stack # <<>> /\ Top.kid > Len(kids[d])
      /\ kids' = kids /\ defs' = defs /\ pos' = pos /\ status' = status
      /\ sorting' = sorting \ {d} /\ sorted' = sorted \cup {d}
      /\ newDefs' = Append(newDefs, d) /\ stack' = Popped
  BY DEF Push
<1>2. ListPart /\ PushedPart /\ StackPart /\ RootPart /\ StablePart
  BY <1>1 DEF Inv
<1>3. /\ n \in Nat \ {0} /\ Top = stack[n] /\ stack \in Seq(Frame)
      /\ \A i \in 1..n : /\ stack[i].def \in Def
                        /\ stack[i].kid \in Nat /\ stack[i].kid >= 1
      /\ \A x \in Def : /\ Len(kids[x]) \in Nat
                       /\ \A k \in 1..Len(kids[x]) : kids[x][k] \in Def
  BY <1>1, StackTypes DEF TypeOK
<1>4. /\ Len(stack') = n - 1
      /\ \A i \in 1..(n - 1) : stack'[i] = stack[i]
  BY <1>1, <1>3, PoppedFacts
<1>5. /\ n \in 1..n /\ d \in Def /\ d = stack[n].def
      /\ d \in sorting /\ d \notin sorted
  <2>1. n \in 1..n /\ d \in Def /\ d = stack[n].def
    BY <1>3
  <2> QED
    BY <1>2, <2>1 DEF StackPart
<1>6. \A k \in 1..Len(kids[d]) : kids[d][k] \in sorted
  <2>1. ASSUME NEW k \in 1..Len(kids[d])
        PROVE  kids[d][k] \in sorted
    <3>1. k \in 1..(stack[n].kid - 1) /\ ~(n < n)
      BY <1>1, <1>3, <1>5
    <3> QED
      BY <1>2, <1>5, <3>1 DEF StackPart
  <2> QED
    BY <2>1
<1>7. /\ m \in Nat /\ newDefs \in Seq(Def) /\ Len(newDefs') = m + 1
      /\ \A i \in 1..m : newDefs'[i] = newDefs[i]
      /\ newDefs'[m+1] = d /\ 1..(m+1) = 1..m \cup {m+1}
  <2>1. newDefs \in Seq(Def) /\ m \in Nat
    BY DEF TypeOK
  <2> HIDE DEF d
  <2> QED
    BY <1>1, <1>5, <2>1, AppendProperties
<1>8. ListPart'
  BY <1>1, <1>2, <1>5, SMTT(30)
    DEF ListPart, Complete, Listed, Spec2Abs!Complete, Spec2Abs!Listed, Spec2Abs!Distinct
<1> HIDE DEF d, n, m
<1>9. PushedPart'
  <2>1. sorted' = {newDefs'[i] : i \in 1..Len(newDefs')}
    <3>1. \A i \in 1..m : newDefs'[i] = newDefs[i]
      BY <1>7
    <3>2. sorted = {newDefs[i] : i \in 1..m}
      BY <1>2 DEF PushedPart, m
    <3> QED
      BY <1>1, <1>7, <3>1, <3>2
  <2>2. Distinct(newDefs)'
    <3>1. \A i \in 1..m : newDefs[i] # d
      BY <1>2, <1>5 DEF PushedPart, m
    <3>2. \A i, j \in 1..m : newDefs[i] = newDefs[j] => i = j
      BY <1>2 DEF PushedPart, Distinct, Spec2Abs!Distinct, m
    <3>3. \A i, j \in 1..(m+1) : newDefs'[i] = newDefs'[j] => i = j
      BY <1>7, <3>1, <3>2
    <3> QED
      BY <1>7, <3>3 DEF Distinct, Spec2Abs!Distinct
  <2>3. Ordered(kids, newDefs)'
    <3>1. ASSUME NEW i \in 1..(m+1), NEW k \in 1..Len(kids[newDefs'[i]])
          PROVE  \E j \in 1..(i-1) : newDefs'[j] = kids[newDefs'[i]][k]
      <4>1. CASE i \in 1..m
        <5>1. newDefs'[i] = newDefs[i]
          BY <1>7, <4>1
        <5>2. PICK j \in 1..(i-1) : newDefs[j] = kids[newDefs[i]][k]
          BY <1>2, <3>1, <4>1, <5>1 DEF PushedPart, Ordered, Spec2Abs!Ordered, m
        <5>3. j \in 1..m
          BY <1>7, <4>1
        <5> QED
          BY <1>7, <5>1, <5>2, <5>3
      <4>2. CASE i = m+1
        <5>1. kids[newDefs'[i]][k] \in sorted
          BY <1>6, <1>7, <3>1, <4>2
        <5>2. PICK j \in 1..m : newDefs[j] = kids[newDefs'[i]][k]
          BY <1>2, <5>1 DEF PushedPart, m
        <5>3. j \in 1..(i-1)
          BY <1>7, <4>2
        <5> QED
          BY <1>7, <5>2, <5>3
      <4> QED
        BY <1>7, <4>1, <4>2
    <3> QED
      BY <1>1, <1>7, <3>1 DEF Ordered, Spec2Abs!Ordered
  <2>4. ASSUME NEW C \in SUBSET Def, Spec2Abs!Trap(kids, C)
        PROVE  C \cap sorted' = {}
    <3>1. C \cap sorted = {}
      BY <1>2, <2>4 DEF PushedPart
    <3>2. d \notin C
      BY <1>6, <2>4, <3>1 DEF Spec2Abs!Trap
    <3> QED
      BY <1>1, <3>1, <3>2
  <2>5. \A C \in SUBSET Def : Spec2Abs!Trap(kids, C)' => C \cap sorted' = {}
    BY <1>1, <2>4 DEF Spec2Abs!Trap
  <2> QED
    BY <2>1, <2>2, <2>3, <2>5 DEF PushedPart
<1>10. StackPart'
  <2>1. \A i \in 1..Len(stack') : /\ i \in 1..n /\ i < n
                                /\ stack'[i] = stack[i]
    BY <1>3, <1>4
  <2>2. sorting' = {stack'[i].def : i \in 1..Len(stack')} /\ sorting' \cap sorted' = {}
    <3>1. 1..n = 1..(n-1) \cup {n} /\ n \notin 1..(n-1)
      BY <1>3
    <3>2. \A i \in 1..(n-1) : stack[i].def # d
      BY <1>2, <1>5, <3>1 DEF StackPart, n
    <3>3. {stack[i].def : i \in 1..n} = {stack[i].def : i \in 1..(n-1)} \cup {d}
      BY <1>5, <3>1
    <3>4. {stack'[i].def : i \in 1..(n-1)} = {stack[i].def : i \in 1..(n-1)}
      BY <1>4
    <3> QED
      <4>1. sorting = {stack[i].def : i \in 1..n} /\ sorting \cap sorted = {}
        BY <1>2 DEF StackPart, n
      <4>2. sorting' = {stack[i].def : i \in 1..(n-1)}
        BY <1>1, <3>2, <3>3, <4>1
      <4>3. sorting' \cap sorted' = {}
        BY <1>1, <4>1
      <4> QED
        BY <1>4, <3>4, <4>2, <4>3
  <2>3. \A i, j \in 1..Len(stack') : stack'[i].def = stack'[j].def => i = j
    BY <1>2, <2>1 DEF StackPart, n
  <2>4. \A i \in 1..Len(stack') : stack'[i].kid <= Len(kids'[stack'[i].def]) + 1
    BY <1>1, <1>2, <2>1 DEF StackPart, n
  <2>5. ASSUME NEW i \in 1..(Len(stack') - 1)
        PROVE  /\ stack'[i].kid > 1
               /\ kids'[stack'[i].def][stack'[i].kid - 1] = stack'[i+1].def
    <3>1. i \in 1..(n-1) /\ i \in 1..Len(stack') /\ i+1 \in 1..Len(stack')
      BY <1>3, <1>4
    <3>2. stack'[i] = stack[i] /\ stack'[i+1] = stack[i+1]
      BY <2>1, <3>1
    <3>3. stack[i].kid > 1 /\ kids[stack[i].def][stack[i].kid - 1] = stack[i+1].def
      BY <1>2, <3>1 DEF StackPart, n
    <3> QED
      BY <1>1, <3>2, <3>3
  <2>6. ASSUME NEW i \in 1..Len(stack'), NEW k \in 1..(stack'[i].kid - 1)
        PROVE  kids'[stack'[i].def][k] \in sorted' \/ (i < Len(stack') /\ k = stack'[i].kid - 1)
    <3>1. i \in 1..n /\ i < n /\ stack'[i] = stack[i] /\ k \in 1..(stack[i].kid - 1)
      BY <2>1, <2>6
    <3>2. CASE kids[stack[i].def][k] \in sorted
      BY <1>1, <3>1, <3>2
    <3>3. CASE k = stack[i].kid - 1
      <4>1. kids[stack[i].def][k] = stack[i+1].def
        <5>1. i \in 1..(n-1)
          BY <1>3, <3>1
        <5> QED
          BY <1>2, <3>3, <5>1 DEF StackPart, n
      <4>2. CASE i = n - 1
        <5>1. stack[i+1].def = d
          BY <1>3, <1>5, <4>2
        <5> QED
          BY <1>1, <3>1, <4>1, <5>1
      <4>3. CASE i # n - 1
        BY <1>3, <1>4, <3>1, <3>3, <4>3
      <4> QED
        BY <4>2, <4>3
    <3> QED
      BY <1>2, <3>1, <3>2, <3>3 DEF StackPart, n
  <2> QED
    BY <2>2, <2>3, <2>4, <2>5, <2>6 DEF StackPart
<1>11. RootPart'
  <2>1. CASE n = 1
    <3>1. stack' = <<>> /\ d = defs[pos-1]
      BY <1>1, <1>2, <1>4, <1>5, <2>1 DEF RootPart, TypeOK
    <3> QED
      BY <1>1, <1>2, <3>1 DEF RootPart
  <2>2. CASE n # 1
    <3>1. stack' # <<>> /\ stack'[1] = stack[1]
      BY <1>3, <1>4, <2>2
    <3> QED
      BY <1>1, <1>2, <3>1 DEF RootPart
  <2> QED
    BY <2>1, <2>2
<1>12. StablePart'
  <2>1. SUFFICES ASSUME Ordered(kids, defs)
                 PROVE  /\ Len(stack') <= 1
                        /\ Len(newDefs') + Len(stack') = pos - 1
                        /\ \A i \in 1..Len(newDefs') : newDefs'[i] = defs[i]
    BY <1>1 DEF StablePart
  <2>2. /\ n <= 1 /\ m + n = pos - 1
        /\ \A i \in 1..m : newDefs[i] = defs[i]
    BY <1>2, <2>1 DEF StablePart, n, m
  <2>3. n = 1 /\ m + 1 = pos - 1 /\ pos \in Nat
    BY <1>3, <2>2 DEF TypeOK
  <2>4. d = defs[m+1]
    BY <1>1, <1>2, <1>5, <2>3 DEF RootPart
  <2>5. \A i \in 1..(m+1) : newDefs'[i] = defs[i]
    BY <1>7, <2>2, <2>4
  <2> QED
    BY <1>4, <1>7, <2>3, <2>5
<1> QED
  BY <1>1, <1>8, <1>9, <1>10, <1>11, <1>12 DEF Inv

(***************************************************************************)
(* After the last root every def has been pushed: the count check of       *)
(* compiler_sort_defs succeeds.                                            *)
(***************************************************************************)
LEMMA InvFinish ==
  ASSUME TypeOK, Inv, Finish
  PROVE  Inv'
<1>1. /\ status = "run" /\ stack = <<>> /\ pos > Len(defs)
      /\ kids' = kids /\ newDefs' = newDefs /\ sorted' = sorted
  BY DEF Finish
<1>2. ListPart /\ PushedPart /\ RootPart
  BY <1>1 DEF Inv
<1>3. defs \in Seq(Def) /\ newDefs \in Seq(Def) /\ pos \in Nat /\ sorted \subseteq Def
  BY DEF TypeOK
<1>4. Listed(newDefs) = Listed(defs)
  <2>1. sorted = Listed(newDefs) /\ sorted \subseteq Listed(defs)
    BY <1>1, <1>2 DEF ListPart, PushedPart, Listed, Spec2Abs!Listed
  <2>2. ASSUME NEW i \in 1..Len(defs) PROVE defs[i] \in sorted
    <3>1. i \in 1..(pos-1)
      BY <1>1, <1>3
    <3> QED
      BY <1>1, <1>2, <3>1 DEF RootPart
  <2> QED
    BY <2>1, <2>2 DEF Listed, Spec2Abs!Listed
<1>5. Distinct(newDefs) /\ Distinct(defs)
  BY <1>2 DEF PushedPart, ListPart, Complete, Spec2Abs!Complete, Distinct
<1>6. Len(newDefs) = Len(defs)
  BY <1>3, <1>4, <1>5, SameLength
<1>7. status' = "ok" /\ defs' = newDefs
  BY <1>6 DEF Finish
<1>8. ListPart'
  <2>1. Complete(kids, newDefs)
    BY <1>2, <1>4, <1>5 DEF ListPart, Complete, Spec2Abs!Complete, Listed, Distinct
  <2>2. Complete(kids, defs)'
    BY <1>1, <1>7, <2>1 DEF Complete, Listed, Spec2Abs!Complete, Spec2Abs!Listed, Spec2Abs!Distinct
  <2>3. sorting' = {} /\ sorted' = sorted
    BY <1>1 DEF Finish, Inv, StackPart
  <2>4. sorting' \cup sorted' \subseteq Listed(defs)'
    BY <1>2, <1>7, <2>3 DEF PushedPart, Listed, Spec2Abs!Listed
  <2> QED
    BY <1>7, <2>2, <2>4 DEF ListPart
<1>9. PushedPart'
  BY <1>1, <1>2
     DEF PushedPart, Distinct, Ordered, Spec2Abs!Distinct, Spec2Abs!Ordered,
         Spec2Abs!Trap
<1> QED
  BY <1>1, <1>7, <1>8, <1>9 DEF Inv

(***************************************************************************)
(* The invariant depends on the sorter's variables only.                   *)
(***************************************************************************)
LEMMA InvUnchanged ==
  ASSUME Inv, UNCHANGED vars
  PROVE  Inv'
BY DEF vars, Inv, ListPart, PushedPart, StackPart, RootPart, StablePart, Distinct, Ordered,
       Complete, Listed, Spec2Abs!Distinct, Spec2Abs!Ordered, Spec2Abs!Complete,
       Spec2Abs!Listed, Spec2Abs!Trap, Spec2Abs!Cyclic

(***************************************************************************)
(* A failed calloc changes nothing but the answer.                         *)
(***************************************************************************)
LEMMA InvOutOfMemory ==
  ASSUME Inv, OutOfMemory
  PROVE  Inv'
BY DEF OutOfMemory, Inv, ListPart, Complete, Listed, Spec2Abs!Complete, Spec2Abs!Listed,
       Spec2Abs!Distinct

(***************************************************************************)
(* Every step of compiler_sort_defs keeps the invariant.                   *)
(***************************************************************************)
LEMMA InvNext ==
  ASSUME TypeOK, TypeOK', Inv, [Next]_vars
  PROVE  Inv'
BY InvOutOfMemory, InvBegin, InvVisitRoot, InvVisitKid, InvPush, InvFinish,
   InvUnchanged DEF Next, Step, Returned

(***************************************************************************)
(* The inductive invariant holds of the sorter, whatever the relation.     *)
(***************************************************************************)
THEOREM SorterInvariant == Spec => []Inv
<1>1. Inv /\ TypeOK /\ TypeOK' /\ [Next]_vars => Inv'
  BY InvNext
<1> QED
  BY <1>1, InvInit, TypeCorrect, PTL DEF Spec

(***************************************************************************)
(* What sorter_push has pushed is in order, distinct, and fits in the      *)
(* array compiler_sort_defs allocated.                                     *)
(***************************************************************************)
THEOREM PushesInOrder == Spec => []PushedInOrder
<1>1. TypeOK /\ Inv => PushedInOrder
  <2> SUFFICES ASSUME TypeOK, Inv PROVE PushedInOrder
    OBVIOUS
  <2>1. newDefs \in Seq(Def) /\ defs \in Seq(Def) /\ Distinct(defs)
    BY DEF TypeOK, Inv, ListPart, Complete, Spec2Abs!Complete, Distinct
  <2>2. Ordered(kids, newDefs) /\ Distinct(newDefs)
    <3>1. CASE status \in {"idle", "nomem"}
      <4>1. newDefs = <<>> /\ Len(newDefs) = 0
        BY <3>1 DEF Inv
      <4> QED
        BY <4>1 DEF Ordered, Distinct, Spec2Abs!Ordered, Spec2Abs!Distinct
    <3>2. CASE status \notin {"idle", "nomem"}
      BY <3>2 DEF Inv, PushedPart
    <3> QED
      BY <3>1, <3>2
  <2>3. Len(newDefs) <= Len(defs)
    <3>1. Listed(newDefs) \subseteq Listed(defs)
      <4>1. CASE status \in {"idle", "nomem"}
        BY <4>1 DEF Inv, Listed, Spec2Abs!Listed
      <4>2. CASE status \notin {"idle", "nomem"}
        BY <4>2 DEF Inv, ListPart, PushedPart, Listed, Spec2Abs!Listed
      <4> QED
        BY <4>1, <4>2
    <3> QED
      BY <2>1, <2>2, <3>1, SameLength
  <2> QED
    BY <2>2, <2>3 DEF PushedInOrder
<1> QED
  BY <1>1, TypeCorrect, SorterInvariant, PTL

(***************************************************************************)
(* "Circular dependency" is reported exactly when it is true, for every    *)
(* relation that visit_children may induce.                                *)
(***************************************************************************)
LEMMA InvVerdicts ==
  ASSUME TypeOK, Inv
  PROVE  VerdictIsRight
<1>1. ASSUME status = "ok" PROVE ~Spec2Abs!Cyclic(kids, defs)
  <2>1. sorted = Spec2Abs!Listed(defs) /\ PushedPart
    BY <1>1 DEF Inv, PushedPart, Spec2Abs!Listed
  <2>2. sorted \subseteq Def
    BY DEF TypeOK
  <2>3. \A C \in SUBSET sorted : Spec2Abs!Trap(kids, C) => C = {}
    BY <2>1, <2>2 DEF PushedPart
  <2> QED
    BY <2>1, <2>3 DEF Spec2Abs!Cyclic, Spec2Abs!Trap
<1> QED
  BY <1>1 DEF Inv, VerdictIsRight

THEOREM VerdictsAreRight == Spec => []VerdictIsRight
<1>1. TypeOK /\ Inv => VerdictIsRight
  BY InvVerdicts
<1> QED
  BY <1>1, TypeCorrect, SorterInvariant, PTL

(***************************************************************************)
(* The branch of compiler_sort_defs for defs that were not visited is dead *)
(* code.                                                                   *)
(***************************************************************************)
THEOREM NeverMissed == Spec => [](status # "missed")
<1>1. Inv => status # "missed"
  BY DEF Inv
<1> QED
  BY <1>1, SorterInvariant, PTL

(***************************************************************************)
(* The sort ends with all defs pushed, in order; a list that was in order  *)
(* has been pushed as it stood.                                            *)
(***************************************************************************)
LEMMA FinishFacts ==
  ASSUME TypeOK, Inv, Finish
  PROVE  /\ status' = "ok" /\ defs' = newDefs
         /\ newDefs \in Seq(Def) /\ Len(newDefs) = Len(defs)
         /\ Listed(newDefs) = Listed(defs) /\ Distinct(newDefs)
         /\ Ordered(kids, newDefs)
         /\ Ordered(kids, defs) => defs' = defs
<1>1. Inv'
  BY InvFinish
<1>2. status' \in {"ok", "missed"}
  BY DEF Finish
<1>3. status' = "ok" /\ Len(newDefs) = Len(defs) /\ defs' = newDefs
  BY <1>1, <1>2 DEF Inv, Finish
<1>4. Distinct(newDefs) /\ Listed(newDefs) = Listed(defs)
  <2>1. newDefs \in Seq(Def) /\ defs \in Seq(Def) /\ Distinct(newDefs) /\ Distinct(defs)
    BY DEF Finish, TypeOK, Inv, ListPart, PushedPart, Complete, Spec2Abs!Complete, Distinct
  <2>2. Listed(newDefs) \subseteq Listed(defs)
    BY DEF Finish, Inv, ListPart, PushedPart, Listed, Spec2Abs!Listed
  <2> QED
    BY <1>3, <2>1, <2>2, SameLength
<1>5. /\ Ordered(kids, newDefs) /\ StablePart /\ stack = <<>>
      /\ pos > Len(defs) /\ pos \in 1..(Len(defs) + 1)
      /\ newDefs \in Seq(Def) /\ defs \in Seq(Def)
  BY DEF Finish, Inv, PushedPart, TypeOK
<1>6. ASSUME Ordered(kids, defs) PROVE newDefs = defs
  <2>1. \A i \in 1..Len(newDefs) : newDefs[i] = defs[i]
    BY <1>5, <1>6 DEF StablePart
  <2> QED
    BY <1>3, <1>5, <2>1, SeqEqual
<1> QED
  BY <1>3, <1>4, <1>5, <1>6

(***************************************************************************)
(* No step of the sort moves a def of a list that is in order.             *)
(***************************************************************************)
LEMMA InOrderStays ==
  ASSUME TypeOK, Inv, Next, Ordered(kids, defs)
  PROVE  defs' = defs
<1>1. CASE Finish
  BY <1>1, FinishFacts
<1>2. CASE ~Finish
  BY <1>2 DEF Next, Step, Returned, OutOfMemory, Begin, VisitRoot, VisitKid,
              Push, vars
<1> QED
  BY <1>1, <1>2

THEOREM Stable == Spec => StableIfOrdered
<1>1. TypeOK /\ Inv /\ [Next]_vars => [Ordered(kids, defs) => defs' = defs]_vars
  BY InOrderStays
<1> QED
  BY <1>1, TypeCorrect, SorterInvariant, PTL DEF Spec, StableIfOrdered

(***************************************************************************)
(* The traversal implements the one-step promise.                          *)
(***************************************************************************)
THEOREM Refinement == Spec => ImplementsTopoSort
<1>1. Init => Spec2Abs!AbsInit
  BY DEF Init, Spec2Abs!AbsInit, Complete
<1>2. TypeOK /\ Inv /\ Inv' /\ [Next]_vars => [Spec2Abs!AbsNext]_(Spec2Abs!absVars)
  <2> SUFFICES ASSUME TypeOK, Inv, Inv', [Next]_vars
               PROVE  Spec2Abs!AbsNext \/ UNCHANGED Spec2Abs!absVars
    OBVIOUS
  <2> USE DEF Spec2Abs!AbsNext, Spec2Abs!absVars
  <2>1. CASE OutOfMemory
    BY <2>1 DEF OutOfMemory, Spec2Abs!Refuse
  <2>2. CASE Begin
    BY <2>2 DEF Begin
  <2>3. ASSUME VisitRoot \/ VisitKid, status' = status
        PROVE  UNCHANGED Spec2Abs!absVars
    BY <2>3 DEF VisitRoot, VisitKid
  <2>4. ASSUME VisitRoot \/ VisitKid, status' # status
        PROVE  Spec2Abs!Refuse
    <3>1. status = "run" /\ status' = "circular" /\ kids' = kids /\ defs' = defs
      BY <2>4 DEF VisitRoot, VisitKid, Visit
    <3>2. Spec2Abs!Cyclic(kids, defs)
      BY <3>1 DEF Inv, Spec2Abs!Cyclic, Spec2Abs!Trap, Spec2Abs!Listed
    <3> QED
      BY <3>1, <3>2 DEF Spec2Abs!Refuse
  <2>5. CASE Push
    BY <2>5 DEF Push
  <2>6. CASE Finish
    <3>1. status = "run" /\ kids' = kids
      BY <2>6 DEF Finish
    <3> QED
      BY <2>6, <3>1, FinishFacts DEF Spec2Abs!Accept, Listed, Distinct, Ordered
  <2>7. CASE UNCHANGED vars
    BY <2>7 DEF vars
  <2> QED
    BY <2>1, <2>2, <2>3, <2>4, <2>5, <2>6, <2>7 DEF Next, Step, Returned
<1> QED
  BY <1>1, <1>2, TypeCorrect, SorterInvariant, PTL
     DEF Spec, ImplementsTopoSort, Spec2Abs!AbsSpec
=============================================================================
