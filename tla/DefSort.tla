------------------------------ MODULE DefSort ------------------------------
(***************************************************************************)
(* compiler_sort_defs and sorter_visit (compiler_sort_defs.c): the depth-  *)
(* first topological sort that reorders compiler->defs.  The C recursion   *)
(* is an explicit stack of activations of sorter_visit; an activation      *)
(* remembers its def and how far visit_children has got with its children. *)
(* Which children a def has is the business of the callback: here any      *)
(* relation in Graphs; CompileDefs supplies the two the compiler uses.     *)
(***************************************************************************)
EXTENDS Integers, Sequences, FiniteSets

CONSTANTS Def,         \* the type_def_t's the compiler knows
          Graphs,      \* the children relations a visit_children may induce
          Orders,      \* the orders compiler->defs may be in on entry
          StaleFlags   \* what earlier sorts may have left in a flag bit

(***************************************************************************)
(* A def is in compiler->defs once (compiler_add_def pushes it there).     *)
(***************************************************************************)
ASSUME DefAssumption    == IsFiniteSet(Def)
ASSUME GraphsAssumption == Graphs \subseteq [Def -> Seq(Def)]
ASSUME OrdersAssumption ==
  \A o \in Orders :
    /\ o \in Seq(Def)
    /\ \A i, j \in 1..Len(o) : o[i] = o[j] => i = j
ASSUME StaleFlagsAssumption == StaleFlags \subseteq SUBSET Def

VARIABLES kids,     \* kids[d]: the defs visit_children visits from d, in order
          defs,     \* compiler->defs.elems
          newDefs,  \* the pushed part of new_defs
          sorting,  \* the defs whose sorting flag is set
          sorted,   \* the defs whose sorted flag is set
          stack,    \* the activations of sorter_visit, outermost first
          pos,      \* how far ARRAY_FOR_PTR over compiler->defs has got
          status    \* "idle", "run" or what compiler_sort_defs returned

vars == <<kids, defs, newDefs, sorting, sorted, stack, pos, status>>

Answers == {"ok", "circular", "missed", "nomem"}

Spec2Abs == INSTANCE TopoSort WITH
  verdict <- IF status \in {"idle", "run"} THEN "none" ELSE status

Ordered(g, list) == Spec2Abs!Ordered(g, list)
Distinct(list) == Spec2Abs!Distinct(list)
Listed(list) == Spec2Abs!Listed(list)
Complete(g, list) == Spec2Abs!Complete(g, list)

Top == stack[Len(stack)]

(***************************************************************************)
(* The stack once the innermost visit_children has moved on to its next    *)
(* child, once callers have called sorter_visit on d and it has started on *)
(* d's children, and once the innermost activation has returned.           *)
(***************************************************************************)
Advanced == [stack EXCEPT ![Len(stack)].kid = @ + 1]
Called(callers, d) == Append(callers, [def |-> d, kid |-> 1])
Popped == SubSeq(stack, 1, Len(stack) - 1)

(***************************************************************************)
(* Every def that one in compiler->defs mentions is there too: the parser  *)
(* adds a def when it is mentioned.                                        *)
(***************************************************************************)
Init ==
  /\ kids \in Graphs
  /\ defs \in Orders
  /\ Complete(kids, defs)
  /\ newDefs = <<>>
  /\ sorting \in StaleFlags
  /\ sorted \in StaleFlags
  /\ stack = <<>>
  /\ pos = 0
  /\ status = "idle"

(***************************************************************************)
(* Allocate new_defs, then clear the two flags of every def.  If calloc    *)
(* fails nothing has been touched.                                         *)
(***************************************************************************)
OutOfMemory ==
  /\ status = "idle"
  /\ status' = "nomem"
  /\ UNCHANGED <<kids, defs, newDefs, sorting, sorted, stack, pos>>

\* Seeded bug: the index of the loop over the defs starts one too low.
BeginBeforeFirst ==
  /\ status = "idle"
  /\ status' = "run"
  /\ newDefs' = <<>>
  /\ sorting' = {}
  /\ sorted' = {}
  /\ stack' = <<>>
  /\ pos' = 0
  /\ UNCHANGED <<kids, defs>>

\* Seeded bug: the flags are left as the previous sort left them.
BeginWithStaleFlags ==
  /\ status = "idle"
  /\ status' = "run"
  /\ newDefs' = <<>>
  /\ stack' = <<>>
  /\ pos' = 1
  /\ UNCHANGED <<kids, defs, sorting, sorted>>

Begin ==
  /\ status = "idle"
  /\ status' = "run"
  /\ newDefs' = <<>>
  /\ sorting' = {}
  /\ sorted' = {}
  /\ stack' = <<>>
  /\ pos' = 1
  /\ UNCHANGED <<kids, defs>>

(***************************************************************************)
(* A call sorter_visit(d) made by the activations in callers.              *)
(***************************************************************************)
\* Seeded bug: a def whose visit is under way counts as visited.
VisitForgivingCycles(d, callers) ==
  \/ /\ d \in sorted \cup sorting
     /\ stack' = callers
     /\ UNCHANGED <<sorting, status>>
  \/ /\ d \notin sorting \cup sorted
     /\ sorting' = sorting \cup {d}
     /\ stack' = Called(callers, d)
     /\ UNCHANGED status

Visit(d, callers) ==
  \/ /\ d \in sorted
     /\ stack' = callers
     /\ UNCHANGED <<sorting, status>>
  \/ /\ d \in sorting \ sorted
     /\ stack' = callers
     /\ status' = "circular"
     /\ UNCHANGED sorting
  \/ /\ d \notin sorting \cup sorted
     /\ sorting' = sorting \cup {d}
     /\ stack' = Called(callers, d)
     /\ UNCHANGED status

\* Seeded bug: the roots are visited from the last to the first.
VisitRootBackwards ==
  /\ status = "run"
  /\ stack = <<>>
  /\ pos <= Len(defs)
  /\ pos' = pos + 1
  /\ Visit(defs[Len(defs) + 1 - pos], <<>>)
  /\ UNCHANGED <<kids, defs, newDefs, sorted>>

VisitRoot ==
  /\ status = "run"
  /\ stack = <<>>
  /\ pos <= Len(defs)
  /\ pos' = pos + 1
  /\ Visit(defs[pos], <<>>)
  /\ UNCHANGED <<kids, defs, newDefs, sorted>>

\* Seeded bug: the loop over the children does not advance.
VisitKidAgain ==
  /\ status = "run"
  /\ stack # <<>>
  /\ Top.kid <= Len(kids[Top.def])
  /\ Visit(kids[Top.def][Top.kid], stack)
  /\ UNCHANGED <<kids, defs, newDefs, sorted, pos>>

VisitKid ==
  /\ status = "run"
  /\ stack # <<>>
  /\ Top.kid <= Len(kids[Top.def])
  /\ Visit(kids[Top.def][Top.kid], Advanced)
  /\ UNCHANGED <<kids, defs, newDefs, sorted, pos>>

(***************************************************************************)
(* visit_children returned 0: flip the flags and sorter_push the def.      *)
(***************************************************************************)
\* Seeded bug: the def is pushed without waiting for its children.
PushBeforeKids ==
  /\ status = "run"
  /\ stack # <<>>
  /\ sorting' = sorting \ {Top.def}
  /\ sorted' = sorted \cup {Top.def}
  /\ newDefs' = Append(newDefs, Top.def)
  /\ stack' = Popped
  /\ UNCHANGED <<kids, defs, pos, status>>

\* Seeded bug: the sorting flag stays set.
PushStillSorting ==
  /\ status = "run"
  /\ stack # <<>>
  /\ Top.kid > Len(kids[Top.def])
  /\ sorted' = sorted \cup {Top.def}
  /\ newDefs' = Append(newDefs, Top.def)
  /\ stack' = Popped
  /\ UNCHANGED <<kids, defs, sorting, pos, status>>

Push ==
  /\ status = "run"
  /\ stack # <<>>
  /\ Top.kid > Len(kids[Top.def])
  /\ sorting' = sorting \ {Top.def}
  /\ sorted' = sorted \cup {Top.def}
  /\ newDefs' = Append(newDefs, Top.def)
  /\ stack' = Popped
  /\ UNCHANGED <<kids, defs, pos, status>>

(***************************************************************************)
(* Every root has been visited: the count check, then the swap of          *)
(* compiler->defs.elems for new_defs.                                      *)
(***************************************************************************)
\* Seeded bug: compiler->defs keeps its old elems.
FinishWithoutSwap ==
  /\ status = "run"
  /\ stack = <<>>
  /\ pos > Len(defs)
  /\ status' = IF Len(newDefs) = Len(defs) THEN "ok" ELSE "missed"
  /\ UNCHANGED <<kids, defs, newDefs, sorting, sorted, stack, pos>>

Finish ==
  /\ status = "run"
  /\ stack = <<>>
  /\ pos > Len(defs)
  /\ status' = IF Len(newDefs) = Len(defs) THEN "ok" ELSE "missed"
  /\ defs' = IF Len(newDefs) = Len(defs) THEN newDefs ELSE defs
  /\ UNCHANGED <<kids, newDefs, sorting, sorted, stack, pos>>

Step == OutOfMemory \/ Begin \/ VisitRoot \/ VisitKid \/ Push \/ Finish

Returned == status \in Answers /\ UNCHANGED vars

Next == Step \/ Returned

(***************************************************************************)
(* The sort is straight-line sequential code: it does not stop by itself.  *)
(***************************************************************************)
Spec == Init /\ [][Next]_vars

FairSpec == Spec /\ WF_vars(Step)
-----------------------------------------------------------------------------
Frame == [def : Def, kid : Nat \ {0}]

(***************************************************************************)
(* Types of the sorter's state.                                            *)
(***************************************************************************)
TypeOK ==
  /\ kids \in [Def -> Seq(Def)]
  /\ defs \in Seq(Def)
  /\ newDefs \in Seq(Def)
  /\ sorting \in SUBSET Def
  /\ sorted \in SUBSET Def
  /\ stack \in Seq(Frame)
  /\ pos \in Nat
  /\ status \in {"idle", "run"} \cup Answers
  /\ status = "run" => pos \in 1..(Len(defs) + 1)

(***************************************************************************)
(* The inductive invariant, part by part.  The list: nothing outside it is *)
(* ever reached.                                                           *)
(***************************************************************************)
ListPart ==
  /\ Complete(kids, defs)
  /\ status \notin {"idle", "nomem"} => sorting \cup sorted \subseteq Listed(defs)

(***************************************************************************)
(* What has been pushed: exactly the sorted defs, once each, children      *)
(* first; no cycle runs through them.                                      *)
(***************************************************************************)
PushedPart ==
  /\ sorted = {newDefs[i] : i \in 1..Len(newDefs)}
  /\ Distinct(newDefs)
  /\ Ordered(kids, newDefs)
  /\ \A C \in SUBSET Def : Spec2Abs!Trap(kids, C) => C \cap sorted = {}

(***************************************************************************)
(* The activations: the sorting defs, once each; every one of them but the *)
(* innermost is visiting the next; the children it visited before are      *)
(* sorted.                                                                 *)
(***************************************************************************)
StackPart ==
  /\ sorting = {stack[i].def : i \in 1..Len(stack)}
  /\ sorting \cap sorted = {}
  /\ \A i, j \in 1..Len(stack) : stack[i].def = stack[j].def => i = j
  /\ \A i \in 1..Len(stack) : stack[i].kid <= Len(kids[stack[i].def]) + 1
  /\ \A i \in 1..(Len(stack) - 1) :
       /\ stack[i].kid > 1
       /\ kids[stack[i].def][stack[i].kid - 1] = stack[i+1].def
  /\ \A i \in 1..Len(stack) : \A k \in 1..(stack[i].kid - 1) :
       \/ kids[stack[i].def][k] \in sorted
       \/ i < Len(stack) /\ k = stack[i].kid - 1

(***************************************************************************)
(* The roots: those before pos are sorted, but for the one whose           *)
(* activation is the outermost.                                            *)
(***************************************************************************)
RootPart ==
  /\ stack # <<>> => pos > 1 /\ stack[1].def = defs[pos-1]
  /\ \A i \in 1..(pos-1) :
       \/ defs[i] \in sorted
       \/ i = pos - 1 /\ stack # <<>>

(***************************************************************************)
(* A list in order is pushed as it stands: no root finds a child unsorted. *)
(***************************************************************************)
StablePart ==
  Ordered(kids, defs) =>
    /\ Len(stack) <= 1
    /\ Len(newDefs) + Len(stack) = pos - 1
    /\ \A i \in 1..Len(newDefs) : newDefs[i] = defs[i]

Inv ==
  /\ ListPart
  /\ status \in {"idle", "nomem"} => newDefs = <<>>
  /\ status \notin {"idle", "nomem"} => PushedPart
  /\ status = "run" => StackPart /\ RootPart /\ StablePart
  /\ status = "ok" => defs = newDefs
  /\ status = "circular" => Spec2Abs!Cyclic(kids, defs)
  /\ status # "missed"

(***************************************************************************)
(* Whatever has been pushed is final: at every moment of the traversal the *)
(* defs in new_defs are distinct and each comes after all its children, so *)
(* sorter_push never needs to move one (nor to overrun new_defs).          *)
(***************************************************************************)
PushedInOrder ==
  status # "idle" => /\ Ordered(kids, newDefs)
                     /\ Distinct(newDefs)
                     /\ Len(newDefs) <= Len(defs)

(***************************************************************************)
(* "Circular dependency" is only reported for a relation that has a cycle, *)
(* success is only reported for one that has none, and the branch for defs *)
(* not visited, commented "This should never happen", is never taken.      *)
(***************************************************************************)
VerdictIsRight ==
  /\ status = "circular" => Spec2Abs!Cyclic(kids, defs)
  /\ status = "ok" => ~Spec2Abs!Cyclic(kids, defs)
  /\ status # "missed"

(***************************************************************************)
(* A list that is in order already comes back unchanged, so sorting again  *)
(* (as every further compiler_compile does) cannot shuffle it.             *)
(***************************************************************************)
StableIfOrdered == [][Ordered(kids, defs) => defs' = defs]_vars

(***************************************************************************)
(* The traversal implements the one-step promise of TopoSort.              *)
(***************************************************************************)
ImplementsTopoSort == Spec2Abs!AbsSpec

(***************************************************************************)
(* The recursion always comes back with an answer, on cyclic relations too.*)
(***************************************************************************)
Terminates == <>(status \in Answers)
=============================================================================
