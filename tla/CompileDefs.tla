---------------------------- MODULE CompileDefs ----------------------------
(***************************************************************************)
(* compiler_compile (compiler.c) from the moment the parser is done: the   *)
(* defs are validated, sorted by what they hold in place, sorted again by  *)
(* what their C typedefs name, and the next file of the command line is    *)
(* compiled on top of the result.  Validate and DefSort supply the passes; *)
(* this module supplies the order of the calls, what their results lead to *)
(* and the children relation of each sort.                                 *)
(***************************************************************************)
EXTENDS TypeGraph

CONSTANTS Programs,  \* the types all files together may give the defs
          Order,     \* the defs in the order the parser meets them
          MaxCalls   \* how deep a walk of the validator may recurse

ASSUME ProgramsAssumption == \A p \in Programs : Typed(p)
ASSUME OrderAssumption == Order \in Seq(Def) /\ ToSet(Order) = Def /\ IsInjective(Order)
ASSUME MaxCallsAssumption == MaxCalls \in Nat /\ MaxCalls > Cardinality(Def)

VARIABLES
  types,    \* types[d]: d's type, the same from the file that defines d on
  defs,     \* compiler->defs.elems
  phase,    \* "validate", "inplace", "typedefs"; "done", "refused", "crashed"
  dpos, rpos, walk, calls, ok, vstatus,                    \* Validate's
  newDefs, sorting, sorted, stack, pos, sstatus            \* DefSort's

validateVars == <<dpos, rpos, walk, calls, ok, vstatus>>
sortVars == <<newDefs, sorting, sorted, stack, pos, sstatus>>
cvars == <<types, defs, phase, validateVars, sortVars>>

\* Seeded bug: both sorts are given the children of the second.
KidsOfTypedefs == TypedefKids(types)

Kids == IF phase = "typedefs" THEN TypedefKids(types) ELSE InplaceKids(types)

Check == INSTANCE Validate WITH status <- vstatus, Orders <- {Order}
Sort == INSTANCE DefSort WITH
          kids <- Kids, status <- sstatus, Graphs <- [Def -> Seq(Def)],
          Orders <- {Order}, StaleFlags <- SUBSET Def

(***************************************************************************)
(* A file is complete in itself: its types only mention defs of its own or *)
(* of earlier files (a def that is mentioned is in compiler->defs, and one *)
(* still undefined at the end of a file is refused).                       *)
(***************************************************************************)
Init ==
  /\ types \in Programs
  /\ \E n \in 1..Len(Order) : defs = SubSeq(Order, 1, n)
  /\ SelfContained(types, ToSet(defs))
  /\ phase = "validate"
  /\ Check!Begun
  /\ newDefs = <<>> /\ sorting = {} /\ sorted = {}
  /\ stack = <<>> /\ pos = 0 /\ sstatus = "idle"

Validating ==
  /\ phase = "validate"
  /\ Check!Step
  /\ UNCHANGED <<phase, sortVars>>

\* Seeded bug: a program the validator refused is compiled all the same.
ValidatedRegardless ==
  /\ phase = "validate"
  /\ vstatus # "run"
  /\ phase' = IF vstatus = "overflow" THEN "crashed" ELSE "inplace"
  /\ UNCHANGED <<types, defs, validateVars, sortVars>>

Validated ==
  /\ phase = "validate"
  /\ vstatus # "run"
  /\ phase' = CASE vstatus = "valid"    -> "inplace"
                [] vstatus = "invalid"  -> "refused"
                [] vstatus = "overflow" -> "crashed"
  /\ UNCHANGED <<types, defs, validateVars, sortVars>>

Sorting ==
  /\ phase \in {"inplace", "typedefs"}
  /\ UNCHANGED <<types, phase, validateVars>>
  /\ Sort!Step

(***************************************************************************)
(* compiler_sort_defs has returned: go on, or hand its error up.           *)
(***************************************************************************)
\* Seeded bug: the second sort is skipped.
SortedOnce ==
  /\ phase \in {"inplace", "typedefs"}
  /\ sstatus = "ok"
  /\ phase' = "done"
  /\ sstatus' = "idle"
  /\ newDefs' = <<>>
  /\ UNCHANGED <<types, defs, validateVars, sorting, sorted, stack, pos>>

Sorted ==
  /\ phase \in {"inplace", "typedefs"}
  /\ sstatus = "ok"
  /\ phase' = IF phase = "inplace" THEN "typedefs" ELSE "done"
  /\ sstatus' = "idle"
  /\ newDefs' = <<>>
  /\ UNCHANGED <<types, defs, validateVars, sorting, sorted, stack, pos>>

\* Seeded bug: the error of a sort is dropped.
SortFailedUnnoticed ==
  /\ phase \in {"inplace", "typedefs"}
  /\ sstatus \in Sort!Answers \ {"ok"}
  /\ phase' = "done"
  /\ UNCHANGED <<types, defs, validateVars, sortVars>>

SortFailed ==
  /\ phase \in {"inplace", "typedefs"}
  /\ sstatus \in Sort!Answers \ {"ok"}
  /\ phase' = "refused"
  /\ UNCHANGED <<types, defs, validateVars, sortVars>>

BeginValidating ==
  /\ dpos' = 1 /\ rpos' = 1 /\ walk' = "none" /\ calls' = <<>>
  /\ ok' = TRUE /\ vstatus' = "run"

(***************************************************************************)
(* fusc calls compiler_compile on its next file: the parser has pushed the *)
(* new defs behind the sorted ones.                                        *)
(***************************************************************************)
\* Seeded bug: a def that is mentioned again is added again.
NextFileAddsAgain ==
  /\ phase = "done"
  /\ Len(defs) < Len(Order)
  /\ defs' = defs \o Order
  /\ phase' = "validate"
  /\ BeginValidating
  /\ UNCHANGED <<types, sortVars>>

NextFile ==
  /\ phase = "done"
  /\ Len(defs) < Len(Order)
  /\ defs' = defs \o SubSeq(Order, Len(defs) + 1, Len(Order))
  /\ phase' = "validate"
  /\ BeginValidating
  /\ UNCHANGED <<types, sortVars>>

Step == Validating \/ Validated \/ Sorting \/ Sorted \/ SortFailed \/ NextFile

-----------------------------------------------------------------------------
(***************************************************************************)
(* Types, and what compiler->defs always is: the defs parsed so far, in    *)
(* some order, none lost and none twice.                                   *)
(***************************************************************************)
TypeOK ==
  /\ phase \in {"validate", "inplace", "typedefs", "done", "refused", "crashed"}
  /\ vstatus \in {"run", "valid", "invalid", "overflow"}
  /\ sstatus \in {"idle", "run"} \cup Sort!Answers
  /\ Sort!Distinct(defs)
  /\ ToSet(defs) = ToSet(SubSeq(Order, 1, Len(defs)))

(***************************************************************************)
(* type_unalias and type_def_unalias loop until there is no alias left; no *)
(* pass calls them while aliases lead in a circle.                         *)
(***************************************************************************)
UnaliasEnds ==
  phase \in {"inplace", "typedefs", "done"} => ~AliasCycle(types, ToSet(defs))

(***************************************************************************)
(* Each sort leaves its own order behind, also over defs sorted for an     *)
(* earlier file: defs come after those they hold when the first has just   *)
(* run, and after those their typedefs name when the second has.           *)
(***************************************************************************)
EachSortInOrder ==
  /\ phase = "typedefs" /\ sstatus = "idle" => Sort!Ordered(InplaceKids(types), defs)
  /\ phase = "done" => Sort!Ordered(TypedefKids(types), defs)

TrapIn(g, S) ==
  \E C \in SUBSET S :
    C # {} /\ \A d \in C : \E k \in 1..Len(g[d]) : g[d][k] \in C

(***************************************************************************)
(* What the sorts assume of compiler->defs: that visit_children has no     *)
(* cycles there, the validator having refused the programs that do.        *)
(***************************************************************************)
SortsPartialOrders ==
  phase \in {"inplace", "typedefs"} => ~TrapIn(Kids, ToSet(defs))

(***************************************************************************)
(* What is true of it: every cycle the validator lets through to the       *)
(* inplace sort runs through an array (whose elements are held by value    *)
(* without being marked "inplace"), and every cycle it lets through to the *)
(* typedef sort runs through a func.                                       *)
(***************************************************************************)
OnlyKnownCycles ==
  LET Tagged(tag) == {d \in ToSet(defs) : types[d].tag = tag}
  IN  /\ phase = "inplace"  => ~TrapIn(Kids, ToSet(defs) \ Tagged("array"))
      /\ phase = "typedefs" => ~TrapIn(Kids, ToSet(defs) \ Tagged("func"))

(***************************************************************************)
(* What the validator is for, and with what the sorts are for.             *)
(***************************************************************************)
KeepsRules ==
  /\ \A d \in ToSet(defs) :
       /\ types[d].tag # "undefined"
       /\ types[d].tag \in Composite =>
            \A r \in Refs(types[d]) : Check!RefAllowed(r, UnaliasTag(types, r.to))
  /\ \A C \in SUBSET ToSet(defs) : ~Check!MarkedCycle(C)

Acceptable ==
  /\ KeepsRules
  /\ ~TrapIn(InplaceKids(types), ToSet(defs))
  /\ ~TrapIn(TypedefKids(types), ToSet(defs))

(***************************************************************************)
(* The three passes together answer exactly one question: a program is     *)
(* compiled only if it breaks no rule and neither relation has a cycle,    *)
(* and refused only if it does or memory ran out.                          *)
(***************************************************************************)
CompilesIffAcceptable ==
  /\ phase = "done" => Acceptable
  /\ phase = "refused" /\ sstatus # "nomem" => ~Acceptable
  /\ phase = "crashed" => ~Acceptable
=============================================================================
