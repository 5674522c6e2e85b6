------------------------------ MODULE TopoSort ------------------------------
(***************************************************************************)
(* What compiler_sort_defs promises its callers, with no traversal in it:  *)
(* in one step the list compiler->defs is either rearranged so that every  *)
(* def comes after its children, or refused because the children relation  *)
(* has a cycle, or left alone because memory ran out.  There is no fourth  *)
(* answer: the "not all defs were visited" branch is not part of the       *)
(* promise.  A list that is in order already is left as it is.             *)
(***************************************************************************)
EXTENDS Integers, Sequences

CONSTANTS Def,      \* the type_def_t's the compiler knows
          Graphs,   \* the children relations a visit_children may induce
          Orders    \* the orders compiler->defs may be in when sorting starts

VARIABLES kids,     \* kids[d]: the defs visit_children visits from d, in order
          defs,     \* compiler->defs.elems
          verdict   \* the answer: "none" until there is one

absVars == <<kids, defs, verdict>>

(***************************************************************************)
(* Every child of a def stands before it.                                  *)
(***************************************************************************)
Ordered(g, list) ==
  \A i \in 1..Len(list) : \A k \in 1..Len(g[list[i]]) :
    \E j \in 1..(i-1) : list[j] = g[list[i]][k]

Distinct(list) ==
  \A i, j \in 1..Len(list) : list[i] = list[j] => i = j

Listed(list) == {list[i] : i \in 1..Len(list)}

(***************************************************************************)
(* A list that can be sorted: no def twice, and every child is in it.      *)
(***************************************************************************)
Complete(g, list) ==
  /\ Distinct(list)
  /\ \A d \in Listed(list) : \A k \in 1..Len(g[d]) : g[d][k] \in Listed(list)

(***************************************************************************)
(* Some nonempty set of defs can be walked forever without leaving it:     *)
(* over finitely many defs, exactly the relations that have a cycle.       *)
(***************************************************************************)
Trap(g, C) ==
  /\ C # {}
  /\ \A d \in C : \E k \in 1..Len(g[d]) : g[d][k] \in C

Cyclic(g, list) == \E C \in SUBSET Listed(list) : Trap(g, C)

AbsInit ==
  /\ kids \in Graphs
  /\ defs \in Orders
  /\ Complete(kids, defs)
  /\ verdict = "none"

Accept ==
  /\ verdict = "none"
  /\ verdict' = "ok"
  /\ defs' \in Seq(Def)
  /\ Len(defs') = Len(defs)
  /\ Listed(defs') = Listed(defs)
  /\ Distinct(defs')
  /\ Ordered(kids, defs')
  /\ Ordered(kids, defs) => defs' = defs
  /\ UNCHANGED kids

Refuse ==
  /\ verdict = "none"
  /\ \/ verdict' = "circular" /\ Cyclic(kids, defs)
     \/ verdict' = "nomem"
  /\ UNCHANGED <<kids, defs>>

AbsNext == Accept \/ Refuse

AbsSpec == AbsInit /\ [][AbsNext]_absVars
=============================================================================
