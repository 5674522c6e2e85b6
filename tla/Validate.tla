------------------------------ MODULE Validate ------------------------------
(***************************************************************************)
(* compiler_validate (compiler_validate.c): the pass over compiler->defs   *)
(* between parsing and sorting.  Three recursive walks do the work:        *)
(*   "ref"     _validate_ref_recurse, along the aliases of one reference;  *)
(*   "alias"   _is_circular_alias, along the aliases of one alias;         *)
(*   "marked"  _def_has_circular_inplace_ref, through "inplace" references.*)
(* None of them marks where it has been: they end at the end of a path or  *)
(* back at the def being validated.  `calls` is the C stack of the walk;   *)
(* MaxCalls is the depth at which the program has run out of it.           *)
(***************************************************************************)
EXTENDS TypeGraph

CONSTANTS Programs,  \* the type assignments the parser may have produced
          Orders,    \* what the parser may have made of compiler->defs
          MaxCalls   \* how deep a walk may recurse

ASSUME MaxCallsAssumption == MaxCalls \in Nat /\ MaxCalls > Cardinality(Def)
ASSUME ProgramsAssumption == \A p \in Programs : Typed(p)
ASSUME OrdersAssumption == Orders \subseteq Seq(Def)

VARIABLES types,    \* types[d]: d's type
          defs,     \* compiler->defs.elems
          dpos,     \* ARRAY_FOR_PTR over compiler->defs
          rpos,     \* ARRAY_FOR over the fields of the def
          walk,     \* which walk is under way, or "none"
          calls,    \* its activations, outermost first
          ok,       \* compiler_validate's ok
          status    \* "run", "valid", "invalid", or "overflow": crashed

vvars == <<types, defs, dpos, rpos, walk, calls, ok, status>>

Known == ToSet(defs)
Parent == defs[dpos]
ThisRef == types[Parent].refs[rpos]
Here == calls[Len(calls)]

Begun ==
  /\ dpos = 1
  /\ rpos = 1
  /\ walk = "none"
  /\ calls = <<>>
  /\ ok = TRUE
  /\ status = "run"

(***************************************************************************)
(* Every def that one in compiler->defs mentions is there too: the parser  *)
(* adds a def when it is mentioned.                                        *)
(***************************************************************************)
Init ==
  /\ types \in Programs
  /\ defs \in Orders
  /\ SelfContained(types, Known)
  /\ Begun

-----------------------------------------------------------------------------
(***************************************************************************)
(* The outer loops.                                                        *)
(***************************************************************************)
AtDef == status = "run" /\ walk = "none" /\ dpos <= Len(defs)

NextRef == rpos' = rpos + 1 /\ UNCHANGED dpos
NextDef == dpos' = dpos + 1 /\ rpos' = 1

Undefined ==
  /\ AtDef
  /\ types[Parent].tag = "undefined"
  /\ ok' = FALSE
  /\ NextDef
  /\ UNCHANGED <<types, defs, walk, calls, status>>

NotChecked ==
  /\ AtDef
  /\ types[Parent].tag \in PlainTags \cup {"func"}
  /\ NextDef
  /\ UNCHANGED <<types, defs, walk, calls, ok, status>>

FieldsDone ==
  /\ AtDef
  /\ types[Parent].tag \in Composite
  /\ rpos > Len(types[Parent].refs)
  /\ NextDef
  /\ UNCHANGED <<types, defs, walk, calls, ok, status>>

Return ==
  /\ status = "run"
  /\ walk = "none"
  /\ dpos > Len(defs)
  /\ status' = IF ok THEN "valid" ELSE "invalid"
  /\ UNCHANGED <<types, defs, dpos, rpos, walk, calls, ok>>

(***************************************************************************)
(* One more activation of the walk, if the C stack still has room for it.  *)
(***************************************************************************)
Call(x) ==
  \/ /\ Len(calls) < MaxCalls
     /\ calls' = Append(calls, [at |-> x, next |-> 1])
     /\ UNCHANGED status
  \/ /\ Len(calls) = MaxCalls
     /\ status' = "overflow"
     /\ UNCHANGED calls

-----------------------------------------------------------------------------
(***************************************************************************)
(* _validate_ref: an illegal reference is reported and its field done.  A  *)
(* legal one goes on to _is_circular_inplace_ref if it is marked "inplace" *)
(* and names a def; if that def is the parent itself the cycle is closed.  *)
(***************************************************************************)
StartRef ==
  /\ AtDef
  /\ types[Parent].tag \in Composite
  /\ rpos <= Len(types[Parent].refs)
  /\ walk' = "ref"
  /\ calls' = <<[at |-> ThisRef.to, next |-> 1]>>
  /\ UNCHANGED <<types, defs, dpos, rpos, ok, status>>

FollowRef ==
  /\ status = "run"
  /\ walk = "ref"
  /\ IsAlias(types, Here.at)
  /\ Call(AliasOf(types, Here.at))
  /\ UNCHANGED <<types, defs, dpos, rpos, walk, ok>>

EndTag == IF Here.at \in Def THEN types[Here.at].tag ELSE Here.at

RefAllowed(ref, tag) ==
  /\ ref.mode = "inplace" => TagSupportsInplace(tag)
  /\ ref.mode = "weakref" => TagSupportsWeakref(tag)

RefusedRef ==
  /\ status = "run"
  /\ walk = "ref"
  /\ ~IsAlias(types, Here.at)
  /\ ~RefAllowed(ThisRef, EndTag)
  /\ ok' = FALSE
  /\ walk' = "none"
  /\ calls' = <<>>
  /\ NextRef
  /\ UNCHANGED <<types, defs, status>>

\* Seeded bug: a reference is only compared with its own target.
AllowedRefWithoutWalk ==
  /\ status = "run"
  /\ walk = "ref"
  /\ ~IsAlias(types, Here.at)
  /\ RefAllowed(ThisRef, EndTag)
  /\ ok' = (ok /\ ~(ThisRef.mode = "inplace" /\ ThisRef.to = Parent))
  /\ walk' = "none"
  /\ calls' = <<>>
  /\ NextRef
  /\ UNCHANGED <<types, defs, status>>

AllowedRef ==
  /\ status = "run"
  /\ walk = "ref"
  /\ ~IsAlias(types, Here.at)
  /\ RefAllowed(ThisRef, EndTag)
  /\ UNCHANGED <<types, defs, status>>
  /\ \/ /\ ThisRef.mode = "inplace" /\ ThisRef.to \in Def \ {Parent}
        /\ walk' = "marked"
        /\ calls' = <<[at |-> ThisRef.to, next |-> 1]>>
        /\ UNCHANGED <<dpos, rpos, ok>>
     \/ /\ ~(ThisRef.mode = "inplace" /\ ThisRef.to \in Def \ {Parent})
        /\ ok' = (ok /\ ~(ThisRef.mode = "inplace" /\ ThisRef.to = Parent))
        /\ walk' = "none"
        /\ calls' = <<>>
        /\ NextRef

(***************************************************************************)
(* _def_has_circular_inplace_ref: a loop over the fields of a def, or the  *)
(* one target of an alias, which calls itself on those it must follow.     *)
(***************************************************************************)
Walking == status = "run" /\ walk = "marked"
FieldsLeft ==
  types[Here.at].tag \in Composite \cup {"alias"} /\ Here.next <= Len(types[Here.at].refs)
Field == types[Here.at].refs[Here.next]

NotMarked ==
  /\ Walking /\ FieldsLeft
  /\ ~IsMarked(types, Here.at, Field)
  /\ calls' = [calls EXCEPT ![Len(calls)].next = @ + 1]
  /\ UNCHANGED <<types, defs, dpos, rpos, walk, ok, status>>

MarkedCall ==
  /\ Walking /\ FieldsLeft
  /\ IsMarked(types, Here.at, Field)
  /\ Field.to # Parent
  /\ Call(Field.to)
  /\ UNCHANGED <<types, defs, dpos, rpos, walk, ok>>

MarkedCircle ==
  /\ Walking /\ FieldsLeft
  /\ IsMarked(types, Here.at, Field)
  /\ Field.to = Parent
  /\ ok' = FALSE
  /\ walk' = "none"
  /\ calls' = <<>>
  /\ NextRef
  /\ UNCHANGED <<types, defs, status>>

\* Seeded bug: the loop over the fields does not advance after a call.
MarkedReturnAgain ==
  /\ Walking /\ ~FieldsLeft
  /\ UNCHANGED <<types, defs, ok, status>>
  /\ \/ /\ Len(calls) > 1
        /\ calls' = Front(calls)
        /\ UNCHANGED <<dpos, rpos, walk>>
     \/ /\ Len(calls) = 1
        /\ calls' = <<>>
        /\ walk' = "none"
        /\ NextRef

MarkedReturn ==
  /\ Walking /\ ~FieldsLeft
  /\ UNCHANGED <<types, defs, ok, status>>
  /\ \/ /\ Len(calls) > 1
        /\ calls' = [Front(calls) EXCEPT ![Len(calls) - 1].next = @ + 1]
        /\ UNCHANGED <<dpos, rpos, walk>>
     \/ /\ Len(calls) = 1
        /\ calls' = <<>>
        /\ walk' = "none"
        /\ NextRef

-----------------------------------------------------------------------------
(***************************************************************************)
(* _is_circular_alias.                                                     *)
(***************************************************************************)
StartAlias ==
  /\ AtDef
  /\ types[Parent].tag = "alias"
  /\ walk' = "alias"
  /\ calls' = <<[at |-> AliasOf(types, Parent), next |-> 1]>>
  /\ UNCHANGED <<types, defs, dpos, rpos, ok, status>>

\* Seeded bug: the walk does not compare with the def it started from.
FollowAliasForever ==
  /\ status = "run"
  /\ walk = "alias"
  /\ IsAlias(types, Here.at)
  /\ Call(AliasOf(types, Here.at))
  /\ UNCHANGED <<types, defs, dpos, rpos, walk, ok>>

FollowAlias ==
  /\ status = "run"
  /\ walk = "alias"
  /\ IsAlias(types, Here.at)
  /\ Here.at # Parent
  /\ Call(AliasOf(types, Here.at))
  /\ UNCHANGED <<types, defs, dpos, rpos, walk, ok>>

\* Seeded bug: the walk's activations are left behind.
EndAliasKeepsCalls ==
  /\ status = "run"
  /\ walk = "alias"
  /\ ~(IsAlias(types, Here.at) /\ Here.at # Parent)
  /\ ok' = (ok /\ ~IsAlias(types, Here.at))
  /\ walk' = "none"
  /\ NextDef
  /\ UNCHANGED <<types, defs, calls, status>>

EndAlias ==
  /\ status = "run"
  /\ walk = "alias"
  /\ ~(IsAlias(types, Here.at) /\ Here.at # Parent)
  /\ ok' = (ok /\ ~IsAlias(types, Here.at))
  /\ walk' = "none"
  /\ calls' = <<>>
  /\ NextDef
  /\ UNCHANGED <<types, defs, status>>

Step ==
  \/ Undefined \/ NotChecked \/ FieldsDone \/ Return
  \/ StartRef \/ FollowRef \/ RefusedRef \/ AllowedRef
  \/ NotMarked \/ MarkedCall \/ MarkedCircle \/ MarkedReturn
  \/ StartAlias \/ FollowAlias \/ EndAlias

Stopped == status # "run" /\ UNCHANGED vvars

Next == Step \/ Stopped

Spec == Init /\ [][Next]_vvars /\ WF_vvars(Step)
-----------------------------------------------------------------------------
Activation == [at : Leaf, next : Nat \ {0}]

(***************************************************************************)
(* Types of the pass's state.                                              *)
(***************************************************************************)
TypeOK ==
  /\ Typed(types)
  /\ defs \in Seq(Def)
  /\ SelfContained(types, Known)
  /\ dpos \in 1..(Len(defs) + 1)
  /\ rpos \in Nat \ {0}
  /\ walk \in {"none", "ref", "alias", "marked"}
  /\ calls \in Seq(Activation) /\ Len(calls) <= MaxCalls
  /\ (walk = "none") <=> (calls = <<>>)
  /\ ok \in BOOLEAN
  /\ status \in {"run", "valid", "invalid", "overflow"}

(***************************************************************************)
(* The rules the pass enforces, with no walking in them: no def is         *)
(* undefined, no alias leads back to itself, every reference may be made   *)
(* to what it really names, and nothing contains itself in place.          *)
(***************************************************************************)
AllDefined == \A d \in Known : types[d].tag # "undefined"

RefsAllowed ==
  \A d \in Known : types[d].tag \in Composite =>
    \A r \in Refs(types[d]) : RefAllowed(r, UnaliasTag(types, r.to))

MarkedCycle(C) ==
  /\ C # {}
  /\ \A d \in C : MarkedKids(types, d) \cap C # {}

WellFormed ==
  /\ AllDefined
  /\ ~AliasCycle(types, Known)
  /\ RefsAllowed
  /\ \A C \in SUBSET Known : ~MarkedCycle(C)

(***************************************************************************)
(* The per-def, per-field walks add up to the rules: a program passes if   *)
(* and only if it keeps them, in whatever order its defs come.             *)
(***************************************************************************)
AnswerIsRight ==
  /\ status = "valid" => WellFormed
  /\ status = "invalid" => ~WellFormed

(***************************************************************************)
(* The walks only lose themselves in a cycle that does not come back to    *)
(* the def being validated (the only def they compare with): a program     *)
(* without one never exhausts the stack.                                   *)
(***************************************************************************)
OverflowIsForeignCycle ==
  status = "overflow" => \E C \in SUBSET (Known \ {Parent}) : MarkedCycle(C)

(***************************************************************************)
(* Every pass ends, with an answer or on the guard page.                   *)
(***************************************************************************)
Ends == <>(status # "run")
=============================================================================
