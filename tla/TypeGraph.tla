----------------------------- MODULE TypeGraph -----------------------------
(***************************************************************************)
(* The types the parser leaves on the defs (type.h), as one record per     *)
(* def: its tag and the references it makes, in source order (the subtype  *)
(* of an array, the fields of a struct or union, the target of an alias,   *)
(* the return type and the arguments of a func).  The parser gives every   *)
(* nested type a def of its own and hands back an alias to it, so what a   *)
(* reference names is a Leaf: a def (TYPE_TAG_ALIAS) or a type without one.*)
(***************************************************************************)
EXTENDS Integers, Sequences, FiniteSets, SequencesExt

CONSTANT Def   \* the type_def_t's the compiler knows

PlainTags == {"void", "any", "type", "int", "err", "string", "bool", "byte",
              "extern"}
Composite == {"array", "struct", "union"}
Tags == PlainTags \cup Composite \cup {"alias", "func", "undefined"}

ASSUME DefsAreNotTags == IsFiniteSet(Def) /\ Def \cap Tags = {}

Leaf == PlainTags \cup Def

\* is_inplace and is_weakref are mutually exclusive
Modes == {"plain", "inplace", "weakref"}
Ref == [mode : Modes, to : Leaf]

Refs(type) == {type.refs[i] : i \in 1..Len(type.refs)}

(***************************************************************************)
(* What a parsed type_t can be.                                            *)
(***************************************************************************)
IsType(type) ==
  /\ type.tag \in Tags
  /\ type.refs \in Seq(Ref)
  /\ type.tag \in PlainTags \cup {"undefined"} => type.refs = <<>>
  /\ type.tag \in {"array", "alias"} => Len(type.refs) = 1
  /\ type.tag = "func" => Len(type.refs) >= 1
  /\ type.tag \in {"alias", "func"} => \A r \in Refs(type) : r.mode = "plain"
  /\ type.tag = "alias" => \A r \in Refs(type) : r.to \in Def

Typed(types) == \A d \in Def : IsType(types[d])

(***************************************************************************)
(* Every def that one of S mentions is in S.                               *)
(***************************************************************************)
SelfContained(types, S) ==
  \A d \in S : \A r \in Refs(types[d]) : r.to \in Def => r.to \in S

-----------------------------------------------------------------------------
(***************************************************************************)
(* The type_tag_* predicates.                                              *)
(***************************************************************************)
TagIsPointer(tag) == tag \in {"struct", "union", "func", "extern"}
TagSupportsInplace(tag) == TagIsPointer(tag) /\ tag # "func"
TagHasCleanup(tag) == tag \in {"any", "array", "struct", "union"}
TagSupportsWeakref(tag) == TagHasCleanup(tag)

-----------------------------------------------------------------------------
IsAlias(types, x) == x \in Def /\ types[x].tag = "alias"
AliasOf(types, d) == types[d].refs[1].to

(***************************************************************************)
(* type_unalias and type_def_unalias: follow aliases to the end.  The C    *)
(* loops never leave a cycle of aliases; here they give up after as many   *)
(* steps as there are defs, which only a cycle can take (AliasCycle).      *)
(***************************************************************************)
Follow(types, x) == IF IsAlias(types, x) THEN AliasOf(types, x) ELSE x

DefUnalias(types, d) ==
  LET follow[n \in 0..Cardinality(Def)] ==
        IF n = 0 THEN d ELSE Follow(types, follow[n-1])
  IN  follow[Cardinality(Def)]

UnaliasTag(types, leaf) ==
  IF leaf \in Def THEN types[DefUnalias(types, leaf)].tag ELSE leaf

AliasLoop(types, C) == \A d \in C : IsAlias(types, d) /\ AliasOf(types, d) \in C
AliasCycle(types, S) == \E C \in SUBSET S : C # {} /\ AliasLoop(types, C)

RefIsInplace(types, ref) ==
  \/ ref.mode = "inplace"
  \/ ~TagIsPointer(UnaliasTag(types, ref.to))

-----------------------------------------------------------------------------
(***************************************************************************)
(* The children relations the sorts use: visit_inplace_refs visits the     *)
(* real defs held by value, visit_typedefs the defs named by a C typedef.  *)
(* Those(seq, S) is SelectSeq for a set, as a recursive function.          *)
(***************************************************************************)
Those(seq, S) ==
  LET those[n \in 0..Len(seq)] ==
        IF n = 0 THEN <<>>
        ELSE IF seq[n] \in S THEN Append(those[n-1], seq[n]) ELSE those[n-1]
  IN  those[Len(seq)]

Naming(refs) == {r \in refs : r.to \in Def}
Holding(types, refs) == {r \in Naming(refs) : RefIsInplace(types, r)}

\* Seeded bug: what is only pointed to is visited too.
InplaceKidsOrPointers(types) ==
  [d \in Def |->
     IF types[d].tag \in Composite
     THEN LET named == Those(types[d].refs, Naming(Refs(types[d])))
          IN  [i \in 1..Len(named) |-> DefUnalias(types, named[i].to)]
     ELSE <<>>]

InplaceKids(types) ==
  [d \in Def |->
     IF types[d].tag \in Composite
     THEN LET held == Those(types[d].refs, Holding(types, Refs(types[d])))
          IN  [i \in 1..Len(held) |-> DefUnalias(types, held[i].to)]
     ELSE <<>>]

TypedefKids(types) ==
  [d \in Def |->
     IF types[d].tag \in {"alias", "func"}
     THEN LET named == Those(types[d].refs, Naming(Refs(types[d])))
          IN  [i \in 1..Len(named) |-> named[i].to]
     ELSE <<>>]

(***************************************************************************)
(* The references _def_has_circular_inplace_ref follows, and where to: of  *)
(* a type with fields those written "inplace", and aliases one by one.     *)
(***************************************************************************)
IsMarked(types, d, ref) ==
  /\ ref.to \in Def
  /\ \/ types[d].tag \in Composite /\ ref.mode = "inplace"
     \/ types[d].tag = "alias"

MarkedKids(types, d) ==
  {ref.to : ref \in {ref \in Refs(types[d]) : IsMarked(types, d, ref)}}
=============================================================================
