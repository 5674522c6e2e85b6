-------------------------- MODULE ParseDefsProofs --------------------------
(***************************************************************************)
(* Proofs about ParseDefs, for any names, packages and types, and files of *)
(* any length, nested to any depth.                                        *)
(*                                                                         *)
(* The invariant and the lemmas about its parts take the state as a        *)
(* parameter: a step is a change of the table of defs followed by a change *)
(* of the stack, and each is shown to be harmless by itself.               *)
(***************************************************************************)
EXTENDS ParseDefs, Loops, SequenceTheorems

LEMMA FindFacts ==
  ASSUME NEW name, Len(defs) \in Nat
  PROVE  \/ Find(name) = 0 /\ \A i \in Pointer : defs[i].name # name
         \/ Find(name) \in Pointer /\ defs[Find(name)].name = name
<1> DEFINE Named == {i \in 1..Len(defs) : defs[i].name = name}
<1>1. Find(name) = IF Named # {} THEN Min(Named) ELSE 0
  BY DEF Find, SelectInSeq
<1>2. CASE Named # {}
  <2>1. \E m \in Named : \A k \in Named : m <= k
    <3>1. Named \in SUBSET Nat
      OBVIOUS
    <3> HIDE DEF Named
    <3> QED
      BY <1>2, <3>1, LeastExists
  <2>2. Min(Named) \in Named
    BY <2>1 DEF Min
  <2> QED
    BY <1>1, <1>2, <2>2 DEF Pointer
<1>3. CASE Named = {}
  BY <1>1, <1>3 DEF Pointer
<1> QED
  BY <1>2, <1>3

-----------------------------------------------------------------------------
(***************************************************************************)
(* The types of the state, field by field.                                 *)
(***************************************************************************)
Words == STRING \cup   \* the parser's own words are strings too
  {"void", "any", "type", "int", "err", "string", "bool", "byte", "extern",
   "alias", "undefined", "none", "same", "array", "struct", "union", "func",
   "typedef", "field", "arg", "ret", "plain", "inplace", "weakref", "elem", "arrayof"}
Text == Seq(Words)
TypeValues == [tag : Words] \cup [tag : Words, cname : Text] \cup [tag : Words, to : Nat]
RefRec == [mode : Words, type : TypeValues]
DefRec == [name : Text, tag : Words, members : Seq(Text), refs : Seq(RefRec)]
ActRec == [kind : Words, def : Nat, name : Text, depth : Nat, mode : Words, slot : Nat]

Typed ==
  /\ defs \in Seq(DefRec)
  /\ bindings \in Seq([name : Text, def : Nat])
  /\ package \in Text
  /\ stack \in Seq(ActRec)
  /\ result \in TypeValues
  /\ items \in 0..MaxItems
  /\ status \in {"run", "parsed", "failed", "looping"}

(***************************************************************************)
(* A type that refers to one of n defs, and a def made of such types.      *)
(***************************************************************************)
ValidType(t, n) ==
  \/ t.tag \in PlainTypes \cup {"err", "undefined"}
  \/ t.tag = "extern" /\ t.cname \in Externs
  \/ t.tag = "alias" /\ t.to \in 1..n

Shape(def) ==
  /\ def.tag \in Bodies => Len(def.refs) = Len(def.members)
  /\ def.tag \notin Bodies => def.members = <<>>
  /\ def.tag = "func" => Len(def.refs) >= 1
  /\ def.tag \in {"array", "alias"} => Len(def.refs) = 1
  /\ def.tag = "alias" => def.refs[1].type.tag = "alias"
  /\ def.tag \in PlainTypes \cup {"undefined"} => def.refs = <<>>
  /\ def.tag \notin {"array", "struct", "union"} =>
       \A i \in 1..Len(def.refs) : def.refs[i].mode = "plain"

ValidDef(def, n) ==
  /\ Shape(def)
  /\ \A i \in 1..Len(def.refs) : ValidType(def.refs[i].type, n)

DefsOK(ds) == \A d \in 1..Len(ds) : ValidDef(ds[d], Len(ds))
NamesOK(ds) == \A i, j \in 1..Len(ds) : ds[i].name = ds[j].name => i = j
BindingsOK(bs, n) ==
  /\ \A i \in 1..Len(bs) : bs[i].def \in 1..n
  /\ \A i, j \in 1..Len(bs) : bs[i].name = bs[j].name => i = j

(***************************************************************************)
(* An activation stands on one that waits for it: a member on the body of  *)
(* its def, whose last it is, a body or an array on one that wants a type. *)
(***************************************************************************)
Members == {"field", "arg", "ret"}
BodyOf(kind) == IF kind = "field" THEN {"struct", "union"} ELSE {"func"}

Stands(ds, st, i) ==
  /\ st[i].kind \in Awaits \cup Bodies
  /\ st[i].kind # "array" => st[i].def \in 1..Len(ds)
  /\ st[i].kind = "typedef" => i = 1
  /\ st[i].kind = "array" => i > 1
  /\ st[i].kind \in Bodies => ds[st[i].def].tag = st[i].kind
  /\ st[i].kind \in Bodies \cup {"array"} => i = 1 \/ st[i-1].kind \in Awaits
  /\ st[i].kind \in Members =>
       /\ i > 1 /\ st[i-1].kind \in BodyOf(st[i].kind) /\ st[i-1].def = st[i].def
       /\ st[i].slot \in 1..Len(ds[st[i].def].refs)
       /\ st[i].kind # "ret" => st[i].slot = Len(ds[st[i].def].refs)

StackOK(ds, st) ==
  /\ \A i \in 1..Len(st) : Stands(ds, st, i)
  /\ \A i, j \in 1..Len(st) :
       st[i].kind \in Bodies /\ st[j].kind \in Bodies /\ st[i].def = st[j].def => i = j

(***************************************************************************)
(* A reference has no type only while an activation waits for it.          *)
(***************************************************************************)
Held(st, d, i) ==
  \E k \in 1..Len(st) : st[k].kind \in {"field", "arg"} /\ st[k].def = d /\ st[k].slot = i

SlotsOK(ds, st) ==
  \A d \in 1..Len(ds) : \A i \in 1..Len(ds[d].refs) :
    ds[d].refs[i].type.tag = "undefined" => Held(st, d, i)

(***************************************************************************)
(* What is returned is a type, to someone who waits for one.               *)
(***************************************************************************)
ResultOK(res, n, st) ==
  res # None =>
    /\ st # <<>> /\ st[Len(st)].kind \in Awaits
    /\ res.tag # "undefined"
    /\ \/ res = Same /\ st[Len(st)].kind = "typedef"
       \/ ValidType(res, n)

Inv ==
  /\ Typed /\ (status = "parsed" => stack = <<>>)
  /\ DefsOK(defs) /\ NamesOK(defs) /\ BindingsOK(bindings, Len(defs))
  /\ StackOK(defs, stack) /\ SlotsOK(defs, stack)
  /\ ResultOK(result, Len(defs), stack)

-----------------------------------------------------------------------------
(***************************************************************************)
(* A change of the table: one def is replaced or added at the end.         *)
(***************************************************************************)
Put(ds, ds2, d, new) ==
  /\ d \in 1..(Len(ds) + 1)
  /\ ds2 \in Seq(DefRec) /\ Len(ds2) = IF d <= Len(ds) THEN Len(ds) ELSE Len(ds) + 1
  /\ ds2[d] = new
  /\ \A e \in 1..Len(ds) : e # d => ds2[e] = ds[e]

LEMMA PutAtEnd ==
  ASSUME NEW ds \in Seq(DefRec), NEW new \in DefRec
  PROVE  Put(ds, Append(ds, new), Len(ds) + 1, new)
  BY AppendProperties DEF Put

LEMMA PutInPlace ==
  ASSUME NEW ds \in Seq(DefRec), NEW d \in 1..Len(ds), NEW new \in DefRec
  PROVE  Put(ds, [ds EXCEPT ![d] = new], d, new)
<1> DEFINE ds2 == [ds EXCEPT ![d] = new]
<1>1. ds2 \in Seq(DefRec) /\ Len(ds2) = Len(ds)
  BY ExceptSeq
<1>2. ds2[d] = new /\ \A e \in 1..Len(ds) : e # d => ds2[e] = ds[e]
  BY LenProperties
<1> QED
  BY <1>1, <1>2 DEF Put

LEMMA PutDefs ==
  ASSUME NEW ds \in Seq(DefRec), NEW ds2, NEW d, NEW new, Put(ds, ds2, d, new),
         DefsOK(ds), ValidDef(new, Len(ds2))
  PROVE  DefsOK(ds2)
<1>1. Len(ds) \in Nat /\ Len(ds2) \in Nat /\ Len(ds) <= Len(ds2)
  BY DEF Put
<1>2. \A t : ValidType(t, Len(ds)) => ValidType(t, Len(ds2))
  BY <1>1 DEF ValidType
<1>3. ASSUME NEW e \in 1..Len(ds2) PROVE ValidDef(ds2[e], Len(ds2))
  <2>1. e = d \/ (e \in 1..Len(ds) /\ ds2[e] = ds[e])
    BY <1>1 DEF Put
  <2>2. CASE e = d
    BY <2>2 DEF Put
  <2>3. CASE e \in 1..Len(ds) /\ ds2[e] = ds[e]
    BY <1>2, <2>3 DEF DefsOK, ValidDef
  <2> QED
    BY <2>1, <2>2, <2>3
<1> QED
  BY <1>3 DEF DefsOK

(***************************************************************************)
(* A def keeps its name, and a new def has a new one.                      *)
(***************************************************************************)
KeepsName(ds, d, new) ==
  IF d <= Len(ds) THEN new.name = ds[d].name
                  ELSE \A i \in 1..Len(ds) : ds[i].name # new.name

LEMMA PutNames ==
  ASSUME NEW ds \in Seq(DefRec), NEW ds2, NEW d, NEW new, Put(ds, ds2, d, new),
         NamesOK(ds), KeepsName(ds, d, new)
  PROVE  /\ NamesOK(ds2)
         /\ \A e \in 1..Len(ds) : e <= Len(ds2) /\ ds2[e].name = ds[e].name
<1>1. Len(ds) \in Nat /\ Len(ds2) \in Nat /\ Len(ds) <= Len(ds2) /\ d \in Nat
  BY DEF Put
<1>2. \A e \in 1..Len(ds) : e <= Len(ds2) /\ ds2[e].name = ds[e].name
  BY <1>1 DEF Put, KeepsName
<1>3. \A e \in 1..Len(ds2) : e \in 1..Len(ds) \/ (e = Len(ds) + 1 /\ d = e)
  BY <1>1 DEF Put
<1>4. d = Len(ds) + 1 => \A i \in 1..Len(ds) : ds2[i].name # ds2[d].name
  BY <1>1, <1>2 DEF Put, KeepsName
<1> QED
  BY <1>1, <1>2, <1>3, <1>4 DEF NamesOK

(***************************************************************************)
(* A def that activations are about keeps what they know of it.            *)
(***************************************************************************)
Suits(st, d, new) ==
  \A i \in 1..Len(st) : st[i].def = d =>
    /\ st[i].kind \in Bodies => new.tag = st[i].kind
    /\ st[i].kind \in Members => st[i].slot \in 1..Len(new.refs)
    /\ st[i].kind \in Members \ {"ret"} => st[i].slot = Len(new.refs)

LEMMA PutStack ==
  ASSUME NEW ds \in Seq(DefRec), NEW st \in Seq(ActRec),
         NEW ds2, NEW d, NEW new, Put(ds, ds2, d, new),
         StackOK(ds, st), d <= Len(ds) => Suits(st, d, new)
  PROVE  StackOK(ds2, st)
<1>1. Len(ds) \in Nat /\ Len(ds2) \in Nat /\ Len(ds) <= Len(ds2) /\ d \in Nat
  BY DEF Put
<1>2. ASSUME NEW i \in 1..Len(st) PROVE Stands(ds2, st, i)
  <2>1. Stands(ds, st, i)
    BY DEF StackOK
  <2>2. CASE st[i].kind = "array"
    BY <2>1, <2>2 DEF Stands, Members, Bodies
  <2>3. CASE st[i].kind # "array"
    <3>1. st[i].def \in 1..Len(ds) /\ st[i].def \in 1..Len(ds2)
      BY <1>1, <2>1, <2>3 DEF Stands
    <3>2. CASE st[i].def = d
      <4>1. ds2[st[i].def] = new /\ Suits(st, d, new)
        BY <1>1, <3>1, <3>2 DEF Put
      <4> QED
        BY <2>1, <3>1, <3>2, <4>1 DEF Stands, Suits
    <3>3. CASE st[i].def # d
      <4>1. ds2[st[i].def] = ds[st[i].def]
        BY <3>1, <3>3 DEF Put
      <4> QED
        BY <2>1, <3>1, <4>1 DEF Stands
    <3> QED
      BY <3>2, <3>3
  <2> QED
    BY <2>2, <2>3
<1> QED
  BY <1>2 DEF StackOK

LEMMA PutSlots ==
  ASSUME NEW ds \in Seq(DefRec), NEW st, NEW ds2, NEW d, NEW new, Put(ds, ds2, d, new),
         SlotsOK(ds, st),
         \A i \in 1..Len(new.refs) : new.refs[i].type.tag = "undefined" => Held(st, d, i)
  PROVE  SlotsOK(ds2, st)
<1>1. Len(ds) \in Nat /\ d \in Nat
  BY DEF Put
<1>2. \A e \in 1..Len(ds2) : e = d \/ (e \in 1..Len(ds) /\ ds2[e] = ds[e])
  BY <1>1 DEF Put
<1> QED
  BY <1>2 DEF SlotsOK, Put

-----------------------------------------------------------------------------
(***************************************************************************)
(* A change of the stack: a call, or a return.                             *)
(***************************************************************************)
LEMMA PushStack ==
  ASSUME NEW ds, NEW st \in Seq(ActRec), NEW a \in ActRec, StackOK(ds, st),
         Stands(ds, Append(st, a), Len(st) + 1),
         a.kind \in Bodies =>
           \A i \in 1..Len(st) : st[i].kind \in Bodies => st[i].def # a.def
  PROVE  StackOK(ds, Append(st, a)) /\ Append(st, a) \in Seq(ActRec)
<1> DEFINE st2 == Append(st, a)
<1>1. /\ st2 \in Seq(ActRec) /\ Len(st) \in Nat /\ Len(st2) = Len(st) + 1
      /\ \A i \in 1..Len(st) : st2[i] = st[i]
      /\ st2[Len(st) + 1] = a
  BY AppendProperties
<1>2. Stands(ds, st2, Len(st) + 1)
  OBVIOUS
<1> HIDE DEF st2
<1>3. ASSUME NEW i \in 1..Len(st) PROVE Stands(ds, st2, i)
  <2>1. Stands(ds, st, i) /\ st2[i] = st[i] /\ (i > 1 => st2[i-1] = st[i-1])
    BY <1>1 DEF StackOK
  <2>2. i = 1 \/ i > 1
    BY <1>1
  <2> QED
    BY <2>1, <2>2 DEF Stands
<1>4. \A i \in 1..Len(st2) : i \in 1..Len(st) \/ i = Len(st) + 1
  BY <1>1
<1>5. \A i \in 1..Len(st2) : Stands(ds, st2, i)
  BY <1>2, <1>3, <1>4
<1>6. \A i, j \in 1..Len(st2) :
        st2[i].kind \in Bodies /\ st2[j].kind \in Bodies /\ st2[i].def = st2[j].def => i = j
  BY <1>1, <1>4 DEF StackOK
<1> QED
  BY <1>1, <1>5, <1>6 DEF StackOK, st2

LEMMA FrontFacts ==
  ASSUME NEW st \in Seq(ActRec), st # <<>>
  PROVE  /\ Front(st) \in Seq(ActRec) /\ Len(st) \in Nat \ {0}
         /\ Len(Front(st)) = Len(st) - 1
         /\ \A i \in 1..(Len(st) - 1) : Front(st)[i] = st[i] /\ i \in 1..Len(st)
<1> DEFINE n == Len(st) - 1
<1>1. Len(st) \in Nat \ {0} /\ n \in Nat
  BY EmptySeq
<1>2. \A i \in 1..n : i \in 1..Len(st) /\ st[i] \in ActRec
  BY <1>1, ElementOfSeq
<1>3. Front(st) = SubSeq(st, 1, n)
  BY DEF Front
<1> HIDE DEF n
<1>4. /\ SubSeq(st, 1, n) \in Seq(ActRec) /\ Len(SubSeq(st, 1, n)) = n
      /\ \A i \in 1..n : SubSeq(st, 1, n)[i] = st[i]
  BY <1>1, <1>2, SubSeqProperties
<1> QED
  BY <1>1, <1>2, <1>3, <1>4 DEF n

LEMMA PopStack ==
  ASSUME NEW ds, NEW st \in Seq(ActRec), st # <<>>, StackOK(ds, st)
  PROVE  StackOK(ds, Front(st))
<1> DEFINE st2 == Front(st)
<1>1. /\ Len(st) \in Nat \ {0} /\ Len(st2) = Len(st) - 1
      /\ \A i \in 1..Len(st2) : st2[i] = st[i] /\ i \in 1..Len(st)
  BY FrontFacts
<1> HIDE DEF st2
<1>2. ASSUME NEW i \in 1..Len(st2) PROVE Stands(ds, st2, i)
  <2>1. Stands(ds, st, i) /\ st2[i] = st[i] /\ (i > 1 => st2[i-1] = st[i-1])
    BY <1>1 DEF StackOK
  <2>2. i = 1 \/ i > 1
    BY <1>1
  <2> QED
    BY <2>1, <2>2 DEF Stands
<1>3. \A i, j \in 1..Len(st2) :
        st2[i].kind \in Bodies /\ st2[j].kind \in Bodies /\ st2[i].def = st2[j].def => i = j
  BY <1>1 DEF StackOK
<1> QED
  BY <1>2, <1>3 DEF StackOK, st2

LEMMA PushSlots ==
  ASSUME NEW ds, NEW st \in Seq(ActRec), NEW a \in ActRec, SlotsOK(ds, st)
  PROVE  SlotsOK(ds, Append(st, a))
<1>1. /\ Len(st) \in Nat /\ Len(Append(st, a)) = Len(st) + 1
      /\ \A i \in 1..Len(st) : Append(st, a)[i] = st[i] /\ i \in 1..Len(Append(st, a))
  BY AppendProperties
<1>2. \A d, i : Held(st, d, i) => Held(Append(st, a), d, i)
  BY <1>1 DEF Held
<1> QED
  BY <1>2 DEF SlotsOK

LEMMA PopSlots ==
  ASSUME NEW ds, NEW st \in Seq(ActRec), st # <<>>, SlotsOK(ds, st),
         \/ st[Len(st)].kind \notin {"field", "arg"}
         \/ ds[st[Len(st)].def].refs[st[Len(st)].slot].type.tag # "undefined"
  PROVE  SlotsOK(ds, Front(st))
<1>1. /\ Len(st) \in Nat \ {0} /\ Len(Front(st)) = Len(st) - 1
      /\ \A i \in 1..(Len(st) - 1) : Front(st)[i] = st[i]
  BY FrontFacts
<1>2. \A k \in 1..Len(st) : k = Len(st) \/ (k \in 1..Len(Front(st)) /\ Front(st)[k] = st[k])
  BY <1>1
<1>3. ASSUME NEW d \in 1..Len(ds), NEW i \in 1..Len(ds[d].refs),
             ds[d].refs[i].type.tag = "undefined"
      PROVE  Held(Front(st), d, i)
  <2>1. Held(st, d, i)
    BY <1>3 DEF SlotsOK
  <2> QED
    BY <1>2, <1>3, <2>1 DEF Held
<1> QED
  BY <1>3 DEF SlotsOK

-----------------------------------------------------------------------------
(***************************************************************************)
(* More defs make nothing invalid.                                         *)
(***************************************************************************)
LEMMA MoreDefs ==
  ASSUME NEW n \in Nat, NEW m \in Nat, n <= m
  PROVE  /\ \A t : ValidType(t, n) => ValidType(t, m)
         /\ \A bs : BindingsOK(bs, n) => BindingsOK(bs, m)
         /\ \A res, st : ResultOK(res, n, st) => ResultOK(res, m, st)
<1>1. \A t : ValidType(t, n) => ValidType(t, m)
  BY DEF ValidType
<1>2. \A bs : BindingsOK(bs, n) => BindingsOK(bs, m)
  BY DEF BindingsOK
<1> QED
  BY <1>1, <1>2 DEF ResultOK

(***************************************************************************)
(* What a step may do to the defs that there are.                          *)
(***************************************************************************)
Stays ==
  \A d \in Pointer :
    /\ d <= Len(defs') /\ defs'[d].name = defs[d].name
    /\ \/ defs'[d] = defs[d]
       \/ defs[d].tag = "undefined"
       \/ \E i \in 1..Len(stack) : stack[i].def = d

Touchable(d) ==
  \/ d = Len(defs) + 1
  \/ defs[d].tag = "undefined"
  \/ \E i \in 1..Len(stack) : stack[i].def = d

(***************************************************************************)
(* A step that puts a def in the table leaves the table in order, with     *)
(* respect to the stack as it was.                                         *)
(***************************************************************************)
LEMMA PutIsHarmless ==
  ASSUME Inv, NEW d, NEW new, Put(defs, defs', d, new), Touchable(d),
         KeepsName(defs, d, new), ValidDef(new, Len(defs')),
         d <= Len(defs) => Suits(stack, d, new)
  PROVE  /\ defs' \in Seq(DefRec) /\ Len(defs) \in Nat /\ Len(defs') \in Nat
         /\ Len(defs) <= Len(defs')
         /\ DefsOK(defs') /\ NamesOK(defs') /\ BindingsOK(bindings, Len(defs'))
         /\ StackOK(defs', stack)
         /\ ResultOK(result, Len(defs'), stack)
         /\ Stays
<1>1. defs \in Seq(DefRec) /\ stack \in Seq(ActRec)
  BY DEF Inv, Typed
<1>2. /\ defs' \in Seq(DefRec) /\ Len(defs) \in Nat /\ Len(defs') \in Nat
      /\ Len(defs) <= Len(defs') /\ d \in Nat
  BY <1>1 DEF Put
<1>3. DefsOK(defs')
  BY <1>1, PutDefs DEF Inv
<1>4. NamesOK(defs') /\ \A e \in 1..Len(defs) : e <= Len(defs') /\ defs'[e].name = defs[e].name
  BY <1>1, PutNames DEF Inv
<1>5. StackOK(defs', stack)
  BY <1>1, PutStack DEF Inv
<1>6. BindingsOK(bindings, Len(defs')) /\ ResultOK(result, Len(defs'), stack)
  BY <1>2, MoreDefs DEF Inv
<1>7. Stays
  <2>1. ASSUME NEW e \in Pointer, e # d PROVE defs'[e] = defs[e]
    BY <2>1 DEF Put, Pointer
  <2> QED
    BY <1>2, <1>4, <2>1 DEF Stays, Touchable, Pointer
<1> QED
  BY <1>2, <1>3, <1>4, <1>5, <1>6, <1>7

LEMMA NothingPut ==
  ASSUME Inv, defs' = defs
  PROVE  /\ defs' \in Seq(DefRec) /\ Len(defs) \in Nat /\ Len(defs') \in Nat
         /\ Len(defs) <= Len(defs')
         /\ DefsOK(defs') /\ NamesOK(defs') /\ BindingsOK(bindings, Len(defs'))
         /\ StackOK(defs', stack)
         /\ ResultOK(result, Len(defs'), stack)
         /\ Stays
<1>1. defs' \in Seq(DefRec) /\ Len(defs) \in Nat
  BY DEF Inv, Typed
<1> QED
  BY <1>1 DEF Inv, Stays, Pointer

(***************************************************************************)
(* A name that is mentioned has a def afterwards.                          *)
(***************************************************************************)
LEMMA GetOrAdd ==
  ASSUME Inv, NEW name \in Text, GetOrAddDef(name)
  PROVE  /\ defs' \in Seq(DefRec) /\ Len(defs) \in Nat /\ Len(defs') \in Nat
         /\ Len(defs) <= Len(defs')
         /\ GetDef(name) \in 1..Len(defs')
         /\ DefsOK(defs') /\ NamesOK(defs') /\ BindingsOK(bindings, Len(defs'))
         /\ StackOK(defs', stack) /\ SlotsOK(defs', stack)
         /\ ResultOK(result, Len(defs'), stack)
         /\ Stays
<1>1. defs \in Seq(DefRec) /\ Len(defs) \in Nat
  BY DEF Inv, Typed
<1>2. CASE Find(name) # 0
  <2>1. defs' = defs /\ GetDef(name) \in 1..Len(defs')
    BY <1>1, <1>2, FindFacts DEF GetOrAddDef, GetDef, Pointer
  <2> QED
    BY <2>1, NothingPut DEF Inv
<1>3. CASE Find(name) = 0
  <2> DEFINE new == NewDef(name)
             d == Len(defs) + 1
  <2>1. defs' = Append(defs, new) /\ GetDef(name) = d
    BY <1>3 DEF GetOrAddDef, GetDef
  <2>2. /\ new \in DefRec /\ new.name = name /\ new.tag = "undefined"
        /\ new.members = <<>> /\ new.refs = <<>>
    BY DEF NewDef, Def, DefRec, Words
  <2>3. ValidDef(new, Len(defs'))
    BY <2>2 DEF ValidDef, Shape, Bodies
  <2>4. KeepsName(defs, d, new)
    BY <1>1, <1>3, <2>2, FindFacts DEF KeepsName, Pointer
  <2>5. Put(defs, defs', d, new) /\ ~(d <= Len(defs))
    BY <1>1, <2>1, <2>2, PutAtEnd
  <2> HIDE DEF new
  <2>6. SlotsOK(defs', stack)
    <3>1. \A i \in 1..Len(new.refs) : new.refs[i].type.tag = "undefined" => Held(stack, d, i)
      BY <2>2
    <3> QED
      BY <1>1, <2>5, <3>1, PutSlots DEF Inv
  <2>7. Touchable(d)
    BY DEF Touchable
  <2>8. d \in 1..Len(defs')
    BY <1>1, <2>5 DEF Put
  <2> HIDE DEF d
  <2> QED
    BY <1>1, <2>1, <2>3, <2>4, <2>5, <2>6, <2>7, <2>8, PutIsHarmless
<1> QED
  BY <1>2, <1>3

(***************************************************************************)
(* What a file writes is text.                                             *)
(***************************************************************************)
LEMMA FileTexts ==
  /\ \A n \in Names \cup FieldNames \cup Packages \cup Externs : n \in Text
  /\ \A t \in PlainTypes : t \in Words /\ t \notin Bodies
                           /\ t \notin {"none", "same", "undefined", "extern", "alias", "array"}
  /\ \A m \in RefModes : m \in Words
  /\ \A w \in DefWords : w \in Bodies
  /\ \A s, t \in Text : s \o t \in Text
<1>1. \A n \in Seq(STRING) : n \in Text
  BY DEF Text, Words
<1>2. /\ \A t \in PlainTypes : t \in Words /\ t \notin Bodies
                           /\ t \notin {"none", "same", "undefined", "extern", "alias", "array"}
      /\ \A m \in RefModes : m \in Words
      /\ \A w \in DefWords : w \in Bodies
  BY NamesAssumption DEF Words, Bodies
<1>3. \A s, t \in Text : s \o t \in Text
  BY DEF Text
<1> QED
  BY <1>1, <1>2, <1>3, NamesAssumption

(***************************************************************************)
(* A body is entered by a statement, or where a type is awaited.  The def  *)
(* has no type yet, so no activation is about its body or its members.     *)
(***************************************************************************)
LEMMA Enter ==
  ASSUME Inv, NEW word \in Bodies, NEW name \in Text, NEW depth \in Nat,
         EnterBody(word, name, depth),
         stack = <<>> \/ Top.kind \in Awaits
  PROVE  /\ defs' \in Seq(DefRec) /\ Len(defs) <= Len(defs')
         /\ Len(defs) \in Nat /\ Len(defs') \in Nat
         /\ stack' \in Seq(ActRec) /\ stack' # <<>>
         /\ DefsOK(defs') /\ NamesOK(defs') /\ BindingsOK(bindings, Len(defs'))
         /\ StackOK(defs', stack') /\ SlotsOK(defs', stack')
         /\ Stays
<1> DEFINE new == IF word = "func"
                  THEN Def(name, word, << <<>> >>, <<Ref("plain", Plain("err"))>>)
                  ELSE Def(name, word, <<>>, <<>>)
           d == GetDef(name)
           a == Activation(word, d, name, depth, "plain", 0)
<1>1. /\ defs \in Seq(DefRec) /\ Len(defs) \in Nat
      /\ stack \in Seq(ActRec) /\ Len(stack) \in Nat
  BY DEF Inv, Typed
<1>2. /\ new \in DefRec /\ new.name = name /\ new.tag = word
      /\ new.members = IF word = "func" THEN << <<>> >> ELSE <<>>
      /\ new.refs = IF word = "func" THEN <<Ref("plain", Plain("err"))>> ELSE <<>>
  <2>1. Ref("plain", Plain("err")) \in RefRec
    BY DEF Ref, Plain, RefRec, TypeValues, Words
  <2>2. <<>> \in Text /\ word \in Words
    BY DEF Text, Bodies, Words
  <2> QED
    BY <2>1, <2>2 DEF Def, DefRec
<1>3. stack' = Append(stack, a)
  BY DEF EnterBody
<1>4. Put(defs, defs', d, new) /\ KeepsName(defs, d, new)
      /\ (d <= Len(defs) => defs[d].tag = "undefined")
  <2>1. CASE Find(name) = 0
    <3>1. d = Len(defs) + 1 /\ defs' = Append(defs, new)
      BY <2>1 DEF GetDef, EnterBody
    <3>2. \A i \in 1..Len(defs) : defs[i].name # name
      BY <1>1, <2>1, FindFacts DEF Pointer
    <3> HIDE DEF d, new
    <3>3. Put(defs, defs', d, new)
      BY <1>1, <1>2, <3>1, PutAtEnd
    <3>4. ~(d <= Len(defs))
      BY <1>1, <3>1
    <3> QED
      BY <1>2, <3>2, <3>3, <3>4 DEF KeepsName
  <2>2. CASE Find(name) # 0
    <3>1. d = Find(name) /\ defs' = [defs EXCEPT ![d] = new] /\ defs[d].tag = "undefined"
      BY <2>2 DEF GetDef, EnterBody, CanDefine
    <3>2. d \in 1..Len(defs) /\ defs[d].name = name
      BY <1>1, <2>2, <3>1, FindFacts DEF Pointer
    <3> HIDE DEF d, new
    <3>3. Put(defs, defs', d, new)
      BY <1>1, <1>2, <3>1, <3>2, PutInPlace
    <3> QED
      BY <1>2, <3>1, <3>2, <3>3 DEF KeepsName
  <2> QED
    BY <2>1, <2>2
<1>5. d \in 1..Len(defs') /\ d \in Nat /\ (d <= Len(defs) \/ d = Len(defs) + 1)
  BY <1>1, <1>4 DEF Put
<1> HIDE DEF d, new
<1>6. ValidDef(new, Len(defs'))
  <2>1. Shape(new)
    BY <1>2, NamesAssumption DEF Shape, Bodies, Ref, Plain
  <2>2. \A i \in 1..Len(new.refs) : new.refs[i].type.tag = "err"
    BY <1>2 DEF Ref, Plain
  <2> QED
    BY <2>1, <2>2 DEF ValidDef, ValidType
<1>7. \A i \in 1..Len(stack) : stack[i].kind \in Bodies => stack[i].def # d
  <2>1. SUFFICES ASSUME NEW i \in 1..Len(stack), stack[i].kind \in Bodies, stack[i].def = d
                 PROVE  FALSE
    OBVIOUS
  <2>2. Stands(defs, stack, i)
    BY DEF Inv, StackOK
  <2>3. d \in 1..Len(defs) /\ defs[d].tag \in Bodies
    BY <2>1, <2>2 DEF Stands, Bodies
  <2> QED
    BY <1>1, <1>4, <2>3 DEF Bodies
<1>8. Suits(stack, d, new)
  <2>1. SUFFICES ASSUME NEW i \in 1..Len(stack), stack[i].def = d, stack[i].kind \in Members
                 PROVE  FALSE
    BY <1>7 DEF Suits
  <2>2. Stands(defs, stack, i)
    BY DEF Inv, StackOK
  <2>3. i - 1 \in 1..Len(stack) /\ stack[i-1].kind \in Bodies /\ stack[i-1].def = d
    BY <1>1, <2>1, <2>2 DEF Stands, BodyOf, Bodies
  <2> QED
    BY <1>7, <2>3
<1>9. Touchable(d)
  BY <1>4, <1>5 DEF Touchable
<1>10. /\ defs' \in Seq(DefRec) /\ Len(defs) <= Len(defs') /\ Len(defs') \in Nat
       /\ DefsOK(defs') /\ NamesOK(defs') /\ BindingsOK(bindings, Len(defs'))
       /\ StackOK(defs', stack) /\ Stays
  BY <1>4, <1>6, <1>8, <1>9, PutIsHarmless
<1>11. a \in ActRec /\ a.kind = word /\ a.def = d
  BY <1>5 DEF Activation, ActRec, Bodies, Words
<1> HIDE DEF a
<1>12. Stands(defs', Append(stack, a), Len(stack) + 1)
  <2>1. /\ Append(stack, a)[Len(stack) + 1] = a
        /\ \A i \in 1..Len(stack) : Append(stack, a)[i] = stack[i]
    BY <1>1, <1>11, AppendProperties
  <2>2. defs'[d].tag = word
    BY <1>2, <1>4 DEF Put
  <2>3. Len(stack) + 1 = 1 \/ Append(stack, a)[Len(stack) + 1 - 1].kind \in Awaits
    <3>1. CASE stack = <<>>
      BY <3>1
    <3>2. CASE stack # <<>> /\ Top.kind \in Awaits
      <4>1. Len(stack) \in 1..Len(stack)
        BY <1>1, <3>2, EmptySeq
      <4> QED
        BY <1>1, <2>1, <3>2, <4>1 DEF Top
    <3> QED
      BY <3>1, <3>2
  <2>4. word \notin Members /\ word # "array" /\ word # "typedef"
    BY DEF Bodies, Members
  <2> QED
    BY <1>5, <1>11, <2>1, <2>2, <2>3, <2>4 DEF Stands
<1>13. StackOK(defs', Append(stack, a)) /\ Append(stack, a) \in Seq(ActRec)
  BY <1>1, <1>7, <1>10, <1>11, <1>12, PushStack
<1>14. SlotsOK(defs', Append(stack, a))
  <2>1. SlotsOK(defs', stack)
    <3>1. \A i \in 1..Len(new.refs) : new.refs[i].type.tag = "undefined" => Held(stack, d, i)
      BY <1>2 DEF Ref, Plain
    <3> QED
      BY <1>1, <1>4, <3>1, PutSlots DEF Inv
  <2> QED
    BY <1>1, <1>11, <2>1, PushSlots
<1>15. stack' # <<>>
  BY <1>1, <1>3, <1>11
<1> QED
  BY <1>1, <1>3, <1>10, <1>13, <1>14, <1>15

-----------------------------------------------------------------------------
(***************************************************************************)
(* Every action keeps the invariant and the finished defs.                 *)
(***************************************************************************)
Keeps == Inv' /\ Stays

LEMMA Types ==
  ASSUME Inv
  PROVE  /\ defs \in Seq(DefRec) /\ Len(defs) \in Nat
         /\ bindings \in Seq([name : Text, def : Nat]) /\ Len(bindings) \in Nat
         /\ package \in Text
         /\ stack \in Seq(ActRec) /\ Len(stack) \in Nat
         /\ result \in TypeValues
         /\ status \in {"run", "parsed", "failed", "looping"}
  BY DEF Inv, Typed

LEMMA ReadingCounts ==
  ASSUME Inv, Reading
  PROVE  items' \in 0..MaxItems
  BY NamesAssumption DEF Inv, Typed, Reading

(***************************************************************************)
(* The activation on top of the stack, and the stack without it.           *)
(***************************************************************************)
LEMMA TopFacts ==
  ASSUME Inv, stack # <<>>
  PROVE  /\ Len(stack) \in Nat \ {0} /\ Len(stack) \in 1..Len(stack)
         /\ Top \in ActRec /\ Stands(defs, stack, Len(stack))
         /\ Popped \in Seq(ActRec) /\ Len(Popped) = Len(stack) - 1
         /\ \A i \in 1..(Len(stack) - 1) : Popped[i] = stack[i]
<1>1. stack \in Seq(ActRec)
  BY Types
<1>2. /\ Popped \in Seq(ActRec) /\ Len(stack) \in Nat \ {0}
      /\ Len(Popped) = Len(stack) - 1
      /\ \A i \in 1..(Len(stack) - 1) : Popped[i] = stack[i]
  BY <1>1, FrontFacts DEF Popped
<1>3. Len(stack) \in 1..Len(stack)
  BY <1>2
<1>4. Top \in ActRec
  BY <1>1, <1>3, ElementOfSeq DEF Top
<1> QED
  BY <1>2, <1>3, <1>4 DEF Inv, StackOK

LEMMA TypedefKeeps ==
  ASSUME Inv, NEW n \in Names, Typedef(n)
  PROVE  Keeps
<1> DEFINE name == Packaged(n)
           a == Activation("typedef", GetDef(name), name, 0, "plain", 0)
<1>1. name \in Text
  BY Types, FileTexts DEF Packaged
<1>2. /\ GetOrAddDef(name) /\ stack = <<>> /\ stack' = <<a>> /\ status = "run" /\ result = None
      /\ bindings' = bindings /\ package' = package /\ result' = result /\ status' = status
  BY DEF Typedef, AtStatement, Reading
<1> HIDE DEF name
<1>3. /\ defs' \in Seq(DefRec) /\ Len(defs') \in Nat
      /\ GetDef(name) \in 1..Len(defs')
      /\ DefsOK(defs') /\ NamesOK(defs') /\ BindingsOK(bindings, Len(defs'))
      /\ SlotsOK(defs', stack) /\ Stays
  BY <1>1, <1>2, GetOrAdd
<1>4. a \in ActRec /\ a.kind = "typedef" /\ a.def = GetDef(name)
  BY <1>1, <1>3 DEF Activation, ActRec, Words
<1> HIDE DEF a
<1>5. StackOK(defs', <<a>>)
  BY <1>3, <1>4 DEF StackOK, Stands, Awaits, Bodies, Members
<1>6. SlotsOK(defs', <<a>>)
  BY <1>2, <1>3, SMTT(30) DEF SlotsOK, Held
<1>7. Typed'
  BY <1>2, <1>3, <1>4, Types, ReadingCounts DEF Typed, Typedef, AtStatement
<1> QED
  BY <1>2, <1>3, <1>5, <1>6, <1>7 DEF Keeps, Inv, ResultOK

LEMMA NamedDefKeeps ==
  ASSUME Inv, NEW word \in DefWords, NEW n \in Names, NamedDef(word, n)
  PROVE  Keeps
<1>1. Packaged(n) \in Text /\ word \in Bodies
  BY Types, FileTexts DEF Packaged
<1>2. /\ EnterBody(word, Packaged(n), 0) /\ stack = <<>> /\ status = "run" /\ result = None
      /\ bindings' = bindings /\ package' = package /\ result' = result /\ status' = status
  BY DEF NamedDef, AtStatement, Reading
<1>3. /\ defs' \in Seq(DefRec) /\ stack' \in Seq(ActRec)
      /\ DefsOK(defs') /\ NamesOK(defs') /\ BindingsOK(bindings, Len(defs'))
      /\ StackOK(defs', stack') /\ SlotsOK(defs', stack') /\ Stays
  BY <1>1, <1>2, Enter
<1>4. Typed'
  BY <1>2, <1>3, Types, ReadingCounts DEF Typed, NamedDef, AtStatement
<1> QED
  BY <1>2, <1>3, <1>4 DEF Keeps, Inv, ResultOK

LEMMA PackageKeeps ==
  ASSUME Inv, NEW p \in Packages, Package(p)
  PROVE  Keeps
<1>1. /\ defs' = defs /\ bindings' = bindings /\ stack' = stack /\ result' = result
      /\ status' = status /\ status = "run" /\ stack = <<>>
      /\ package' = IF p = <<"", "">> THEN <<>> ELSE p
  BY DEF Package, AtStatement, Reading
<1>2. package' \in Text
  <2>1. p \in Text /\ <<>> \in Text
    BY FileTexts DEF Text
  <2> QED
    BY <1>1, <2>1
<1>3. Typed'
  BY <1>1, <1>2, Types, ReadingCounts DEF Typed, Package, AtStatement
<1> QED
  BY <1>1, <1>3, NothingPut DEF Keeps, Inv

LEMMA FromKeeps ==
  ASSUME Inv, NEW p \in Packages, NEW n \in Names, From(p, n)
  PROVE  Keeps
<1> DEFINE b == [name |-> n, def |-> GetDef(p \o n)]
<1>1. p \o n \in Text /\ n \in Text
  BY FileTexts
<1>2. /\ GetOrAddDef(p \o n) /\ stack' = stack /\ stack = <<>> /\ status = "run" /\ result = None
      /\ package' = package /\ result' = result /\ status' = status
      /\ bindings' = Append(bindings, b)
      /\ \A i \in 1..Len(bindings) : bindings[i].name # n
  BY DEF From, AtStatement, Reading
<1>3. /\ defs' \in Seq(DefRec) /\ Len(defs') \in Nat
      /\ GetDef(p \o n) \in 1..Len(defs')
      /\ DefsOK(defs') /\ NamesOK(defs') /\ BindingsOK(bindings, Len(defs'))
      /\ StackOK(defs', stack) /\ SlotsOK(defs', stack) /\ Stays
  BY <1>1, <1>2, GetOrAdd
<1>4. b \in [name : Text, def : Nat] /\ b.name = n /\ b.def \in 1..Len(defs')
  BY <1>1, <1>3
<1> HIDE DEF b
<1>5. /\ bindings' \in Seq([name : Text, def : Nat]) /\ Len(bindings') = Len(bindings) + 1
      /\ \A i \in 1..Len(bindings) : bindings'[i] = bindings[i]
      /\ bindings'[Len(bindings) + 1] = b
  BY <1>2, <1>4, Types, AppendProperties
<1>6. \A i \in 1..Len(bindings') : i \in 1..Len(bindings) \/ i = Len(bindings) + 1
  BY <1>5, Types
<1>7. BindingsOK(bindings', Len(defs'))
  BY <1>2, <1>3, <1>4, <1>5, <1>6 DEF BindingsOK
<1>8. Typed'
  BY <1>2, <1>3, <1>5, Types, ReadingCounts DEF Typed, From, AtStatement
<1> QED
  BY <1>2, <1>3, <1>7, <1>8 DEF Keeps, Inv, ResultOK

LEMMA EndOfFileKeeps ==
  ASSUME Inv, EndOfFile
  PROVE  Keeps
<1>1. /\ defs' = defs /\ bindings' = bindings /\ package' = package /\ stack' = stack
      /\ result' = result /\ items' = items /\ status' = "parsed" /\ stack = <<>>
  BY DEF EndOfFile
<1> QED
  BY <1>1, NothingPut DEF Keeps, Inv, Typed

(***************************************************************************)
(* A type that is returned at once.                                        *)
(***************************************************************************)
LEMMA BoundFacts ==
  ASSUME Inv, NEW n, BoundTo(n) # 0
  PROVE  BoundTo(n) \in 1..Len(bindings)
<1> DEFINE Bound == {i \in 1..Len(bindings) : bindings[i].name = n}
<1>1. BoundTo(n) = IF Bound # {} THEN Min(Bound) ELSE 0
  BY DEF BoundTo, SelectInSeq
<1>2. Bound # {}
  BY <1>1
<1>3. Bound \in SUBSET Nat /\ Bound \subseteq 1..Len(bindings)
  BY Types
<1> HIDE DEF Bound
<1>4. \E m \in Bound : \A k \in Bound : m <= k
  BY <1>2, <1>3, LeastExists
<1> QED
  BY <1>1, <1>2, <1>3, <1>4 DEF Min

LEMMA AliasIsType ==
  ASSUME NEW n \in Nat, NEW d \in 1..n
  PROVE  /\ Alias(d) \in TypeValues /\ Alias(d).tag # "undefined" /\ ValidType(Alias(d), n)
         /\ Alias(d) # Same
  BY DEF Alias, TypeValues, Words, ValidType, Same

LEMMA MentionKeeps ==
  ASSUME Inv, NEW n \in Names, Mention(n) \/ MentionFull(n)
  PROVE  Keeps
<1>1. /\ stack' = stack /\ status = "run" /\ stack # <<>> /\ Top.kind \in Awaits
      /\ bindings' = bindings /\ package' = package /\ status' = status
  BY DEF Mention, MentionFull, AtType, Reading
<1>2. PICK name \in Text, d \in Nat :
        /\ result' = Alias(d)
        /\ \/ GetOrAddDef(name) /\ d = GetDef(name)
           \/ defs' = defs /\ d \in 1..Len(defs)
  <2>1. Packaged(n) \in Text /\ n \in Text
    BY Types, FileTexts DEF Packaged
  <2>2. CASE Mention(n) /\ BoundTo(n) # 0
    <3>1. bindings[BoundTo(n)].def \in 1..Len(defs)
      BY <2>2, BoundFacts DEF Inv, BindingsOK
    <3> QED
      BY <2>1, <2>2, <3>1, Types DEF Mention
  <2>3. CASE ~(Mention(n) /\ BoundTo(n) # 0)
    <3>1. PICK name \in Text : GetOrAddDef(name) /\ result' = Alias(GetDef(name))
      BY <2>1, <2>3 DEF Mention, MentionFull
    <3>2. GetDef(name) \in Nat
      BY <3>1, GetOrAdd
    <3> QED
      BY <3>1, <3>2
  <2> QED
    BY <2>2, <2>3
<1>3. /\ defs' \in Seq(DefRec) /\ Len(defs') \in Nat
      /\ DefsOK(defs') /\ NamesOK(defs') /\ BindingsOK(bindings, Len(defs'))
      /\ StackOK(defs', stack) /\ SlotsOK(defs', stack) /\ Stays
      /\ d \in 1..Len(defs')
  <2>1. CASE GetOrAddDef(name) /\ d = GetDef(name)
    BY <2>1, GetOrAdd
  <2>2. CASE defs' = defs /\ d \in 1..Len(defs)
    BY <2>2, NothingPut DEF Inv
  <2> QED
    BY <1>2, <2>1, <2>2
<1>4. result' \in TypeValues /\ ResultOK(result', Len(defs'), stack)
  BY <1>1, <1>2, <1>3, AliasIsType DEF ResultOK, Top
<1>5. Typed'
  BY <1>1, <1>3, <1>4, Types, ReadingCounts DEF Typed, Mention, MentionFull, AtType
<1> QED
  BY <1>1, <1>3, <1>4, <1>5 DEF Keeps, Inv

LEMMA PlainTypeKeeps ==
  ASSUME Inv, NEW type, PlainType(type),
         \/ \E t \in PlainTypes : type = Plain(t)
         \/ \E x \in Externs : type = Extern(x)
  PROVE  Keeps
<1>1. /\ defs' = defs /\ stack' = stack /\ status = "run" /\ stack # <<>> /\ Top.kind \in Awaits
      /\ bindings' = bindings /\ package' = package /\ status' = status /\ result' = type
  BY DEF PlainType, AtType, Reading
<1>2. type \in TypeValues /\ type.tag # "undefined" /\ ValidType(type, Len(defs))
  <2>1. CASE \E t \in PlainTypes : type = Plain(t)
    BY <2>1, FileTexts DEF Plain, TypeValues, ValidType
  <2>2. CASE \E x \in Externs : type = Extern(x)
    BY <2>2, FileTexts DEF Extern, TypeValues, ValidType, Words
  <2> QED
    BY <2>1, <2>2
<1>3. ResultOK(result', Len(defs'), stack)
  BY <1>1, <1>2 DEF ResultOK, Top
<1>4. Typed'
  BY <1>1, <1>2, Types, ReadingCounts DEF Typed, PlainType, AtType
<1> QED
  BY <1>1, <1>3, <1>4, NothingPut DEF Keeps, Inv

(***************************************************************************)
(* A type that has to be read first.                                       *)
(***************************************************************************)
LEMMA ArrayTypeKeeps ==
  ASSUME Inv, NEW mode \in RefModes, ArrayType(mode)
  PROVE  Keeps
<1> DEFINE name == IF Top.depth = 0 THEN Top.name \o <<"elem">> ELSE Top.name
           a == Activation("array", 0, name, Top.depth + 1, mode, 0)
<1>1. /\ defs' = defs /\ status = "run" /\ result = None /\ stack # <<>> /\ Top.kind \in Awaits
      /\ stack' = Append(stack, a)
      /\ bindings' = bindings /\ package' = package /\ status' = status /\ result' = result
  BY DEF ArrayType, AtType, Reading
<1>2. Top.name \in Text /\ Top.depth \in Nat
  BY <1>1, TopFacts DEF ActRec
<1>3. name \in Text
  <2>1. Top.name \o <<"elem">> \in Text
    BY <1>2 DEF Text, Words
  <2> QED
    BY <1>2, <2>1
<1> HIDE DEF name
<1>4. a \in ActRec /\ a.kind = "array"
  BY <1>2, <1>3, FileTexts DEF Activation, ActRec, Words
<1> HIDE DEF a
<1>5. Stands(defs, Append(stack, a), Len(stack) + 1)
  <2>1. /\ Append(stack, a)[Len(stack) + 1] = a
        /\ Append(stack, a)[Len(stack)] = stack[Len(stack)]
    BY <1>1, <1>4, Types, TopFacts, AppendProperties
  <2> QED
    BY <1>1, <1>4, <2>1, TopFacts DEF Stands, Top, Awaits, Bodies, Members
<1>6. StackOK(defs, Append(stack, a)) /\ Append(stack, a) \in Seq(ActRec)
  BY <1>4, <1>5, Types, PushStack DEF Inv, Bodies
<1>7. SlotsOK(defs, Append(stack, a))
  BY <1>4, Types, PushSlots DEF Inv
<1>8. Typed'
  BY <1>1, <1>6, Types, ReadingCounts DEF Typed, ArrayType, AtType
<1> QED
  BY <1>1, <1>6, <1>7, <1>8, NothingPut DEF Keeps, Inv, ResultOK

LEMMA NestedDefKeeps ==
  ASSUME Inv, NEW word \in DefWords, NEW name, NestedDef(word, name),
         name = Top.name \/ \E n \in Names : name = Packaged(n)
  PROVE  Keeps
<1>1. /\ stack # <<>> /\ Top.kind \in Awaits /\ EnterBody(word, name, Top.depth)
      /\ status = "run" /\ result = None
      /\ bindings' = bindings /\ package' = package /\ result' = result /\ status' = status
  BY DEF NestedDef, AtType, Reading
<1>2. name \in Text /\ word \in Bodies /\ Top.depth \in Nat
  <2>1. Top.name \in Text /\ Top.depth \in Nat
    BY <1>1, TopFacts DEF ActRec
  <2>2. \A n \in Names : Packaged(n) \in Text
    BY Types, FileTexts DEF Packaged
  <2> QED
    BY <2>1, <2>2, FileTexts
<1>3. /\ defs' \in Seq(DefRec) /\ stack' \in Seq(ActRec)
      /\ DefsOK(defs') /\ NamesOK(defs') /\ BindingsOK(bindings, Len(defs'))
      /\ StackOK(defs', stack') /\ SlotsOK(defs', stack') /\ Stays
  BY <1>1, <1>2, Enter
<1>4. Typed'
  BY <1>1, <1>3, Types, ReadingCounts DEF Typed, NestedDef, AtType
<1> QED
  BY <1>1, <1>3, <1>4 DEF Keeps, Inv, ResultOK

(***************************************************************************)
(* A member is pushed, and its type awaited.  No activation is about a     *)
(* member of the body on top: it would stand on that body.                 *)
(***************************************************************************)
LEMMA NoMemberYet ==
  ASSUME Inv, stack # <<>>, Top.kind \in Bodies
  PROVE  \A i \in 1..Len(stack) : stack[i].def = Top.def =>
           /\ stack[i].kind \in Bodies => i = Len(stack)
           /\ stack[i].kind \notin Members
<1>1. SUFFICES ASSUME NEW i \in 1..Len(stack), stack[i].def = Top.def
               PROVE  /\ stack[i].kind \in Bodies => i = Len(stack)
                      /\ stack[i].kind \notin Members
  OBVIOUS
<1>2. \A j \in 1..Len(stack) : stack[j].kind \in Bodies /\ stack[j].def = Top.def => j = Len(stack)
  BY TopFacts DEF Inv, StackOK, Top
<1>3. CASE stack[i].kind \in Members
  <2>1. i - 1 \in 1..Len(stack) /\ stack[i-1].kind \in Bodies /\ stack[i-1].def = Top.def
    BY <1>1, <1>3, TopFacts DEF Inv, StackOK, Stands, BodyOf, Bodies
  <2> QED
    BY <1>2, <2>1, TopFacts
<1> QED
  BY <1>1, <1>2, <1>3

LEMMA AddMemberKeeps ==
  ASSUME Inv, Reading, stack # <<>>,
         NEW n \in FieldNames, NEW kind \in {"field", "arg"}, NEW mode \in Words,
         Top.kind \in BodyOf(kind), kind = "arg" => mode = "plain",
         AddMember(n, kind, mode),
         UNCHANGED <<bindings, package, result, status>>
  PROVE  Keeps
<1> DEFINE d == Top.def
           old == defs[d]
           new == Def(old.name, old.tag, Append(old.members, n),
                      Append(old.refs, Ref(mode, Plain("undefined"))))
           a == Activation(kind, d, old.name \o n, 0, mode, Len(old.refs) + 1)
<1>1. Top.kind \in Bodies /\ d \in 1..Len(defs) /\ old.tag = Top.kind /\ d \in Nat
  BY TopFacts, Types DEF Stands, BodyOf, Bodies, Top
<1>2. defs' = [defs EXCEPT ![d] = new] /\ stack' = Append(stack, a)
  BY <1>1, Types DEF AddMember
<1>3. /\ old \in DefRec /\ ValidDef(old, Len(defs))
      /\ old.refs \in Seq(RefRec) /\ old.members \in Seq(Text)
      /\ Len(old.refs) \in Nat /\ Len(old.members) \in Nat
      /\ old.name \in Text /\ old.tag \in Words
  <2>1. old \in DefRec /\ ValidDef(old, Len(defs))
    BY <1>1, Types, ElementOfSeq DEF Inv, DefsOK
  <2>2. old.refs \in Seq(RefRec) /\ old.members \in Seq(Text) /\ old.name \in Text /\ old.tag \in Words
    BY <2>1 DEF DefRec
  <2> QED
    BY <2>1, <2>2, LenProperties
<1>4. n \in Text /\ Ref(mode, Plain("undefined")) \in RefRec
  BY FileTexts DEF Ref, Plain, RefRec, TypeValues, Words
<1> DEFINE r == Ref(mode, Plain("undefined"))
<1>5. r.type.tag = "undefined" /\ r.mode = mode
  BY DEF Ref, Plain
<1> HIDE DEF d, r
<1>6. /\ new.name = old.name /\ new.tag = old.tag
      /\ new.members = Append(old.members, n) /\ new.refs = Append(old.refs, r)
  BY DEF Def, r
<1>7. new \in DefRec
  BY <1>3, <1>4, AppendProperties DEF Def, DefRec
<1> HIDE DEF old
<1>8. /\ Len(new.refs) = Len(old.refs) + 1 /\ Len(new.members) = Len(old.members) + 1
      /\ \A i \in 1..Len(old.refs) : new.refs[i] = old.refs[i]
      /\ new.refs[Len(old.refs) + 1] = r
      /\ \A i \in 1..Len(new.refs) : i \in 1..Len(old.refs) \/ i = Len(old.refs) + 1
  BY <1>3, <1>4, <1>6, AppendProperties DEF r
<1> HIDE DEF new
<1>9. Put(defs, defs', d, new)
  BY <1>1, <1>2, <1>7, Types, PutInPlace
<1>10. ValidDef(new, Len(defs')) /\ Len(defs') = Len(defs)
  <2>1. Len(defs') = Len(defs)
    BY <1>1, <1>9 DEF Put
  <2>2. Shape(old) /\ old.tag \in Bodies
    BY <1>1, <1>3 DEF ValidDef
  <2>3. Shape(new)
    <3>1. new.tag = "func" => mode = "plain" /\ Len(old.refs) >= 1
      BY <1>1, <1>3, <1>6, <2>2 DEF BodyOf, Shape
    <3>2. new.tag \notin {"array", "alias", "undefined"} /\ new.tag \notin PlainTypes
      BY <1>6, <2>2, NamesAssumption DEF Bodies
    <3>3. new.tag = "func" => \A i \in 1..Len(new.refs) : new.refs[i].mode = "plain"
      BY <1>5, <1>6, <1>8, <2>2, <3>1 DEF Shape
    <3> QED
      BY <1>3, <1>6, <1>8, <2>2, <3>1, <3>2, <3>3 DEF Shape, Bodies
  <2>4. \A i \in 1..Len(new.refs) : ValidType(new.refs[i].type, Len(defs))
    BY <1>3, <1>5, <1>8 DEF ValidDef, ValidType
  <2> QED
    BY <2>1, <2>3, <2>4 DEF ValidDef
<1>11. Suits(stack, d, new)
  BY <1>1, <1>6, NoMemberYet, TopFacts DEF Suits, d, Top
<1>12. Touchable(d) /\ KeepsName(defs, d, new)
  BY <1>1, <1>6, TopFacts DEF Touchable, KeepsName, d, old, Top
<1>13. /\ defs' \in Seq(DefRec)
       /\ DefsOK(defs') /\ NamesOK(defs') /\ BindingsOK(bindings, Len(defs'))
       /\ StackOK(defs', stack) /\ Stays
  BY <1>9, <1>10, <1>11, <1>12, PutIsHarmless
<1>14. /\ a \in ActRec /\ a.kind = kind /\ a.def = d /\ a.slot = Len(old.refs) + 1
  <2>1. old.name \o n \in Text
    BY <1>3, <1>4, FileTexts
  <2> QED
    BY <1>1, <1>3, <2>1 DEF Activation, ActRec, Words
<1> HIDE DEF a
<1>15. /\ Append(stack, a)[Len(stack) + 1] = a /\ Len(Append(stack, a)) = Len(stack) + 1
       /\ Append(stack, a)[Len(stack)] = Top
  BY <1>14, Types, TopFacts, AppendProperties DEF Top
<1>16. Stands(defs', Append(stack, a), Len(stack) + 1)
  <2>1. defs'[d] = new
    BY <1>9 DEF Put
  <2> QED
    BY <1>1, <1>3, <1>8, <1>10, <1>14, <1>15, <2>1, TopFacts DEF Stands, Awaits, Bodies, Members, d
<1>17. StackOK(defs', Append(stack, a)) /\ Append(stack, a) \in Seq(ActRec)
  BY <1>13, <1>14, <1>16, Types, PushStack DEF Bodies
<1>18. SlotsOK(defs', Append(stack, a))
  <2>1. SlotsOK(defs, Append(stack, a))
    BY <1>14, Types, PushSlots DEF Inv
  <2>2. Held(Append(stack, a), d, Len(old.refs) + 1)
    BY <1>14, <1>15, Types DEF Held
  <2>3. \A i \in 1..Len(new.refs) : new.refs[i].type.tag = "undefined" => Held(Append(stack, a), d, i)
    BY <1>1, <1>8, <2>1, <2>2 DEF SlotsOK, old
  <2> QED
    BY <1>9, <2>1, <2>3, Types, PutSlots
<1>19. /\ bindings' = bindings /\ package' = package /\ status' = status /\ result' = result
       /\ status = "run" /\ result = None
  BY DEF Reading
<1>20. Typed'
  BY <1>2, <1>13, <1>17, <1>19, Types, ReadingCounts DEF Typed
<1> QED
  BY <1>2, <1>13, <1>17, <1>18, <1>19, <1>20 DEF Keeps, Inv, ResultOK

LEMMA FieldKeeps ==
  ASSUME Inv, NEW n \in FieldNames, NEW m \in RefModes, Field(n, m)
  PROVE  Keeps
<1>1. m \in Words
  BY FileTexts
<1> QED
  BY <1>1, AddMemberKeeps DEF Field, AtBody, BodyOf

LEMMA ArgKeeps ==
  ASSUME Inv, NEW n \in FieldNames, Arg(n)
  PROVE  Keeps
<1>1. "plain" \in Words
  BY DEF Words
<1>2. /\ Reading /\ stack # <<>> /\ Top.kind \in BodyOf("arg") /\ AddMember(n, "arg", "plain")
      /\ UNCHANGED <<bindings, package, result, status>>
  BY DEF Arg, AtBody, BodyOf
<1> QED
  BY <1>1, <1>2, AddMemberKeeps

LEMMA RetKeeps ==
  ASSUME Inv, Ret
  PROVE  Keeps
<1> DEFINE name == defs[Top.def].name \o <<"ret">>
           a == Activation("ret", Top.def, name, Top.depth, "plain", 1)
<1>1. /\ defs' = defs /\ status = "run" /\ result = None /\ stack # <<>> /\ Top.kind = "func"
      /\ stack' = Append(stack, a)
      /\ bindings' = bindings /\ package' = package /\ status' = status /\ result' = result
  BY DEF Ret, AtBody, Reading
<1>2. Top.def \in 1..Len(defs) /\ defs[Top.def].tag = "func" /\ Top.depth \in Nat /\ Top.def \in Nat
  BY <1>1, TopFacts DEF Stands, Bodies, ActRec, Top
<1>3. name \in Text /\ 1 \in 1..Len(defs[Top.def].refs)
  <2>1. defs[Top.def] \in DefRec /\ ValidDef(defs[Top.def], Len(defs))
    BY <1>2, Types, ElementOfSeq DEF Inv, DefsOK
  <2>2. defs[Top.def].name \in Text /\ defs[Top.def].refs \in Seq(RefRec)
    BY <2>1 DEF DefRec
  <2>3. Len(defs[Top.def].refs) \in Nat /\ Len(defs[Top.def].refs) >= 1
    BY <1>2, <2>1, <2>2, LenProperties DEF ValidDef, Shape
  <2> QED
    BY <2>2, <2>3 DEF Text, Words
<1> HIDE DEF name
<1>4. a \in ActRec /\ a.kind = "ret" /\ a.def = Top.def /\ a.slot = 1
  BY <1>2, <1>3 DEF Activation, ActRec, Words
<1> HIDE DEF a
<1>5. Stands(defs, Append(stack, a), Len(stack) + 1)
  <2>1. /\ Append(stack, a)[Len(stack) + 1] = a /\ Append(stack, a)[Len(stack)] = Top
    BY <1>1, <1>4, Types, TopFacts, AppendProperties DEF Top
  <2> QED
    BY <1>1, <1>2, <1>3, <1>4, <2>1, TopFacts DEF Stands, Awaits, Bodies, Members, BodyOf
<1>6. StackOK(defs, Append(stack, a)) /\ Append(stack, a) \in Seq(ActRec)
  BY <1>4, <1>5, Types, PushStack DEF Inv, Bodies
<1>7. SlotsOK(defs, Append(stack, a))
  BY <1>4, Types, PushSlots DEF Inv
<1>8. Typed'
  BY <1>1, <1>6, Types, ReadingCounts DEF Typed, Ret, AtBody
<1> QED
  BY <1>1, <1>6, <1>7, <1>8, NothingPut DEF Keeps, Inv, ResultOK

LEMMA NeitherRetNorArgsKeeps ==
  ASSUME Inv, NeitherRetNorArgs
  PROVE  Keeps
<1>1. /\ defs' = defs /\ bindings' = bindings /\ package' = package /\ stack' = stack
      /\ result' = result /\ status' = "looping" /\ Reading
  BY DEF NeitherRetNorArgs, AtBody
<1> QED
  BY <1>1, NothingPut, ReadingCounts DEF Keeps, Inv, Typed

LEMMA FailKeeps ==
  ASSUME Inv, Fail
  PROVE  Keeps
<1>1. /\ defs' = defs /\ bindings' = bindings /\ package' = package /\ stack' = stack
      /\ result' = result /\ items' = items /\ status' = "failed"
  BY DEF Fail
<1> QED
  BY <1>1, NothingPut DEF Keeps, Inv, Typed

(***************************************************************************)
(* A type is received, and the activation that waited for it is over.      *)
(***************************************************************************)
LEMMA EndBodyKeeps ==
  ASSUME Inv, EndBody
  PROVE  Keeps
<1>1. /\ defs' = defs /\ bindings' = bindings /\ package' = package /\ items' = items
      /\ status' = status /\ status = "run" /\ stack' = Popped
      /\ stack # <<>> /\ Top.kind \in Bodies
  BY DEF EndBody
<1>2. Top.def \in 1..Len(defs) /\ (Len(stack) = 1 \/ stack[Len(stack) - 1].kind \in Awaits)
  BY <1>1, TopFacts DEF Stands, Bodies, Top
<1>3. StackOK(defs, Popped) /\ SlotsOK(defs, Popped)
  BY <1>1, Types, PopStack, PopSlots DEF Inv, Popped, Bodies, Top
<1>4. result' \in TypeValues /\ ResultOK(result', Len(defs), Popped)
  <2>1. CASE Popped = <<>>
    BY <1>1, <2>1 DEF EndBody, None, TypeValues, ResultOK, Words
  <2>2. CASE Popped # <<>>
    <3> DEFINE caller == Popped[Len(Popped)]
    <3>1. caller.kind \in Awaits
      <4>1. Len(Popped) \in 1..(Len(stack) - 1)
        BY <1>1, <2>2, TopFacts, EmptySeq
      <4>2. Len(Popped) = Len(stack) - 1 /\ Popped[Len(Popped)] = stack[Len(stack) - 1]
        BY <1>1, <4>1, TopFacts
      <4>3. Len(stack) # 1
        BY <1>1, <4>1, TopFacts
      <4> QED
        BY <1>2, <4>2, <4>3
    <3>2. CASE caller.kind = "typedef" /\ caller.def = Top.def
      <4>1. result' = Same
        BY <1>1, <2>2, <3>2 DEF EndBody
      <4> QED
        BY <2>2, <3>1, <3>2, <4>1 DEF Same, TypeValues, ResultOK, Words
    <3>3. CASE ~(caller.kind = "typedef" /\ caller.def = Top.def)
      <4>1. result' = Alias(Top.def)
        BY <1>1, <2>2, <3>3 DEF EndBody
      <4> QED
        BY <1>2, <2>2, <3>1, <4>1, Types, AliasIsType DEF ResultOK
    <3> QED
      BY <3>2, <3>3
  <2> QED
    BY <2>1, <2>2
<1>5. Typed'
  BY <1>1, <1>4, TopFacts DEF Inv, Typed
<1> QED
  BY <1>1, <1>3, <1>4, <1>5, NothingPut DEF Keeps, Inv

LEMMA ReceivingFacts ==
  ASSUME Inv, NEW kinds, Receiving(kinds)
  PROVE  /\ status = "run" /\ stack # <<>> /\ Top.kind \in kinds
         /\ result.tag # "undefined"
         /\ Top.kind # "typedef" => result # Same
         /\ result # Same => ValidType(result, Len(defs))
         /\ StackOK(defs, Popped)
<1>1. status = "run" /\ result # None /\ Top.kind \in kinds
  BY DEF Receiving
<1>2. stack # <<>>
  BY <1>1 DEF Inv, ResultOK
<1>3. StackOK(defs, Popped)
  BY <1>2, Types, PopStack DEF Inv, Popped
<1>4. ~ValidType(Same, Len(defs))
  BY NamesAssumption DEF ValidType, Same
<1> QED
  BY <1>1, <1>2, <1>3, <1>4 DEF Inv, ResultOK, Top

LEMMA ReceiveTypedefKeeps ==
  ASSUME Inv, ReceiveTypedef
  PROVE  Keeps
<1> DEFINE d == Top.def
           refs == IF result.tag \in {"alias", "extern"} THEN <<Ref("plain", result)>> ELSE <<>>
           new == Def(defs[d].name, result.tag, <<>>, refs)
<1>1. /\ bindings' = bindings /\ package' = package /\ items' = items /\ status' = status
      /\ stack' = Popped /\ result' = None /\ Receiving({"typedef"})
  BY DEF ReceiveTypedef
<1>2. /\ stack # <<>> /\ Top.kind = "typedef" /\ status = "run" /\ result.tag # "undefined"
      /\ StackOK(defs, Popped)
  BY <1>1, ReceivingFacts
<1>3. d \in 1..Len(defs) /\ Len(stack) = 1
  BY <1>2, TopFacts DEF Stands, Top
<1>4. Len(Popped) = 0
  BY <1>2, <1>3, TopFacts
<1>5. SlotsOK(defs, Popped)
  BY <1>2, Types, PopSlots DEF Inv, Popped, Top
<1>6. /\ defs' \in Seq(DefRec) /\ DefsOK(defs') /\ NamesOK(defs')
      /\ BindingsOK(bindings, Len(defs')) /\ SlotsOK(defs', Popped) /\ Stays
  <2>1. CASE result = Same
    <3>1. defs' = defs
      BY <2>1 DEF ReceiveTypedef
    <3> QED
      BY <1>5, <3>1, NothingPut
  <2>2. CASE result # Same
    <3>1. ValidType(result, Len(defs)) /\ result \in TypeValues
      BY <1>1, <2>2, ReceivingFacts, Types
    <3>2. defs' = [defs EXCEPT ![d] = new]
      BY <2>2 DEF ReceiveTypedef
    <3>3. defs[d] \in DefRec
      BY <1>3, Types, ElementOfSeq
    <3>4. result.tag \in Words
      BY <3>1 DEF TypeValues
    <3>5. refs \in Seq(RefRec)
      <4>1. Ref("plain", result) \in RefRec
        BY <3>1 DEF Ref, RefRec, Words
      <4> QED
        BY <4>1
    <3>6. /\ new.name = defs[d].name /\ new.tag = result.tag /\ new.members = <<>>
          /\ new.refs = refs
      BY DEF Def
    <3>7. new \in DefRec
      <4>1. defs[d].name \in Text
        BY <3>3 DEF DefRec
      <4> HIDE DEF refs
      <4> QED
        BY <3>4, <3>5, <4>1 DEF Def, DefRec
    <3>8. result.tag \notin Bodies \cup {"array"} /\ (result.tag \in {"alias", "extern"} => result.tag \notin PlainTypes)
      BY <3>1, NamesAssumption DEF ValidType, Bodies
    <3>9. ValidDef(new, Len(defs))
      <4>1. \A i \in 1..Len(refs) : refs[i] = Ref("plain", result) /\ i = 1 /\ Len(refs) = 1
        OBVIOUS
      <4>2. result.tag \in {"alias", "extern"} => Len(refs) = 1 /\ refs[1].type = result
        BY DEF Ref
      <4>3. result.tag \notin {"alias", "extern"} => refs = <<>>
        OBVIOUS
      <4> HIDE DEF refs, new
      <4>4. \A i \in 1..Len(refs) : refs[i].mode = "plain" /\ refs[i].type = result
        BY <4>1 DEF Ref
      <4>5. Shape(new)
        BY <1>2, <3>6, <3>8, <4>2, <4>3, <4>4 DEF Shape, Bodies
      <4> QED
        BY <3>1, <3>6, <4>4, <4>5 DEF ValidDef
    <3>10. \A i \in 1..Len(new.refs) : new.refs[i].type.tag = "undefined" => Held(Popped, d, i)
      BY <1>2, <3>6 DEF Ref
    <3> HIDE DEF new
    <3>11. Put(defs, defs', d, new) /\ Len(defs') = Len(defs)
      BY <1>3, <3>2, <3>7, Types, PutInPlace DEF Put
    <3>12. Touchable(d) /\ KeepsName(defs, d, new)
      BY <1>2, <1>3, <3>6, TopFacts, Types DEF Touchable, KeepsName, Top
    <3>13. Suits(stack, d, new)
      BY <1>2, <1>3 DEF Suits, Top, Bodies, Members
    <3> HIDE DEF d
    <3>14. /\ defs' \in Seq(DefRec) /\ DefsOK(defs') /\ NamesOK(defs')
           /\ BindingsOK(bindings, Len(defs')) /\ Stays
      BY <3>9, <3>11, <3>12, <3>13, PutIsHarmless
    <3>15. SlotsOK(defs', Popped)
      BY <1>5, <3>10, <3>11, Types, PutSlots
    <3> QED
      BY <3>14, <3>15
  <2> QED
    BY <2>1, <2>2
<1>7. StackOK(defs', Popped)
  BY <1>4 DEF StackOK
<1>8. Typed'
  BY <1>1, <1>2, <1>6, TopFacts DEF Inv, Typed, None, TypeValues, Words
<1> QED
  BY <1>1, <1>2, <1>6, <1>7, <1>8 DEF Keeps, Inv, ResultOK

LEMMA ReceiveMemberKeeps ==
  ASSUME Inv, ReceiveMember
  PROVE  Keeps
<1> DEFINE d == Top.def
           old == defs[d]
           s == Top.slot
           r == Ref(old.refs[s].mode, result)
           refs == [old.refs EXCEPT ![s] = r]
           new == Def(old.name, old.tag, old.members, refs)
<1>1. /\ bindings' = bindings /\ package' = package /\ items' = items /\ status' = status
      /\ stack' = Popped /\ result' = None /\ Receiving({"field", "arg", "ret"})
  BY DEF ReceiveMember
<1>2. /\ stack # <<>> /\ Top.kind \in Members /\ status = "run" /\ result.tag # "undefined"
      /\ ValidType(result, Len(defs)) /\ result \in TypeValues
  BY <1>1, ReceivingFacts, Types DEF Members
<1>3. d \in 1..Len(defs) /\ s \in 1..Len(old.refs)
  BY <1>2, TopFacts DEF Stands, Top, Members
<1>4. defs' = [defs EXCEPT ![d] = new]
  BY <1>3, Types DEF ReceiveMember
<1>5. /\ old \in DefRec /\ ValidDef(old, Len(defs)) /\ old.refs \in Seq(RefRec)
      /\ Len(old.refs) \in Nat
  <2>1. old \in DefRec /\ ValidDef(old, Len(defs))
    BY <1>3, Types, ElementOfSeq DEF Inv, DefsOK
  <2>2. old.refs \in Seq(RefRec)
    BY <2>1 DEF DefRec
  <2> QED
    BY <2>1, <2>2, LenProperties
<1>6. r \in RefRec /\ r.type = result /\ r.mode = old.refs[s].mode
  BY <1>2, <1>3, <1>5, ElementOfSeq DEF Ref, RefRec
<1>7. refs = [old.refs EXCEPT ![s] = r]
  OBVIOUS
<1>8. /\ refs \in Seq(RefRec) /\ Len(refs) = Len(old.refs)
      /\ refs[s] = r /\ \A i \in 1..Len(old.refs) : i # s => refs[i] = old.refs[i]
  <2> HIDE DEF r, s, refs
  <2>1. refs \in Seq(RefRec) /\ Len(refs) = Len(old.refs)
    BY <1>3, <1>5, <1>6, <1>7, ExceptSeq DEF s
  <2>2. refs[s] = r /\ \A i \in 1..Len(old.refs) : i # s => refs[i] = old.refs[i]
    BY <1>3, <1>5, <1>7, LenProperties DEF s
  <2> QED
    BY <2>1, <2>2
<1> HIDE DEF refs, r
<1>9. /\ new \in DefRec /\ new.name = old.name /\ new.tag = old.tag
      /\ new.members = old.members /\ new.refs = refs
  BY <1>5, <1>8 DEF Def, DefRec
<1> HIDE DEF new
<1>10. Put(defs, defs', d, new) /\ Len(defs') = Len(defs)
  BY <1>3, <1>4, <1>9, Types, PutInPlace DEF Put
<1>11. Stands(defs, stack, Len(stack))
  BY <1>2, TopFacts
<1>12. old.tag \in Bodies
  <2>1. /\ Len(stack) - 1 \in 1..Len(stack) /\ stack[Len(stack) - 1].kind \in Bodies
        /\ stack[Len(stack) - 1].def = d
    BY <1>2, <1>11, TopFacts DEF Stands, Top, BodyOf, Bodies, Members
  <2>2. Stands(defs, stack, Len(stack) - 1)
    BY <2>1 DEF Inv, StackOK
  <2> QED
    BY <2>1, <2>2 DEF Stands
<1>13. ValidDef(new, Len(defs'))
  <2>1. Shape(old) /\ \A i \in 1..Len(old.refs) : ValidType(old.refs[i].type, Len(defs))
    BY <1>5 DEF ValidDef
  <2>2. Shape(new)
    BY <1>3, <1>6, <1>8, <1>9, <1>12, <2>1, NamesAssumption DEF Shape, Bodies
  <2>3. \A i \in 1..Len(refs) : ValidType(refs[i].type, Len(defs))
    BY <1>2, <1>6, <1>8, <2>1
  <2> QED
    BY <1>9, <1>10, <2>2, <2>3 DEF ValidDef
<1>14. Suits(stack, d, new)
  <2>1. SUFFICES ASSUME NEW i \in 1..Len(stack), stack[i].def = d
                 PROVE  /\ stack[i].kind \in Bodies => new.tag = stack[i].kind
                        /\ stack[i].kind \in Members => stack[i].slot \in 1..Len(new.refs)
                        /\ stack[i].kind \in Members \ {"ret"} => stack[i].slot = Len(new.refs)
    BY DEF Suits
  <2>2. Stands(defs, stack, i)
    BY DEF Inv, StackOK
  <2> QED
    BY <1>8, <1>9, <2>1, <2>2 DEF Stands, Members
<1>15. Touchable(d) /\ KeepsName(defs, d, new)
  BY <1>2, <1>3, <1>9, TopFacts, Types DEF Touchable, KeepsName, Top
<1>16. SlotsOK(defs', stack)
  <2>1. \A i \in 1..Len(new.refs) : new.refs[i].type.tag = "undefined" => Held(stack, d, i)
    BY <1>2, <1>3, <1>6, <1>8, <1>9 DEF Inv, SlotsOK
  <2> HIDE DEF d
  <2> QED
    BY <1>10, <2>1, Types, PutSlots DEF Inv
<1>17. defs'[d].refs[s].type.tag # "undefined"
  BY <1>2, <1>6, <1>8, <1>9, <1>10 DEF Put
<1>18. SlotsOK(defs', Popped)
  BY <1>2, <1>16, <1>17, Types, PopSlots DEF Popped, Top
<1> HIDE DEF d, old, s
<1>19. /\ defs' \in Seq(DefRec) /\ DefsOK(defs') /\ NamesOK(defs')
       /\ BindingsOK(bindings, Len(defs')) /\ StackOK(defs', stack) /\ Stays
  BY <1>10, <1>13, <1>14, <1>15, PutIsHarmless
<1>20. StackOK(defs', Popped)
  BY <1>2, <1>19, Types, PopStack DEF Popped
<1>21. Typed'
  BY <1>1, <1>2, <1>19, TopFacts DEF Inv, Typed, None, TypeValues, Words
<1> QED
  BY <1>1, <1>2, <1>18, <1>19, <1>20, <1>21 DEF Keeps, Inv, ResultOK

LEMMA ReceiveArrayKeeps ==
  ASSUME Inv, ReceiveArray
  PROVE  Keeps
<1> DEFINE ref == Ref(Top.mode, result)
           name == ArrayName(ref)
           new == Def(name, "array", <<>>, <<ref>>)
           d == Len(defs) + 1
<1>1. /\ bindings' = bindings /\ package' = package /\ items' = items
      /\ stack' = Popped /\ Receiving({"array"})
  BY DEF ReceiveArray
<1>2. /\ stack # <<>> /\ Top.kind = "array" /\ status = "run" /\ result.tag # "undefined"
      /\ ValidType(result, Len(defs)) /\ result \in TypeValues
      /\ StackOK(defs, Popped) /\ result # Same
  BY <1>1, ReceivingFacts, Types
<1>3. Popped # <<>> /\ Popped[Len(Popped)].kind \in Awaits
  <2>1. Len(stack) > 1 /\ stack[Len(stack) - 1].kind \in Awaits
    BY <1>2, TopFacts DEF Stands, Top, Bodies
  <2>2. Len(Popped) \in 1..(Len(stack) - 1) /\ Len(Popped) = Len(stack) - 1
    BY <1>2, <2>1, TopFacts
  <2> QED
    BY <1>2, <2>1, <2>2, TopFacts
<1>4. SlotsOK(defs, Popped)
  BY <1>2, Types, PopSlots DEF Inv, Popped, Top
<1>5. ref \in RefRec /\ ref.type = result /\ ref.mode = Top.mode
  BY <1>2, TopFacts DEF Ref, RefRec, ActRec
<1>6. name \in Text
  <2>1. ElemName(result) \in Text
    <3>1. CASE result.tag = "alias"
      <4>1. result.to \in 1..Len(defs)
        BY <1>2, <3>1, NamesAssumption DEF ValidType
      <4>2. defs[result.to] \in DefRec
        BY <4>1, Types, ElementOfSeq
      <4> QED
        BY <3>1, <4>2 DEF ElemName, DefRec
    <3>2. CASE result.tag # "alias"
      <4>1. result.tag \in Words
        BY <1>2 DEF TypeValues
      <4> QED
        BY <3>2, <4>1 DEF ElemName, Text
    <3> QED
      BY <3>1, <3>2
  <2>2. <<"arrayof">> \in Text /\ <<>> \in Text /\ <<ref.mode>> \in Text
    <3>1. ref.mode \in Words
      BY <1>5 DEF RefRec
    <3> QED
      BY <3>1 DEF Text, Words
  <2>3. (IF ref.mode = "plain" THEN <<>> ELSE <<ref.mode>>) \in Text
    BY <2>2
  <2> QED
    BY <1>5, <2>1, <2>2, <2>3, FileTexts DEF ArrayName
<1> HIDE DEF ref, name
<1>7. /\ new \in DefRec /\ new.name = name /\ new.tag = "array" /\ new.members = <<>>
      /\ new.refs = <<ref>>
  BY <1>5, <1>6 DEF Def, DefRec, Words
<1> HIDE DEF new
<1>8. CASE Find(name) = 0
  <2>1. defs' = Append(defs, new) /\ result' = Alias(d) /\ status' = status
    BY <1>8 DEF ReceiveArray, new, name, ref
  <2>2. Put(defs, defs', d, new) /\ ~(d <= Len(defs)) /\ Len(defs') = d
    BY <1>7, <2>1, Types, PutAtEnd DEF Put
  <2>3. ValidDef(new, Len(defs'))
    <3>1. Shape(new)
      BY <1>7, NamesAssumption DEF Shape, Bodies
    <3>2. ValidType(result, d)
      BY <1>2, Types, MoreDefs
    <3>3. \A i \in 1..Len(new.refs) : new.refs[i] = ref
      BY <1>7
    <3> QED
      BY <1>5, <2>2, <3>1, <3>2, <3>3 DEF ValidDef
  <2>4. KeepsName(defs, d, new)
    BY <1>7, <1>8, <2>2, Types, FindFacts DEF KeepsName, Pointer
  <2>5. SlotsOK(defs', Popped)
    <3>1. \A i \in 1..Len(new.refs) : new.refs[i].type.tag = "undefined" => Held(Popped, d, i)
      BY <1>2, <1>5, <1>7
    <3> QED
      BY <1>4, <2>2, <3>1, Types, PutSlots
  <2>6. Touchable(d) /\ d \in Nat /\ d \in 1..d
    BY Types DEF Touchable
  <2> HIDE DEF d
  <2>7. /\ defs' \in Seq(DefRec) /\ DefsOK(defs') /\ NamesOK(defs')
        /\ BindingsOK(bindings, Len(defs')) /\ StackOK(defs', stack) /\ Stays
    BY <2>2, <2>3, <2>4, <2>6, PutIsHarmless
  <2>8. StackOK(defs', Popped)
    BY <1>2, <2>7, Types, PopStack DEF Popped
  <2>9. result' \in TypeValues /\ ResultOK(result', Len(defs'), Popped)
    BY <1>3, <2>1, <2>2, <2>6, AliasIsType DEF ResultOK
  <2>10. Typed'
    BY <1>1, <1>2, <2>1, <2>7, <2>9, TopFacts DEF Inv, Typed
  <2> QED
    BY <1>1, <1>2, <2>1, <2>5, <2>7, <2>8, <2>9, <2>10 DEF Keeps, Inv
<1>9. CASE Find(name) # 0
  <2>1. defs' = defs
    BY <1>9 DEF ReceiveArray, name, ref
  <2>2. /\ status' \in {"run", "failed"} 
        /\ result' \in TypeValues /\ ResultOK(result', Len(defs'), Popped)
    <3>1. CASE result' = Alias(Find(name)) /\ status' = status
      <4>1. Find(name) \in 1..Len(defs)
        BY <1>9, Types, FindFacts DEF Pointer
      <4> QED
        BY <1>2, <1>3, <2>1, <3>1, <4>1, Types, AliasIsType DEF ResultOK
    <3>2. CASE result' = result /\ status' = "failed"
      BY <1>2, <1>3, <2>1, <3>2 DEF ResultOK
    <3> QED
      BY <1>9, <3>1, <3>2 DEF ReceiveArray, name, ref
  <2>3. Typed'
    BY <1>1, <1>2, <2>1, <2>2, TopFacts DEF Inv, Typed
  <2> QED
    BY <1>1, <1>2, <1>4, <2>1, <2>2, <2>3, NothingPut DEF Keeps, Inv
<1> QED
  BY <1>8, <1>9

-----------------------------------------------------------------------------
LEMMA InitInv == Init => Inv
<1>1. SUFFICES ASSUME Init PROVE Inv
  OBVIOUS
<1>2. /\ defs = <<>> /\ bindings = <<>> /\ package = <<>> /\ stack = <<>> /\ result = None
      /\ items = 0 /\ status = "run"
  BY <1>1 DEF Init
<1>3. Typed
  BY <1>2, NamesAssumption DEF Typed, None, TypeValues, Text, Words
<1> QED
  BY <1>2, <1>3 DEF Inv, DefsOK, NamesOK, BindingsOK, StackOK, SlotsOK, ResultOK

LEMMA NextKeeps == Inv /\ [Next]_vars => Keeps
<1>1. SUFFICES ASSUME Inv, [Next]_vars PROVE Keeps
  OBVIOUS
<1>2. CASE Statement
  BY <1>1, <1>2, TypedefKeeps, NamedDefKeeps, PackageKeeps, FromKeeps, EndOfFileKeeps
    DEF Statement
<1>3. CASE Type
  <2>1. ASSUME NEW t \in PlainTypes, PlainType(Plain(t)) PROVE Keeps
    BY <1>1, <2>1, PlainTypeKeeps
  <2>2. ASSUME NEW x \in Externs, PlainType(Extern(x)) PROVE Keeps
    BY <1>1, <2>2, PlainTypeKeeps
  <2>3. ASSUME NEW w \in DefWords, NestedDef(w, Top.name) PROVE Keeps
    BY <1>1, <2>3, NestedDefKeeps
  <2>4. ASSUME NEW w \in DefWords, NEW n \in Names, NestedDef(w, Packaged(n)) PROVE Keeps
    BY <1>1, <2>4, NestedDefKeeps
  <2> QED
    BY <1>1, <1>3, <2>1, <2>2, <2>3, <2>4, MentionKeeps, ArrayTypeKeeps DEF Type
<1>4. CASE Body
  BY <1>1, <1>4, FieldKeeps, ArgKeeps, RetKeeps, NeitherRetNorArgsKeeps, EndBodyKeeps DEF Body
<1>5. CASE Receive
  BY <1>1, <1>5, ReceiveTypedefKeeps, ReceiveMemberKeeps, ReceiveArrayKeeps DEF Receive
<1>6. CASE Fail
  BY <1>1, <1>6, FailKeeps
<1>7. CASE UNCHANGED vars
  <2>1. /\ defs' = defs /\ bindings' = bindings /\ package' = package /\ stack' = stack
        /\ result' = result /\ items' = items /\ status' = status
    BY <1>7 DEF vars
  <2> QED
    BY <1>1, <2>1, NothingPut DEF Keeps, Inv, Typed
<1> QED
  BY <1>1, <1>2, <1>3, <1>4, <1>5, <1>6, <1>7 DEF Next, Step, Stopped

LEMMA InvHolds == Spec => []Inv
<1>1. Init => Inv
  BY InitInv
<1>2. Inv /\ [Next]_vars => Inv'
  BY NextKeeps DEF Keeps
<1> QED
  BY <1>1, <1>2, PTL DEF Spec

(***************************************************************************)
(* Every type_def_t pointer the parser holds is one of compiler->defs, in  *)
(* whatever order names are mentioned, imported and defined.               *)
(***************************************************************************)
THEOREM TypeCorrect == Spec => []TypeOK
<1>1. Inv => TypeOK
  <2>1. SUFFICES ASSUME Inv PROVE TypeOK
    OBVIOUS
  <2>2. ASSUME NEW d \in Pointer
        PROVE  /\ Len(defs[d].refs) = Len(defs[d].members) \/ defs[d].members = <<>>
               /\ \A i \in 1..Len(defs[d].refs) : IsTypeValue(defs[d].refs[i].type)
    BY <2>1 DEF Inv, DefsOK, ValidDef, Shape, ValidType, IsTypeValue, Pointer
  <2>3. \A i \in 1..Len(bindings) : bindings[i].def \in Pointer
    BY <2>1 DEF Inv, BindingsOK, Pointer
  <2>4. \A i \in 1..Len(stack) :
          /\ stack[i].kind \in Awaits \cup Bodies
          /\ stack[i].kind # "array" => stack[i].def \in Pointer
    BY <2>1 DEF Inv, StackOK, Stands, Pointer
  <2>5. result \in {None, Same} \/ IsTypeValue(result)
    BY <2>1 DEF Inv, ResultOK, ValidType, IsTypeValue, Pointer
  <2> QED
    BY <2>1, <2>2, <2>3, <2>4, <2>5 DEF TypeOK, Inv, Typed
<1> QED
  BY <1>1, InvHolds, PTL

(***************************************************************************)
(* No name is given to two defs or bound twice: whoever adds a def has     *)
(* looked for its name first, made-up names of members and arrays too.     *)
(***************************************************************************)
THEOREM NamesStayUnique == Spec => []NamesUnique
<1>1. Inv => NamesUnique
  BY DEF Inv, NamesOK, BindingsOK, NamesUnique, Pointer
<1> QED
  BY <1>1, InvHolds, PTL

(***************************************************************************)
(* The pointer a member's type is parsed through is good when it is        *)
(* written through, however deep the defs in between are nested.           *)
(***************************************************************************)
THEOREM PointersHold == Spec => []MemberPointersHold
<1>1. Inv => MemberPointersHold
  <2>1. SUFFICES ASSUME Inv PROVE MemberPointersHold
    OBVIOUS
  <2>2. ASSUME NEW i \in 1..Len(stack), stack[i].kind \in {"field", "arg"}
        PROVE  /\ stack[i-1].kind = defs[stack[i].def].tag
               /\ stack[i-1].def = stack[i].def
               /\ stack[i].slot = Len(defs[stack[i].def].refs)
    <3>1. /\ i > 1 /\ stack[i-1].kind \in Bodies /\ stack[i-1].def = stack[i].def
          /\ stack[i].slot = Len(defs[stack[i].def].refs)
      BY <2>1, <2>2 DEF Inv, StackOK, Stands, Members, BodyOf, Bodies
    <3>2. i - 1 \in 1..Len(stack)
      BY <2>1, <3>1, Types
    <3>3. Stands(defs, stack, i - 1)
      BY <2>1, <3>2 DEF Inv, StackOK
    <3> QED
      BY <3>1, <3>3 DEF Stands
  <2> QED
    BY <2>1, <2>2 DEF Inv, StackOK, MemberPointersHold
<1> QED
  BY <1>1, InvHolds, PTL

(***************************************************************************)
(* A file that is parsed to its end leaves no reference without a type,    *)
(* and every def has the shape the validator and the sorts take it to have.*)
(***************************************************************************)
THEOREM ParsedShapes == Spec => []ParsedShape
<1>1. Inv => ParsedShape
  <2>1. SUFFICES ASSUME Inv, status = "parsed", NEW d \in Pointer
                 PROVE  /\ \A i \in 1..Len(defs[d].refs) : defs[d].refs[i].type.tag # "undefined"
                        /\ Shape(defs[d])
    BY DEF ParsedShape, Shape
  <2>2. stack = <<>>
    BY <2>1 DEF Inv
  <2>3. \A i \in 1..Len(defs[d].refs) : defs[d].refs[i].type.tag # "undefined"
    BY <2>1, <2>2 DEF Inv, SlotsOK, Held, Pointer
  <2> QED
    BY <2>1, <2>3 DEF Inv, DefsOK, ValidDef, Pointer
<1> QED
  BY <1>1, InvHolds, PTL

(***************************************************************************)
(* Whatever is parsed next, a def is only touched by what defines it, and  *)
(* none is lost, moved or renamed.                                         *)
(***************************************************************************)
THEOREM FinishedStay == Spec => FinishedDefsStay
<1> DEFINE Stay ==
      \A d \in Pointer :
        /\ d <= Len(defs') /\ defs'[d].name = defs[d].name
        /\ \/ defs'[d] = defs[d]
           \/ defs[d].tag = "undefined"
           \/ \E i \in 1..Len(stack) : stack[i].def = d
<1>1. Inv /\ [Next]_vars => [Stay]_vars
  BY NextKeeps DEF Keeps, Stays
<1> HIDE DEF Stay
<1>2. Spec => [][Stay]_vars
  BY <1>1, InvHolds, PTL DEF Spec
<1> QED
  BY <1>2 DEF FinishedDefsStay, Stay
=============================================================================
