----------------------------- MODULE ParseDefs -----------------------------
(***************************************************************************)
(* compiler_parse_defs (compiler_parse_defs.c): the recursive descent that *)
(* turns a file into compiler->defs and compiler->bindings.  The C stack   *)
(* is an explicit one: an activation is a statement, a body or a type that *)
(* waits for the type it contains, and `result` is what compiler_parse_    *)
(* type has just returned to it.  The token stream is any stream: each     *)
(* action reads the tokens that select it, so every syntactically correct  *)
(* prefix of at most MaxItems items is parsed, and Fail is every way to    *)
(* stop early (a syntax error, a refused name, no memory).                 *)
(*                                                                         *)
(* A name is the sequence of its words: joining two names with "_" (_const *)
(* _strjoin3) concatenates them, and two names are the same string if and  *)
(* only if they are the same sequence.                                     *)
(***************************************************************************)
EXTENDS Integers, Sequences, FiniteSets, SequencesExt

CONSTANTS Names,      \* the names a file may give and mention
          FieldNames, \* the names of its fields and arguments
          Packages,   \* the packages it may declare or import from
          PlainTypes, \* the words for a type that needs no def: "int", ...
          Externs,    \* the C types of its externs
          DefWords,   \* which of "struct", "union", "func" it uses
          RefModes,   \* which of "plain", "inplace", "weakref" it uses
          MaxItems    \* how many statements, members and types are read

ASSUME NamesAssumption ==
  /\ \A n \in Names \cup FieldNames \cup Packages \cup Externs : n \in Seq(STRING) /\ n # <<>>
  /\ PlainTypes \subseteq {"void", "any", "type", "int", "err", "string", "bool", "byte"}
  /\ DefWords \subseteq {"struct", "union", "func"}
  /\ RefModes \subseteq {"plain", "inplace", "weakref"}
  /\ MaxItems \in Nat

VARIABLES defs,      \* compiler->defs; a type_def_t * is an index into it
          bindings,  \* compiler->bindings
          package,   \* compiler->package_name, <<>> for NULL
          stack,     \* the activations, outermost first
          result,    \* the type compiler_parse_type has returned, or None
          items,     \* how much has been read
          status     \* "run", "parsed", "failed", or "looping" for ever

vars == <<defs, bindings, package, stack, result, items, status>>

None == [tag |-> "none"]
Same == [tag |-> "same"]   \* returned in place: the type is the def's own
Plain(tag) == [tag |-> tag]
Extern(n) == [tag |-> "extern", cname |-> n]
Alias(d) == [tag |-> "alias", to |-> d]

Ref(mode, type) == [mode |-> mode, type |-> type]
Def(name, tag, members, refs) ==
  [name |-> name, tag |-> tag, members |-> members, refs |-> refs]
NewDef(name) == Def(name, "undefined", <<>>, <<>>)

Top == stack[Len(stack)]
Popped == Front(stack)

Awaits == {"typedef", "field", "array", "ret", "arg"}
Bodies == {"struct", "union", "func"}

Reading == status = "run" /\ result = None /\ items < MaxItems /\ items' = items + 1
AtStatement == Reading /\ stack = <<>>
AtType == Reading /\ stack # <<>> /\ Top.kind \in Awaits
AtBody(kinds) == Reading /\ stack # <<>> /\ Top.kind \in kinds

-----------------------------------------------------------------------------
(***************************************************************************)
(* Names and the def table.                                                *)
(***************************************************************************)
Packaged(n) == package \o n

Find(name) == SelectInSeq(defs, LAMBDA d : d.name = name)   \* 0: not found

\* Seeded bug: the name is not looked up first.
AlwaysAddDef(name) == defs' = Append(defs, NewDef(name))

GetOrAddDef(name) ==
  /\ defs' = IF Find(name) = 0 THEN Append(defs, NewDef(name)) ELSE defs

\* Seeded bug: a def that was there is taken for a new one.
GetNewDef(name) == Len(defs) + 1

GetDef(name) == IF Find(name) = 0 THEN Len(defs) + 1 ELSE Find(name)

(***************************************************************************)
(* compiler_redef_or_add_def: only a def that has no type yet can be given *)
(* one (nothing sets can_redef).                                           *)
(***************************************************************************)
\* Seeded bug: can_redef is set.
CanAlwaysDefine(name) == TRUE

CanDefine(name) == Find(name) # 0 => defs[Find(name)].tag = "undefined"

Activation(kind, def, name, depth, mode, slot) ==
  [kind |-> kind, def |-> def, name |-> name, depth |-> depth, mode |-> mode,
   slot |-> slot]

(***************************************************************************)
(* struct, union, func, method: the def's type is reset to an empty one    *)
(* (a func returns err until it says otherwise) and its body entered.      *)
(***************************************************************************)
EnterBody(word, name, depth) ==
  /\ CanDefine(name)
  /\ LET new == IF word = "func"
                THEN Def(name, word, << <<>> >>, <<Ref("plain", Plain("err"))>>)
                ELSE Def(name, word, <<>>, <<>>)
     IN  defs' = IF Find(name) = 0 THEN Append(defs, new)
                                   ELSE [defs EXCEPT ![Find(name)] = new]
  /\ stack' = Append(stack, Activation(word, GetDef(name), name, depth, "plain", 0))

-----------------------------------------------------------------------------
(***************************************************************************)
(* Statements.                                                             *)
(***************************************************************************)
Typedef(n) ==
  /\ AtStatement
  /\ CanDefine(Packaged(n))
  /\ GetOrAddDef(Packaged(n))
  /\ stack' = <<Activation("typedef", GetDef(Packaged(n)), Packaged(n), 0, "plain", 0)>>
  /\ UNCHANGED <<bindings, package, result, status>>

NamedDef(word, n) ==
  /\ AtStatement
  /\ EnterBody(word, Packaged(n), 0)
  /\ UNCHANGED <<bindings, package, result, status>>

Package(p) ==
  /\ AtStatement
  /\ package' = IF p = <<"", "">> THEN <<>> ELSE p    \* "_"
  /\ UNCHANGED <<defs, bindings, stack, result, status>>

From(p, n) ==
  /\ AtStatement
  /\ ~\E i \in 1..Len(bindings) : bindings[i].name = n
  /\ GetOrAddDef(p \o n)
  /\ bindings' = Append(bindings, [name |-> n, def |-> GetDef(p \o n)])
  /\ UNCHANGED <<package, stack, result, status>>

EndOfFile ==
  /\ status = "run" /\ stack = <<>> /\ result = None
  /\ status' = "parsed"
  /\ UNCHANGED <<defs, bindings, package, stack, result, items>>

-----------------------------------------------------------------------------
(***************************************************************************)
(* compiler_parse_type, called by the activation on top of the stack.      *)
(***************************************************************************)
BoundTo(n) == SelectInSeq(bindings, LAMBDA b : b.name = n)

Mention(n) ==
  /\ AtType
  /\ IF BoundTo(n) # 0
     THEN result' = Alias(bindings[BoundTo(n)].def) /\ UNCHANGED defs
     ELSE result' = Alias(GetDef(Packaged(n))) /\ GetOrAddDef(Packaged(n))
  /\ UNCHANGED <<bindings, package, stack, status>>

MentionFull(n) ==
  /\ AtType
  /\ result' = Alias(GetDef(n))
  /\ GetOrAddDef(n)
  /\ UNCHANGED <<bindings, package, stack, status>>

PlainType(type) ==
  /\ AtType
  /\ result' = type
  /\ UNCHANGED <<defs, bindings, package, stack, status>>

(***************************************************************************)
(* array: the elements of nested arrays share the name of the outermost's. *)
(***************************************************************************)
ArrayType(mode) ==
  /\ AtType
  /\ stack' = Append(stack,
       Activation("array", 0,
                  IF Top.depth = 0 THEN Top.name \o <<"elem">> ELSE Top.name,
                  Top.depth + 1, mode, 0))
  /\ UNCHANGED <<defs, bindings, package, result, status>>

(***************************************************************************)
(* A def made on the spot, named by the file or after where it is.         *)
(***************************************************************************)
NestedDef(word, name) ==
  /\ AtType
  /\ EnterBody(word, name, Top.depth)
  /\ UNCHANGED <<bindings, package, result, status>>

-----------------------------------------------------------------------------
(***************************************************************************)
(* Bodies.  The member is pushed first and its type parsed into its slot.  *)
(***************************************************************************)
AddMember(n, kind, mode) ==
  LET d == Top.def
  IN  /\ ~Contains(defs[d].members, n)
      /\ defs' = [defs EXCEPT ![d] =
                    Def(@.name, @.tag, Append(@.members, n),
                        Append(@.refs, Ref(mode, Plain("undefined"))))]
      /\ stack' = Append(stack,
           Activation(kind, d, defs[d].name \o n, 0, mode, Len(defs[d].refs) + 1))

Field(n, mode) ==
  /\ AtBody({"struct", "union"})
  /\ AddMember(n, "field", mode)
  /\ UNCHANGED <<bindings, package, result, status>>

Arg(n) ==
  /\ AtBody({"func"})
  /\ AddMember(n, "arg", "plain")
  /\ UNCHANGED <<bindings, package, result, status>>

\* the depth of the arrays around the func is not reset here
Ret ==
  /\ AtBody({"func"})
  /\ stack' = Append(stack,
       Activation("ret", Top.def, defs[Top.def].name \o <<"ret">>, Top.depth, "plain", 1))
  /\ UNCHANGED <<defs, bindings, package, result, status>>

(***************************************************************************)
(* The loop over a func's body tests for "ret", "args" and the closing     *)
(* token, and reads nothing if it meets anything else.                     *)
(***************************************************************************)
NeitherRetNorArgs ==
  /\ AtBody({"func"})
  /\ status' = "looping"
  /\ UNCHANGED <<defs, bindings, package, stack, result>>

(***************************************************************************)
(* The caller of a finished body gets an alias to its def, or nothing if   *)
(* the def whose type it is parsing is that very def.                      *)
(***************************************************************************)
EndBody ==
  /\ status = "run" /\ result = None /\ stack # <<>> /\ Top.kind \in Bodies
  /\ stack' = Popped
  /\ result' = IF Popped = <<>> THEN None
               ELSE LET caller == Popped[Len(Popped)]
                    IN  IF caller.kind = "typedef" /\ caller.def = Top.def
                        THEN Same ELSE Alias(Top.def)
  /\ UNCHANGED <<defs, bindings, package, items, status>>

-----------------------------------------------------------------------------
(***************************************************************************)
(* What the activation on top does with the type it was waiting for.       *)
(***************************************************************************)
Receiving(kinds) ==
  status = "run" /\ result # None /\ Top.kind \in kinds

ReceiveTypedef ==
  /\ Receiving({"typedef"})
  /\ defs' = IF result = Same THEN defs
             ELSE [defs EXCEPT ![Top.def] =
                     Def(@.name, result.tag, <<>>,
                         IF result.tag \in {"alias", "extern"}
                         THEN <<Ref("plain", result)>> ELSE <<>>)]
  /\ stack' = Popped
  /\ result' = None
  /\ UNCHANGED <<bindings, package, items, status>>

\* Seeded bug: the member's type is parsed into a copy of the member.
ReceiveMemberInCopy ==
  /\ Receiving({"field", "arg", "ret"})
  /\ stack' = Popped
  /\ result' = None
  /\ UNCHANGED <<defs, bindings, package, items, status>>

ReceiveMember ==
  /\ Receiving({"field", "arg", "ret"})
  /\ LET def == defs[Top.def]
         ref == Ref(def.refs[Top.slot].mode, result)
     IN  defs' = [defs EXCEPT ![Top.def] =
                    Def(def.name, def.tag, def.members, [def.refs EXCEPT ![Top.slot] = ref])]
  /\ stack' = Popped
  /\ result' = None
  /\ UNCHANGED <<bindings, package, items, status>>

(***************************************************************************)
(* compiler_get_or_add_array_def: arrays are shared by name.               *)
(***************************************************************************)
ElemName(type) ==
  IF type.tag = "alias" THEN defs[type.to].name ELSE <<type.tag>>

ArrayName(ref) ==
  <<"arrayof">> \o (IF ref.mode = "plain" THEN <<>> ELSE <<ref.mode>>)
                \o ElemName(ref.type)

ReceiveArray ==
  /\ Receiving({"array"})
  /\ LET ref == Ref(Top.mode, result)
         name == ArrayName(ref)
     IN  \/ /\ Find(name) = 0
            /\ defs' = Append(defs, Def(name, "array", <<>>, <<ref>>))
            /\ result' = Alias(Len(defs) + 1)
            /\ UNCHANGED status
         \/ /\ Find(name) # 0 /\ defs[Find(name)].tag = "array"
            /\ result' = Alias(Find(name))
            /\ UNCHANGED <<defs, status>>
         \/ /\ Find(name) # 0 /\ defs[Find(name)].tag # "array"
            /\ status' = "failed"
            /\ UNCHANGED <<defs, result>>
  /\ stack' = Popped
  /\ UNCHANGED <<bindings, package, items>>

Fail ==
  /\ status = "run"
  /\ status' = "failed"
  /\ UNCHANGED <<defs, bindings, package, stack, result, items>>

-----------------------------------------------------------------------------
Init ==
  /\ defs = <<>>
  /\ bindings = <<>>
  /\ package = <<>>
  /\ stack = <<>>
  /\ result = None
  /\ items = 0
  /\ status = "run"

Statement ==
  \/ \E n \in Names : Typedef(n) \/ \E w \in DefWords : NamedDef(w, n)
  \/ \E p \in Packages : Package(p) \/ \E n \in Names : From(p, n)
  \/ EndOfFile

Type ==
  \/ \E n \in Names : Mention(n) \/ MentionFull(n)
  \/ \E t \in PlainTypes : PlainType(Plain(t))
  \/ \E x \in Externs : PlainType(Extern(x))
  \/ \E m \in RefModes : ArrayType(m)
  \/ \E w \in DefWords :
       NestedDef(w, Top.name) \/ \E n \in Names : NestedDef(w, Packaged(n))

Body ==
  \/ \E n \in FieldNames : Arg(n) \/ \E m \in RefModes : Field(n, m)
  \/ Ret \/ NeitherRetNorArgs \/ EndBody

Receive == ReceiveTypedef \/ ReceiveMember \/ ReceiveArray

Step == Statement \/ Type \/ Body \/ Receive \/ Fail

Stopped == status # "run" /\ UNCHANGED vars

Next == Step \/ Stopped

Spec == Init /\ [][Next]_vars
-----------------------------------------------------------------------------
Pointer == 1..Len(defs)

IsTypeValue(type) ==
  \/ type.tag \in PlainTypes \cup {"err", "undefined"}
  \/ type.tag = "extern" /\ type.cname \in Externs
  \/ type.tag = "alias" /\ type.to \in Pointer

(***************************************************************************)
(* Types: in particular every type_def_t pointer the parser holds, in a    *)
(* type, a binding or an activation, is one of compiler->defs.             *)
(***************************************************************************)
TypeOK ==
  /\ \A d \in Pointer :
       /\ Len(defs[d].refs) = Len(defs[d].members) \/ defs[d].members = <<>>
       /\ \A i \in 1..Len(defs[d].refs) : IsTypeValue(defs[d].refs[i].type)
  /\ \A i \in 1..Len(bindings) : bindings[i].def \in Pointer
  /\ \A i \in 1..Len(stack) :
       /\ stack[i].kind \in Awaits \cup Bodies
       /\ stack[i].kind # "array" => stack[i].def \in Pointer
  /\ result \in {None, Same} \/ IsTypeValue(result)
  /\ items \in 0..MaxItems
  /\ status \in {"run", "parsed", "failed", "looping"}

(***************************************************************************)
(* compiler_add_def leaves it to its callers that no def has the name yet; *)
(* compiler_get_def finds the only def of a name, and the only binding.    *)
(***************************************************************************)
NamesUnique ==
  /\ \A i, j \in Pointer : defs[i].name = defs[j].name => i = j
  /\ \A i, j \in 1..Len(bindings) : bindings[i].name = bindings[j].name => i = j

(***************************************************************************)
(* A member's type is parsed through a pointer into the array its def      *)
(* keeps its members in, which moves when a member is pushed.  While the   *)
(* pointer is held no nested def pushes a member to that array or resets   *)
(* it: no def is the business of two bodies, and the slot stays the last.  *)
(***************************************************************************)
MemberPointersHold ==
  /\ \A i, j \in 1..Len(stack) :
       stack[i].kind \in Bodies /\ stack[j].kind \in Bodies
         /\ stack[i].def = stack[j].def => i = j
  /\ \A i \in 1..Len(stack) :
       stack[i].kind \in {"field", "arg"} =>
         /\ stack[i-1].kind = defs[stack[i].def].tag
         /\ stack[i-1].def = stack[i].def
         /\ stack[i].slot = Len(defs[stack[i].def].refs)

(***************************************************************************)
(* What the validator and the sorts assume of a parsed file: a reference   *)
(* is never left without a type, an array has one subtype, an alias one    *)
(* target, and only arrays, structs and unions hold marked references.     *)
(***************************************************************************)
ParsedShape ==
  status = "parsed" => \A d \in Pointer :
    LET def == defs[d]
    IN  /\ \A i \in 1..Len(def.refs) : def.refs[i].type.tag # "undefined"
        /\ def.tag \in {"array", "alias"} => Len(def.refs) = 1
        /\ def.tag = "alias" => def.refs[1].type.tag = "alias"
        /\ def.tag = "func" => Len(def.refs) >= 1
        /\ def.tag \in PlainTypes \cup {"undefined"} => def.refs = <<>>
        /\ def.tag \notin {"array", "struct", "union"} =>
             \A i \in 1..Len(def.refs) : def.refs[i].mode = "plain"

(***************************************************************************)
(* A def is only touched by the statement or the nested type that defines  *)
(* it: once no activation is about it and it has a type, it stays as it is *)
(* whatever is parsed next, and no def is lost, moved or renamed.          *)
(***************************************************************************)
FinishedDefsStay ==
  [][\A d \in Pointer :
       /\ d <= Len(defs') /\ defs'[d].name = defs[d].name
       /\ \/ defs'[d] = defs[d]
          \/ defs[d].tag = "undefined"
          \/ \E i \in 1..Len(stack) : stack[i].def = d]_vars

(***************************************************************************)
(* "can_redef: whether defs can be redefined": it is false, so a def that  *)
(* has a type keeps the kind of type it has.                               *)
(***************************************************************************)
NeverRedefined ==
  [][\A d \in Pointer :
       defs[d].tag # "undefined" => defs'[d].tag = defs[d].tag]_vars

(***************************************************************************)
(* An array def that is shared is the array the file wrote: "equivalent to *)
(* def->u.array_f.subtype_ref".                                            *)
(***************************************************************************)
ArraysEquivalent ==
  Receiving({"array"}) =>
    LET ref == Ref(Top.mode, result)
        found == Find(ArrayName(ref))
    IN  found # 0 /\ defs[found].tag = "array" => defs[found].refs = <<ref>>

(***************************************************************************)
(* A func's body is what the grammar says: "ret" and "args" are read and   *)
(* anything else is refused.                                               *)
(***************************************************************************)
NeverLoops == status # "looping"
=============================================================================
