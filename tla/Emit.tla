-------------------------------- MODULE Emit --------------------------------
(***************************************************************************)
(* compiler_write.c, as `fusc -a` runs it: the .h file and then the .c     *)
(* file, section by section, each one loop over compiler->defs.  What the  *)
(* C compiler makes of the output is kept as the sets of names it knows so *)
(* far; a use it would reject is added to `faults`.  Of the text only the  *)
(* names, and what is done through them, matter.  A C function is a pair   *)
(* of what it does and whose it is; each has a twin, ..._voidstar, which   *)
(* is written and declared along with it.                                  *)
(***************************************************************************)
EXTENDS TypeGraph

VARIABLES types,     \* types[d]: d's type
          defs,      \* compiler->defs.elems
          section,   \* the loop that is being run, "end" after the last
          at,        \* ARRAY_FOR_PTR over compiler->defs
          typedefs,  \* the defs d whose typedef name d_t is known
          complete,  \* the defs d whose `struct d` has been given its fields
          constants, \* whose constants TYPE_d enum types has, in order
          macros,    \* macros[d]: what d_cleanup is #defined as, if it is
          protos,    \* the functions that have been declared
          table,     \* the entries of the table of types, in order
          bodies,    \* the functions that have been written, in order
          faults     \* what the C compiler complains of

Sections ==
  <<"typedefs", "enums", "structs", "prototypes", "types", "functions", "end">>

NoMacro == "none"
NoCleanup == "(void)"

\* any_t and type_t, which are written before the loop over the defs
Builtins == <<"any", "type">>

OutInit ==
  /\ section = "typedefs"
  /\ at = 1
  /\ typedefs = {} /\ complete = {} /\ protos = {}
  /\ macros = [d \in Def |-> NoMacro]
  /\ constants = <<>> /\ table = <<>> /\ bodies = <<>>
  /\ faults = {}

This == defs[at]
Tag == types[This].tag
AtDef(name) == section = name /\ at <= Len(defs) /\ at' = at + 1 /\ UNCHANGED section

\* Seeded bug: a loop over the defs is begun again when it is done.
NextSectionAgain ==
  /\ section # "end" /\ at > Len(defs)
  /\ at' = 1
  /\ UNCHANGED <<section, typedefs, constants, complete, macros, protos, table, bodies, faults>>

Functions(x) == << <<"parse", x>>, <<"write", x>> >>

Preamble(name) ==
  /\ constants' = IF name = "enums" THEN Builtins ELSE constants
  /\ protos' = IF name = "prototypes"
               THEN {<<"cleanup", "any">>} \cup ToSet(Functions("any") \o Functions("type"))
               ELSE protos
  /\ table' = IF name = "types" THEN Builtins ELSE table
  /\ bodies' = IF name = "functions"
               THEN << <<"cleanup", "any">> >> \o Functions("any") \o Functions("type")
               ELSE bodies

NextSection ==
  /\ section # "end" /\ at > Len(defs)
  /\ \E i \in 1..(Len(Sections) - 1) :
       Sections[i] = section /\ section' = Sections[i + 1]
  /\ at' = 1
  /\ Preamble(section')
  /\ UNCHANGED <<typedefs, complete, macros, faults>>

Blame(kind, missing) == faults' = faults \cup {<<kind, x>> : x \in missing}

-----------------------------------------------------------------------------
(***************************************************************************)
(* typedef struct d d_t;   or   typedef other_t d_t;   or                  *)
(* typedef ret_t d_t(arg_t arg, ...);                                      *)
(***************************************************************************)
DefsNamed(refs) == {r.to : r \in refs} \cap Def

WriteTypedef ==
  /\ AtDef("typedefs")
  /\ typedefs' = IF Tag = "undefined" THEN typedefs ELSE typedefs \cup {This}
  /\ Blame("unknown type",
           IF Tag \in Composite THEN {} ELSE DefsNamed(Refs(types[This])) \ typedefs)
  /\ UNCHANGED <<constants, complete, macros, protos, table, bodies>>

(***************************************************************************)
(* enum types { TYPE_any, TYPE_type, TYPE_d, ... };                        *)
(***************************************************************************)
WriteEnum ==
  /\ AtDef("enums")
  /\ constants' = Append(constants, This)
  /\ UNCHANGED <<typedefs, complete, macros, protos, table, bodies, faults>>

(***************************************************************************)
(* struct d { ... };  A field that is not a pointer needs a complete type; *)
(* an array only ever points to its elements.                              *)
(***************************************************************************)
HeldByValue(refs) ==
  {DefUnalias(types, x) : x \in DefsNamed({r \in refs : RefIsInplace(types, r)})}

Structs(S) == {d \in S : types[d].tag \in Composite}

WriteStruct ==
  /\ AtDef("structs")
  /\ complete' = complete \cup Structs({This})
  /\ faults' = faults
       \cup {<<"unknown type", x>> : x \in
               IF Tag \in Composite THEN DefsNamed(Refs(types[This])) \ typedefs ELSE {}}
       \cup {<<"incomplete type", x>> : x \in
               IF Tag \in {"struct", "union"}
               THEN Structs(HeldByValue(Refs(types[This]))) \ complete ELSE {}}
  /\ UNCHANGED <<typedefs, constants, macros, protos, table, bodies>>

(***************************************************************************)
(* void d_cleanup(d_t *it);   or   #define d_cleanup other_cleanup   or    *)
(* #define d_cleanup (void); and for every def                             *)
(* int d_parse(d_t *it, lexer_t *lexer); int d_write(...);                 *)
(***************************************************************************)
HasCleanup(leaf) == TagHasCleanup(UnaliasTag(types, leaf))

\* Seeded bug: whether an alias has a cleanup is read off its own tag.
WritePrototypesByOwnTag ==
  /\ AtDef("prototypes")
  /\ protos' = protos \cup ToSet(Functions(This))
                 \cup {<<"cleanup", x>> : x \in {x \in {This} : TagHasCleanup(Tag)}}
  /\ macros' = [macros EXCEPT ![This] = IF TagHasCleanup(Tag) THEN @ ELSE NoCleanup]
  /\ Blame("unknown type", {This} \ typedefs)
  /\ UNCHANGED <<typedefs, constants, complete, table, bodies>>

WritePrototypes ==
  /\ AtDef("prototypes")
  /\ LET always == protos \cup ToSet(Functions(This))
     IN  \/ /\ HasCleanup(This) /\ Tag = "alias"
            /\ macros' = [macros EXCEPT ![This] = AliasOf(types, This)]
            /\ protos' = always
         \/ /\ HasCleanup(This) /\ Tag # "alias"
            /\ protos' = always \cup {<<"cleanup", This>>}
            /\ UNCHANGED macros
         \/ /\ ~HasCleanup(This)
            /\ macros' = [macros EXCEPT ![This] = NoCleanup]
            /\ protos' = always
  /\ Blame("unknown type", {This} \ typedefs)
  /\ UNCHANGED <<typedefs, constants, complete, table, bodies>>

(***************************************************************************)
(* What the preprocessor leaves of name_cleanup.                           *)
(***************************************************************************)
Replaced(name) ==
  IF name \in Def /\ macros[name] # NoMacro THEN macros[name] ELSE name

Expanded(name) ==
  LET expand[n \in 0..Cardinality(Def)] ==
        IF n = 0 THEN name ELSE Replaced(expand[n-1])
  IN  expand[Cardinality(Def)]

Undeclared(names) == {x \in names : <<"cleanup", Expanded(x)>> \notin protos}

(***************************************************************************)
(* The table of types: .cleanup = &d_cleanup_voidstar, or NULL; .parse,    *)
(* .write                                                                  *)
(***************************************************************************)
WriteTypeDefinition ==
  /\ AtDef("types")
  /\ table' = Append(table, This)
  /\ Blame("undeclared", Undeclared({x \in {This} : HasCleanup(x)})
                           \cup (ToSet(Functions(This)) \ protos))
  /\ UNCHANGED <<typedefs, constants, complete, macros, protos, bodies>>

(***************************************************************************)
(* void d_cleanup(d_t *it) { other_cleanup(&it->field); ... memset }       *)
(* and the functions d_parse and d_write, whose bodies are empty           *)
(***************************************************************************)
Owned(d) ==
  {r.to : r \in {r \in Refs(types[d]) : r.mode # "weakref" /\ HasCleanup(r.to)}}

\* Seeded bug: an alias gets a body too, under the name its macro replaces.
WriteFunctionsOfAliases ==
  /\ AtDef("functions")
  /\ bodies' = bodies \o (IF HasCleanup(This) THEN << <<"cleanup", This>> >> ELSE <<>>)
                      \o Functions(This)
  /\ UNCHANGED <<typedefs, constants, complete, macros, protos, table, faults>>

WriteFunctions ==
  /\ AtDef("functions")
  /\ \/ /\ TagHasCleanup(Tag)
        /\ bodies' = bodies \o << <<"cleanup", This>> >> \o Functions(This)
        /\ faults' = faults
             \cup {<<"undeclared", x>> : x \in Undeclared(Owned(This))}
             \cup {<<"incomplete type", x>> : x \in
                     (Structs({This} \cup HeldByValue(Refs(types[This]))) \ complete)}
     \/ /\ ~TagHasCleanup(Tag)
        /\ bodies' = bodies \o Functions(This)
        /\ UNCHANGED faults
  /\ UNCHANGED <<typedefs, constants, complete, macros, protos, table>>

Write ==
  \/ WriteTypedef \/ WriteEnum \/ WriteStruct \/ WritePrototypes
  \/ WriteTypeDefinition \/ WriteFunctions
  \/ NextSection
=============================================================================
