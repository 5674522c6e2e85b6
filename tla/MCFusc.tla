------------------------------- MODULE MCFusc -------------------------------
(***************************************************************************)
(* Three defs, given in one file or split over two.  There are too many    *)
(* programs over every shape of type, so two families are taken: one with  *)
(* the shapes that close cycles or break rules, for the passes, and one    *)
(* with the shapes that are held, aliased or cleaned up, for the output.   *)
(* In both the first def takes the most shapes.                            *)
(***************************************************************************)
EXTENDS Fusc

CONSTANTS a, b, c

T(tag, refs) == [tag |-> tag, refs |-> refs]
R(mode, to) == [mode |-> mode, to |-> to]

Plain(S) == {R("plain", x) : x \in S}
Held == {R("inplace", x) : x \in Def}
Weak == {R("weakref", x) : x \in Def}
HeldOrNot == Plain(Def) \cup Held

Aliases == {T("alias", <<r>>) : r \in Plain(Def)}
Arrays(refs) == {T("array", <<r>>) : r \in refs}
Structs(refs) == {T("struct", <<r>>) : r \in refs}
Unions(R1, R2) == {T("union", <<r, s>>) : r \in R1, s \in R2}
Funcs(R1, R2) == {T("func", <<r, s>>) : r \in R1, s \in R2}

-----------------------------------------------------------------------------
Passed ==
  {T("any", <<>>)} \cup Aliases
  \cup Funcs(Plain(Def \cup {"void"}), Plain({"int"}))
  \cup Arrays(HeldOrNot) \cup Structs(HeldOrNot)
EveryPassed ==
  Passed \cup {T("undefined", <<>>)} \cup Structs(Weak) \cup Unions(HeldOrNot, Held)

Written ==
  {T("any", <<>>), T("int", <<>>), T("struct", <<>>)} \cup Aliases
  \cup Arrays(Plain(Def)) \cup Structs(Plain(Def \cup {"any"}) \cup Held)
EveryWritten ==
  Written \cup Funcs(Plain(Def \cup {"err"}), Plain(Def))
          \cup Unions(HeldOrNot \cup Weak, Held)

IsFunc(t) == t.tag = "func"

SomePrograms ==
  {p \in [Def -> EveryPassed] :
     p[b] \in Passed /\ p[c] \in Passed /\ ~IsFunc(p[c])}
  \cup {p \in [Def -> EveryWritten] : p[b] \in Written /\ p[c] \in Written}
Order3 == <<a, b, c>>
=============================================================================
