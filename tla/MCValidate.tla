---------------------------- MODULE MCValidate ----------------------------
(***************************************************************************)
(* Three defs.  The first takes every type of at most two references and   *)
(* every kind of single reference; the others, single references to defs.  *)
(* All are in the list, or two that mention no third.                      *)
(***************************************************************************)
EXTENDS Validate

CONSTANTS a, b, c

T(tag, refs) == [tag |-> tag, refs |-> refs]
R(mode, to) == [mode |-> mode, to |-> to]

FewRefs == {R(m, x) : m \in {"plain", "inplace"}, x \in Def}
AllRefs == {R(m, x) : m \in Modes, x \in Def \cup {"int", "any", "extern"}}

Leaves ==
  {T("undefined", <<>>), T("any", <<>>), T("extern", <<>>),
   T("func", <<R("plain", "int")>>)}
   \cup {T("alias", <<R("plain", x)>>) : x \in Def}

Small ==
  Leaves \cup {T("struct", <<>>)}
         \cup {T(tag, <<r>>) : tag \in {"array", "struct"}, r \in FewRefs}
Big ==
  Leaves \cup {T(tag, <<r>>) : tag \in {"array", "union"}, r \in AllRefs}
         \cup {T("struct", <<r, s>>) : r \in FewRefs, s \in FewRefs}

SomePrograms == {p \in [Def -> Small \cup Big] :
                   p[a] \in Big /\ p[b] \in Small /\ p[c] \in Small}
SomeOrders == {<<a, b, c>>, <<a, b>>}
============================================================================
