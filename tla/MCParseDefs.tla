---------------------------- MODULE MCParseDefs ----------------------------
(***************************************************************************)
(* Instances of ParseDefs.  The names are chosen to meet the ones the      *)
(* parser makes up: a_b is field b of a, and an array of a is arrayof_a,   *)
(* which is also what package arrayof makes of a.                          *)
(***************************************************************************)
EXTENDS ParseDefs

n_a == <<"a">>
n_b == <<"b">>
n_a_b == <<"a", "b">>

SomeNames == {n_a, n_a_b}
SomeFields == {n_a, n_b}
SomePackages == {<<"arrayof">>, <<"", "">>}
OneExtern == {<<"Foo">>}
TwoExterns == {<<"Foo">>, <<"Bar">>}
NoNames == {}
=============================================================================
