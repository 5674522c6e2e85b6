----------------------------- MODULE MCDefSort -----------------------------
(***************************************************************************)
(* Instances of DefSort: every relation in which a def has at most         *)
(* MaxKids children (repetitions and self-loops included), over a list of  *)
(* all defs or of two that mention no third.                               *)
(***************************************************************************)
EXTENDS DefSort, SequencesExt

CONSTANTS MaxKids, a, b, c

AllGraphs == [Def -> BoundedSeq(Def, MaxKids)]
SomeOrders == {<<a, b, c>>, <<b, a>>}
NoneOrAll == {{}, Def}
=============================================================================
