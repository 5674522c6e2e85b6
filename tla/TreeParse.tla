----------------------------- MODULE TreeParse -----------------------------
(***************************************************************************)
(* tokentree_parse (tokentree.c) as operations on the trees it is in the   *)
(* middle of.  A call that has seen an opening bracket waits for its       *)
(* elements: `building` holds one list of elements per such call, the      *)
(* outermost first.  Which token is next, and getting the one after it, is *)
(* the business of the lexer: whoever uses this module conjoins it.        *)
(***************************************************************************)
EXTENDS Integers, Sequences

VARIABLES building,  \* the elements of the lists that are not closed yet
          tree       \* what the outermost call returns, NoTree until it does

parseVars == <<building, tree>>

LeafTags == {"int", "name", "op", "str"}
Arr(elems) == [tag |-> "arr", elems |-> elems]
NoTree == [tag |-> "undefined"]

ParseBegin == building' = <<>> /\ tree' = NoTree
ParseIdle == building = <<>> /\ tree = NoTree

(***************************************************************************)
(* A call returns t to the call that waits for an element, or to the       *)
(* caller of tokentree_parse; `waiting` are the lists still open then.     *)
(***************************************************************************)
Return(t, waiting) ==
  IF waiting = <<>>
  THEN building' = <<>> /\ tree' = t
  ELSE /\ building' = [waiting EXCEPT ![Len(waiting)] = Append(@, t)]
       /\ UNCHANGED tree

Parsing == tree = NoTree

TakeOpen ==
  /\ Parsing
  /\ building' = Append(building, <<>>)
  /\ UNCHANGED tree

TakeLeaf(t) ==
  /\ Parsing
  /\ Return(t, building)

\* Seeded bug: the list that is closed is dropped if nothing is in it.
TakeCloseOfSome ==
  /\ Parsing /\ building # <<>>
  /\ LET waiting == SubSeq(building, 1, Len(building) - 1)
     IN  IF building[Len(building)] = <<>> /\ waiting # <<>>
         THEN building' = waiting /\ UNCHANGED tree
         ELSE Return(Arr(building[Len(building)]), waiting)

TakeClose ==
  /\ Parsing /\ building # <<>>
  /\ Return(Arr(building[Len(building)]), SubSeq(building, 1, Len(building) - 1))

(***************************************************************************)
(* The tokens no call expects: a closing bracket that closes nothing, and  *)
(* the end before every list is closed.                                    *)
(***************************************************************************)
Unexpected(kind) ==
  /\ Parsing
  /\ kind = "done" \/ (kind = "close" /\ building = <<>>)
=============================================================================
