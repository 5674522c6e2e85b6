----------------------------- MODULE TreeLexer -----------------------------
(***************************************************************************)
(* The lexer over a tokentree (lexer_load_tokentree, lexer_next_tokentree) *)
(* and tokentree_parse reading from it: `tokentree --reparse` copies every *)
(* tree this way.  The lexer stands at a node, with a frame for every list *)
(* it has gone into, and `kind` tells what it has just returned for it: a  *)
(* list is returned twice, as "open" and as "close".                       *)
(***************************************************************************)
EXTENDS TreeParse

CONSTANT Trees   \* the trees that may be loaded

ASSUME TreesAssumption ==
  \A t \in Trees :
    \/ t.tag \in LeafTags
    \/ /\ t.tag = "arr"
       /\ t = Arr(t.elems)
       /\ t.elems \in Seq(Trees)

VARIABLES root,    \* lexer->loaded_tokentree
          node,    \* lexer->tokentree
          kind,    \* lexer->token_type
          frames   \* lexer->tokentree_frames, the innermost last

treeLexVars == <<root, node, kind, frames>>

KindOf(t) == IF t.tag = "arr" THEN "open" ELSE t.tag

Frame(t, i) == [arr |-> t, i |-> i]
TopFrame == frames[Len(frames)]
Outer == SubSeq(frames, 1, Len(frames) - 1)

MoveTo(t) == node' = t /\ kind' = KindOf(t)

(***************************************************************************)
(* lexer_load_tokentree, which forgets what was loaded before;             *)
(* lexer_loaded; and lexer_cleanup followed by lexer_init.                 *)
(***************************************************************************)
LoadTree(t) ==
  /\ root' = t
  /\ MoveTo(t)
  /\ frames' = <<>>

Loaded == root # NoTree

Unload ==
  /\ root' = NoTree /\ node' = NoTree
  /\ kind' = "done"
  /\ frames' = <<>>

Unloaded == root = NoTree /\ node = NoTree /\ kind = "done" /\ frames = <<>>

-----------------------------------------------------------------------------
(***************************************************************************)
(* lexer_next_tokentree.  An empty list has no first element to go to.     *)
(***************************************************************************)
Enter ==
  /\ kind = "open" /\ node.elems # <<>>
  /\ frames' = Append(frames, Frame(node, 1))
  /\ MoveTo(node.elems[1])

EnterEmpty ==
  /\ kind = "open" /\ node.elems = <<>>
  /\ kind' = "close"
  /\ UNCHANGED <<node, frames>>

\* Seeded bug: the place in the list is not remembered.
IterateInPlace ==
  /\ kind # "open" /\ frames # <<>>
  /\ TopFrame.i < Len(TopFrame.arr.elems)
  /\ MoveTo(TopFrame.arr.elems[TopFrame.i + 1])
  /\ UNCHANGED frames

Iterate ==
  /\ kind # "open" /\ frames # <<>>
  /\ TopFrame.i < Len(TopFrame.arr.elems)
  /\ frames' = Append(Outer, Frame(TopFrame.arr, TopFrame.i + 1))
  /\ MoveTo(TopFrame.arr.elems[TopFrame.i + 1])

\* Seeded bug: the last element is taken for one past the last.
LeaveEarly ==
  /\ kind # "open" /\ frames # <<>>
  /\ TopFrame.i + 1 >= Len(TopFrame.arr.elems)
  /\ frames' = Outer
  /\ node' = TopFrame.arr
  /\ kind' = "close"

Leave ==
  /\ kind # "open" /\ frames # <<>>
  /\ TopFrame.i >= Len(TopFrame.arr.elems)
  /\ frames' = Outer
  /\ node' = TopFrame.arr
  /\ kind' = "close"

(***************************************************************************)
(* The end: lexer->tokentree stays at the last node, so that it is never   *)
(* NULL and the branch for that case is never taken.                       *)
(***************************************************************************)
Finish ==
  /\ kind # "open" /\ frames = <<>>
  /\ kind' = "done"
  /\ UNCHANGED <<node, frames>>

NextToken ==
  /\ Enter \/ EnterEmpty \/ Iterate \/ Leave \/ Finish
  /\ UNCHANGED root

-----------------------------------------------------------------------------
(***************************************************************************)
(* tokentree_parse over this lexer: what is read is taken from the node.   *)
(***************************************************************************)
ReadOpen == kind = "open" /\ TakeOpen /\ NextToken
ReadLeaf == kind \in LeafTags /\ TakeLeaf(node) /\ NextToken
ReadClose == kind = "close" /\ TakeClose /\ NextToken

Read == ReadOpen \/ ReadLeaf \/ ReadClose

(***************************************************************************)
(* A lexer that is loaded with one tree after another, each of them parsed *)
(* (or abandoned) before the next.                                         *)
(***************************************************************************)
ReadInit == Unloaded /\ ParseIdle

StartReading(t) == LoadTree(t) /\ ParseBegin
StopReading == Unload /\ ParseBegin

ReadNext == (\E t \in Trees : StartReading(t)) \/ Read \/ StopReading

ReadSpec == ReadInit /\ [][ReadNext]_<<treeLexVars, parseVars>>
-----------------------------------------------------------------------------
(***************************************************************************)
(* Types of the lexer over a tree: a frame is a list with a place in it.   *)
(***************************************************************************)
TreeLexTypeOK ==
  /\ root \in Trees \/ root = NoTree
  /\ node \in Trees \/ node = NoTree
  /\ kind \in LeafTags \cup {"open", "close", "done"}
  /\ frames \in Seq([arr : Trees, i : Nat])
  /\ building \in Seq(Seq(Trees))
  /\ tree \in Trees \/ tree = NoTree

(***************************************************************************)
(* The frames are the way from the loaded tree down to the node: what the  *)
(* lexer goes back to when it leaves a list.                               *)
(***************************************************************************)
FramesLeadToNode ==
  /\ \A k \in 1..Len(frames) :
       /\ frames[k].arr.tag = "arr"
       /\ frames[k].i \in 1..Len(frames[k].arr.elems)
       /\ frames[k].arr.elems[frames[k].i] =
            IF k = Len(frames) THEN node ELSE frames[k+1].arr
  /\ root = IF frames = <<>> THEN node ELSE frames[1].arr

(***************************************************************************)
(* The parser waits in exactly the lists the lexer is in, and has of each  *)
(* the elements before the place the lexer is at; so it never meets a      *)
(* token it does not expect.                                               *)
(***************************************************************************)
Before(elems, i) == [j \in 1..(i-1) |-> elems[j]]

ParserFollows ==
  Parsing /\ Loaded =>
    /\ ~Unexpected(kind)
    /\ node.tag = IF kind \in {"open", "close"} THEN "arr" ELSE kind
    /\ Len(building) = IF kind = "close" THEN Len(frames) + 1 ELSE Len(frames)
    /\ \A k \in 1..Len(frames) :
         building[k] = Before(frames[k].arr.elems, frames[k].i)
    /\ kind = "close" => building[Len(building)] = node.elems

(***************************************************************************)
(* What is parsed from a tree is that tree (`tokentree --reparse` prints   *)
(* the same as `tokentree`), and the lexer is at its end just then.        *)
(***************************************************************************)
CopyIsSame == ~Parsing => tree = root /\ kind = "done" /\ frames = <<>>
=============================================================================
