-------------------------- MODULE TokentreeProofs --------------------------
(***************************************************************************)
(* Proofs about the program tokentree.                                     *)
(*                                                                         *)
(* First of the lexer's other mode, which reads a tree (TreeLexer), for    *)
(* every set of trees.  Then of the whole program, for every text the      *)
(* first file may hold, every number of indents the lexer has room for and *)
(* every size of a chunk.  What the program builds are trees of any size,  *)
(* so that these theorems are about Trees = AllTrees.  The sections are:   *)
(* flattened sequences; trees; folds; what is spelled; the last of a list; *)
(* the writer's layout; the lexer; the tokens taken; the trees they make;  *)
(* what is printed; and the invariant of the program with what it implies. *)
(***************************************************************************)
EXTENDS Tokentree, Loops, SequenceTheorems

(***************************************************************************)
(* What a tree may be, and what the lexer returns when it comes to it.     *)
(***************************************************************************)
LEMMA ListFacts ==
  ASSUME NEW t \in Trees, t.tag = "arr"
  PROVE  t.elems \in Seq(Trees) /\ t = Arr(t.elems)
  BY TreesAssumption DEF LeafTags

LEMMA KindFacts ==
  ASSUME NEW t \in Trees
  PROVE  /\ KindOf(t) \in LeafTags \cup {"open"}
         /\ t.tag = IF KindOf(t) = "open" THEN "arr" ELSE KindOf(t)
         /\ t # NoTree
<1>1. t.tag \in LeafTags \/ t.tag = "arr"
  BY TreesAssumption
<1>2. NoTree.tag = "undefined"
  BY DEF NoTree
<1> QED
  BY <1>1, <1>2 DEF KindOf, LeafTags

(***************************************************************************)
(* The elements before a place grow by the one at that place, and are the  *)
(* whole list after the last.                                              *)
(***************************************************************************)
LEMMA BeforeFacts ==
  ASSUME NEW elems \in Seq(Trees)
  PROVE  /\ Before(elems, 1) = <<>>
         /\ Before(elems, Len(elems) + 1) = elems
         /\ \A i \in 1..Len(elems) :
              Append(Before(elems, i), elems[i]) = Before(elems, i + 1)
<1>1. Len(elems) \in Nat /\ elems = [j \in 1..Len(elems) |-> elems[j]]
  BY LenProperties
<1>2. Before(elems, 1) = <<>>
  <2>1. 1..(1-1) = {}
    OBVIOUS
  <2> QED
    BY <2>1 DEF Before
<1>3. Before(elems, Len(elems) + 1) = elems
  <2>1. (Len(elems) + 1) - 1 = Len(elems)
    BY <1>1
  <2> QED
    BY <1>1, <2>1 DEF Before
<1>4. ASSUME NEW i \in 1..Len(elems)
      PROVE  Append(Before(elems, i), elems[i]) = Before(elems, i + 1)
  <2> DEFINE b == Before(elems, i)
  <2>1. i \in Nat \ {0} /\ i - 1 \in Nat /\ (i + 1) - 1 = i
    BY <1>1
  <2>2. b \in Seq(Trees) /\ Len(b) = i - 1 /\ \A j \in 1..(i-1) : b[j] = elems[j]
    BY <1>1, <2>1 DEF Before
  <2>3. /\ Append(b, elems[i]) \in Seq(Trees)
        /\ Len(Append(b, elems[i])) = i
        /\ \A j \in 1..i : Append(b, elems[i])[j] = elems[j]
    <3> HIDE DEF b
    <3>1. elems[i] \in Trees
      BY ElementOfSeq
    <3>2. /\ Append(b, elems[i]) \in Seq(Trees)
          /\ Len(Append(b, elems[i])) = Len(b) + 1
          /\ \A j \in 1..Len(b) : Append(b, elems[i])[j] = b[j]
          /\ Append(b, elems[i])[Len(b) + 1] = elems[i]
      BY <2>2, <3>1, AppendProperties
    <3> QED
      BY <2>1, <2>2, <3>2
  <2>4. /\ Before(elems, i + 1) \in Seq(Trees)
        /\ Len(Before(elems, i + 1)) = i
        /\ \A j \in 1..i : Before(elems, i + 1)[j] = elems[j]
    BY <1>1, <2>1 DEF Before
  <2> HIDE DEF b
  <2>5. Append(b, elems[i]) = Before(elems, i + 1)
    BY <2>1, <2>3, <2>4, SeqEqual
  <2> QED
    BY <2>5 DEF b
<1> QED
  BY <1>2, <1>3, <1>4

-----------------------------------------------------------------------------
(***************************************************************************)
(* What the steps keep: the run's invariants, and that a lexer without a   *)
(* tree is as lexer_init left it.                                          *)
(***************************************************************************)
Inv ==
  /\ TreeLexTypeOK /\ FramesLeadToNode /\ ParserFollows /\ CopyIsSame
  /\ ~Loaded => Unloaded /\ ParseIdle

LEMMA InitInv == ReadInit => Inv
  BY EmptySeq DEF ReadInit, Unloaded, ParseIdle, Inv, TreeLexTypeOK, FramesLeadToNode,
     ParserFollows, CopyIsSame, Loaded, Parsing

LEMMA StartInv ==
  ASSUME NEW t \in Trees, StartReading(t)
  PROVE  Inv'
<1>1. /\ root' = t /\ node' = t /\ kind' = KindOf(t)
      /\ frames' = <<>> /\ building' = <<>> /\ tree' = NoTree
  BY DEF StartReading, LoadTree, MoveTo, ParseBegin
<1>2. KindOf(t) \in LeafTags \cup {"open"} /\ t # NoTree
      /\ t.tag = IF KindOf(t) = "open" THEN "arr" ELSE KindOf(t)
  BY KindFacts
<1>3. TreeLexTypeOK'
  BY <1>1, <1>2 DEF TreeLexTypeOK
<1>4. FramesLeadToNode'
  BY <1>1 DEF FramesLeadToNode
<1>5. ParserFollows'
  BY <1>1, <1>2 DEF ParserFollows, Unexpected, Parsing, LeafTags
<1> QED
  BY <1>1, <1>2, <1>3, <1>4, <1>5 DEF Inv, CopyIsSame, Parsing, Loaded

LEMMA StopInv ==
  ASSUME StopReading
  PROVE  Inv'
  BY EmptySeq DEF StopReading, Unload, ParseBegin, Unloaded, ParseIdle, Inv, TreeLexTypeOK,
     FramesLeadToNode, ParserFollows, CopyIsSame, Loaded, Parsing

-----------------------------------------------------------------------------
(***************************************************************************)
(* A token is only taken while a tree is loaded and being parsed, and the  *)
(* lexer is then at a node of that tree.                                   *)
(***************************************************************************)
LEMMA AtNode ==
  ASSUME Inv, Parsing, kind # "done"
  PROVE  /\ Loaded /\ node \in Trees /\ root \in Trees
         /\ kind \in LeafTags \cup {"open", "close"}
         /\ node.tag = IF kind \in {"open", "close"} THEN "arr" ELSE kind
         /\ Len(building) = IF kind = "close" THEN Len(frames) + 1 ELSE Len(frames)
         /\ \A k \in 1..Len(frames) :
              building[k] = Before(frames[k].arr.elems, frames[k].i)
         /\ kind = "close" => building[Len(building)] = node.elems
<1>1. Loaded
  BY DEF Inv, Unloaded
<1>2. kind \in LeafTags \cup {"open", "close"}
  BY DEF Inv, TreeLexTypeOK
<1>3. node.tag = IF kind \in {"open", "close"} THEN "arr" ELSE kind
  BY <1>1 DEF Inv, ParserFollows
<1>4. node # NoTree
  <2>1. NoTree.tag = "undefined"
    BY DEF NoTree
  <2> QED
    BY <1>2, <1>3, <2>1 DEF LeafTags
<1>5. node \in Trees /\ root \in Trees
  BY <1>1, <1>4 DEF Inv, TreeLexTypeOK, Loaded
<1> QED
  BY <1>1, <1>2, <1>3, <1>5 DEF Inv, ParserFollows

(***************************************************************************)
(* An opening bracket: the parser waits in one more list, of which it has  *)
(* nothing, and the lexer goes to its first element or stays at its end.   *)
(***************************************************************************)
LEMMA OpenInv ==
  ASSUME Inv, ReadOpen
  PROVE  Inv'
<1> DEFINE n == Len(frames)
<1>1. /\ kind = "open" /\ Parsing /\ (Enter \/ EnterEmpty) /\ root' = root
      /\ building' = Append(building, <<>>) /\ tree' = tree
  BY DEF ReadOpen, TakeOpen, NextToken, Iterate, Leave, Finish
<1>2. /\ Loaded /\ node \in Trees /\ root \in Trees /\ node.tag = "arr"
      /\ Len(building) = n
      /\ \A k \in 1..n : building[k] = Before(frames[k].arr.elems, frames[k].i)
  BY <1>1, AtNode
<1>3. node.elems \in Seq(Trees)
  BY <1>2, ListFacts
<1>4. /\ frames \in Seq([arr : Trees, i : Nat]) /\ n \in Nat
      /\ building \in Seq(Seq(Trees)) /\ tree = NoTree /\ tree' = NoTree
  BY <1>1 DEF Inv, TreeLexTypeOK, Parsing
<1>5. /\ building' \in Seq(Seq(Trees)) /\ Len(building') = n + 1
      /\ \A k \in 1..n : building'[k] = building[k]
      /\ building'[n + 1] = <<>>
  <2>1. <<>> \in Seq(Trees)
    BY EmptySeq
  <2> QED
    BY <1>1, <1>2, <1>4, <2>1, AppendProperties
<1> HIDE DEF n
<1>6. CASE Enter
  <2> DEFINE new == Frame(node, 1)
  <2>1. /\ node.elems # <<>> /\ frames' = Append(frames, new)
        /\ node' = node.elems[1] /\ kind' = KindOf(node')
    BY <1>6 DEF Enter, MoveTo
  <2>2. 1 \in 1..Len(node.elems) /\ node' \in Trees
    BY <1>3, <2>1, EmptySeq, ElementOfSeq
  <2>3. new \in [arr : Trees, i : Nat] /\ new.arr = node /\ new.i = 1
    BY <1>2 DEF Frame
  <2> HIDE DEF new
  <2>4. /\ frames' \in Seq([arr : Trees, i : Nat])
        /\ Len(frames') = n + 1 /\ frames' # <<>>
        /\ \A k \in 1..n : frames'[k] = frames[k]
        /\ frames'[n + 1] = new
    BY <1>4, <2>1, <2>3, AppendProperties DEF n
  <2>5. /\ kind' \in LeafTags \cup {"open"} /\ node' # NoTree
        /\ node'.tag = IF kind' = "open" THEN "arr" ELSE kind'
    BY <2>1, <2>2, KindFacts
  <2>6. TreeLexTypeOK'
    BY <1>1, <1>2, <1>4, <1>5, <2>2, <2>4, <2>5 DEF TreeLexTypeOK
  <2>7. FramesLeadToNode'
    <3>1. frames = <<>> => n = 0 /\ root = node
      BY DEF Inv, FramesLeadToNode, n
    <3>2. frames # <<>> => n # 0 /\ root = frames[1].arr
      BY <1>4, EmptySeq DEF Inv, FramesLeadToNode, n
    <3>3. ASSUME NEW k \in 1..Len(frames')
          PROVE  /\ frames'[k].arr.tag = "arr"
                 /\ frames'[k].i \in 1..Len(frames'[k].arr.elems)
                 /\ frames'[k].arr.elems[frames'[k].i] =
                      IF k = Len(frames') THEN node' ELSE frames'[k+1].arr
      <4>1. CASE k = n + 1
        BY <1>2, <2>1, <2>2, <2>3, <2>4, <4>1
      <4>2. CASE k # n + 1
        <5>1. k \in 1..n /\ frames'[k] = frames[k]
          BY <1>4, <2>4, <4>2
        <5>2. /\ frames[k].arr.tag = "arr"
              /\ frames[k].i \in 1..Len(frames[k].arr.elems)
              /\ frames[k].arr.elems[frames[k].i] =
                   IF k = n THEN node ELSE frames[k+1].arr
          BY <5>1 DEF Inv, FramesLeadToNode, n
        <5>3. frames'[k+1].arr = IF k = n THEN node ELSE frames[k+1].arr
          BY <1>4, <2>3, <2>4, <5>1
        <5> QED
          BY <2>4, <4>2, <5>1, <5>2, <5>3
      <4> QED
        BY <4>1, <4>2
    <3>4. root' = frames'[1].arr
      <4>1. CASE n = 0
        BY <1>1, <1>4, <2>3, <2>4, <3>1, <3>2, <4>1
      <4>2. CASE n # 0
        BY <1>1, <1>4, <2>4, <3>1, <3>2, <4>2
      <4> QED
        BY <4>1, <4>2
    <3> QED
      BY <2>4, <3>3, <3>4 DEF FramesLeadToNode
  <2>8. ParserFollows'
    <3>1. ASSUME NEW k \in 1..Len(frames')
          PROVE  building'[k] = Before(frames'[k].arr.elems, frames'[k].i)
      <4>1. CASE k = n + 1
        BY <1>3, <1>5, <2>3, <2>4, <4>1, BeforeFacts
      <4>2. CASE k # n + 1
        <5>1. k \in 1..n
          BY <1>4, <2>4, <4>2
        <5>2. building'[k] = building[k] /\ frames'[k] = frames[k]
          BY <1>5, <2>4, <5>1
        <5> QED
          BY <1>2, <5>1, <5>2
      <4> QED
        BY <4>1, <4>2
    <3>2. kind' # "done" /\ kind' # "close"
      BY <2>5 DEF LeafTags
    <3> QED
      BY <1>4, <1>5, <2>4, <2>5, <3>1, <3>2 DEF ParserFollows, Unexpected
  <2> QED
    BY <1>1, <1>2, <1>4, <2>6, <2>7, <2>8 DEF Inv, CopyIsSame, Parsing, Loaded
<1>7. CASE EnterEmpty
  <2>1. node.elems = <<>> /\ kind' = "close" /\ node' = node /\ frames' = frames
    BY <1>7 DEF EnterEmpty
  <2>2. TreeLexTypeOK'
    BY <1>1, <1>2, <1>4, <1>5, <2>1 DEF TreeLexTypeOK
  <2>3. FramesLeadToNode'
    BY <1>1, <2>1 DEF Inv, FramesLeadToNode
  <2>4. ParserFollows'
    BY <1>2, <1>4, <1>5, <2>1, EmptySeq DEF ParserFollows, Unexpected, n
  <2> QED
    BY <1>1, <1>2, <1>4, <2>2, <2>3, <2>4 DEF Inv, CopyIsSame, Parsing, Loaded
<1> QED
  BY <1>1, <1>6, <1>7

(***************************************************************************)
(* The node is given to the parser, which has then of each of the lists it *)
(* waits in the elements up to the lexer's place; the lexer moves on.      *)
(***************************************************************************)
LEMMA ReturnInv ==
  ASSUME Inv, Parsing, kind \notin {"open", "done"},
         NEW waiting \in Seq(Seq(Trees)), Len(waiting) = Len(frames),
         \A k \in 1..Len(frames) :
           waiting[k] = Before(frames[k].arr.elems, frames[k].i),
         Return(node, waiting), NextToken
  PROVE  Inv'
<1> DEFINE n == Len(frames)
<1>1. Loaded /\ node \in Trees /\ root \in Trees
  BY AtNode
<1>2. /\ frames \in Seq([arr : Trees, i : Nat]) /\ n \in Nat
      /\ tree = NoTree /\ root' = root
  BY DEF Inv, TreeLexTypeOK, Parsing, NextToken
<1>3. CASE Finish
  <2>1. /\ frames = <<>> /\ frames' = <<>> /\ node' = node /\ kind' = "done"
        /\ root = node
    BY <1>3 DEF Finish, Inv, FramesLeadToNode
  <2>2. waiting = <<>>
    BY <2>1, EmptySeq
  <2>3. building' = <<>> /\ tree' = node /\ tree' # NoTree
    BY <1>1, <2>2, KindFacts DEF Return
  <2> QED
    BY <1>1, <1>2, <2>1, <2>3, EmptySeq
       DEF Inv, TreeLexTypeOK, FramesLeadToNode, ParserFollows, CopyIsSame, Parsing, Loaded
<1>4. CASE Iterate \/ Leave
  <2> DEFINE top == frames[n]
             elems == top.arr.elems
             grown == Append(waiting[n], node)
  <2>1. /\ frames # <<>> /\ n \in Nat \ {0} /\ n \in 1..n /\ TopFrame = top
    BY <1>2, <1>4, EmptySeq DEF Iterate, Leave, TopFrame
  <2>2. /\ top \in [arr : Trees, i : Nat]
        /\ top.arr \in Trees /\ top.arr.tag = "arr"
        /\ top.i \in 1..Len(elems) /\ elems[top.i] = node
        /\ elems \in Seq(Trees)
    <3>1. top \in [arr : Trees, i : Nat]
      BY <1>2, <2>1, ElementOfSeq
    <3>2. top.arr.tag = "arr" /\ top.i \in 1..Len(elems) /\ elems[top.i] = node
      BY <2>1 DEF Inv, FramesLeadToNode
    <3> QED
      BY <3>1, <3>2, ListFacts
  <2>3. grown = Before(elems, top.i + 1) /\ grown \in Seq(Trees)
    <3>1. waiting[n] = Before(elems, top.i) /\ waiting[n] \in Seq(Trees)
      BY <2>1, ElementOfSeq
    <3>2. Append(Before(elems, top.i), elems[top.i]) = Before(elems, top.i + 1)
      BY <2>2, BeforeFacts
    <3>3. grown \in Seq(Trees)
      BY <1>1, <3>1, AppendProperties
    <3> QED
      BY <2>2, <3>1, <3>2, <3>3
  <2>4. /\ building' \in Seq(Seq(Trees)) /\ Len(building') = n
        /\ \A k \in 1..n : building'[k] = IF k = n THEN grown ELSE waiting[k]
        /\ tree' = NoTree
    <3>1. waiting # <<>>
      BY <2>1, EmptySeq
    <3>2. building' = [waiting EXCEPT ![n] = grown] /\ tree' = tree
      BY <3>1 DEF Return
    <3> HIDE DEF grown, n
    <3> QED
      BY <1>2, <2>1, <2>3, <3>2, ExceptSeq DEF n
  <2>5. /\ Outer \in Seq([arr : Trees, i : Nat]) /\ Len(Outer) = n - 1
        /\ \A k \in 1..(n-1) : Outer[k] = frames[k]
    <3>1. n - 1 \in Int /\ \A k \in 1..(n-1) : frames[k] \in [arr : Trees, i : Nat]
      <4>1. ASSUME NEW k \in 1..(n-1) PROVE k \in 1..Len(frames)
        BY <1>2
      <4>2. \A k \in 1..Len(frames) : frames[k] \in [arr : Trees, i : Nat]
        BY <1>2, ElementOfSeq
      <4>3. n - 1 \in Int
        BY <1>2
      <4> HIDE DEF n
      <4> QED
        BY <4>1, <4>2, <4>3
    <3> HIDE DEF n
    <3> QED
      BY <2>1, <3>1, SubSeqProperties DEF Outer, n
  <2> HIDE DEF n, top, elems, grown
  <2>6. CASE Iterate
    <3> DEFINE new == Frame(top.arr, top.i + 1)
    <3>1. /\ top.i < Len(elems) /\ frames' = Append(Outer, new)
          /\ node' = elems[top.i + 1] /\ kind' = KindOf(node')
      BY <2>1, <2>6 DEF Iterate, MoveTo, elems
    <3>2. top.i + 1 \in 1..Len(elems) /\ node' \in Trees
      BY <2>2, <3>1, ElementOfSeq
    <3>3. new \in [arr : Trees, i : Nat] /\ new.arr = top.arr /\ new.i = top.i + 1
      BY <2>2 DEF Frame
    <3> HIDE DEF new
    <3>4. /\ frames' \in Seq([arr : Trees, i : Nat])
          /\ Len(frames') = n /\ frames' # <<>>
          /\ \A k \in 1..(n-1) : frames'[k] = frames[k]
          /\ frames'[n] = new
      BY <2>1, <2>5, <3>1, <3>3, AppendProperties
    <3>5. /\ kind' \in LeafTags \cup {"open"} /\ node' # NoTree
          /\ node'.tag = IF kind' = "open" THEN "arr" ELSE kind'
      BY <3>1, <3>2, KindFacts
    <3>6. TreeLexTypeOK'
      BY <1>1, <1>2, <2>4, <3>2, <3>4, <3>5 DEF TreeLexTypeOK
    <3>7. \A k \in 1..n : frames'[k].arr = frames[k].arr
      <4>1. ASSUME NEW k \in 1..n PROVE k = n \/ k \in 1..(n-1)
        BY <2>1
      <4> QED
        BY <3>3, <3>4, <4>1 DEF top
    <3>8. FramesLeadToNode'
      <4>1. ASSUME NEW k \in 1..n
            PROVE  /\ frames'[k].arr.tag = "arr"
                   /\ frames'[k].i \in 1..Len(frames'[k].arr.elems)
                   /\ frames'[k].arr.elems[frames'[k].i] =
                        IF k = n THEN node' ELSE frames'[k+1].arr
        <5>1. CASE k = n
          BY <2>2, <3>1, <3>2, <3>3, <3>4, <5>1 DEF elems
        <5>2. CASE k # n
          <6>1. k \in 1..(n-1) /\ k + 1 \in 1..n
            BY <2>1, <5>2
          <6>2. frames'[k] = frames[k] /\ frames'[k+1].arr = frames[k+1].arr
            BY <3>4, <3>7, <6>1
          <6> QED
            BY <5>2, <6>2 DEF Inv, FramesLeadToNode, n
        <5> QED
          BY <5>1, <5>2
      <4>2. root' = frames'[1].arr
        BY <1>2, <2>1, <3>7 DEF Inv, FramesLeadToNode
      <4> QED
        BY <3>4, <4>1, <4>2 DEF FramesLeadToNode
    <3>9. ParserFollows'
      <4>1. ASSUME NEW k \in 1..n
            PROVE  building'[k] = Before(frames'[k].arr.elems, frames'[k].i)
        <5>1. CASE k = n
          BY <2>1, <2>3, <2>4, <3>3, <3>4, <5>1 DEF elems
        <5>2. CASE k # n
          <6>1. k \in 1..(n-1)
            BY <2>1, <5>2
          <6>2. frames'[k] = frames[k] /\ building'[k] = waiting[k]
            BY <2>4, <3>4, <5>2, <6>1
          <6> QED
            BY <6>2 DEF n
        <5> QED
          BY <5>1, <5>2
      <4>2. kind' # "done" /\ kind' # "close"
        BY <3>5 DEF LeafTags
      <4> QED
        BY <2>4, <3>4, <3>5, <4>1, <4>2 DEF ParserFollows, Unexpected
    <3> QED
      BY <1>1, <1>2, <2>4, <3>6, <3>8, <3>9 DEF Inv, CopyIsSame, Parsing, Loaded
  <2>7. CASE Leave
    <3>1. /\ top.i >= Len(elems) /\ frames' = Outer
          /\ node' = top.arr /\ kind' = "close"
      BY <2>1, <2>7 DEF Leave, elems
    <3>2. top.i = Len(elems) /\ grown = elems
      <4>1. top.i = Len(elems)
        BY <2>2, <3>1
      <4> QED
        BY <2>2, <2>3, <4>1, BeforeFacts
    <3>3. TreeLexTypeOK'
      BY <1>1, <1>2, <2>2, <2>4, <2>5, <3>1 DEF TreeLexTypeOK
    <3>4. FramesLeadToNode'
      <4>1. ASSUME NEW k \in 1..(n-1)
            PROVE  /\ Outer[k].arr.tag = "arr"
                   /\ Outer[k].i \in 1..Len(Outer[k].arr.elems)
                   /\ Outer[k].arr.elems[Outer[k].i] =
                        IF k = n - 1 THEN top.arr ELSE Outer[k+1].arr
        <5>1. Outer[k] = frames[k] /\ (k # n - 1 => Outer[k+1] = frames[k+1])
          BY <2>1, <2>5
        <5>2. k \in 1..n /\ k # n /\ (k = n - 1 => k + 1 = n)
          BY <2>1
        <5> QED
          BY <5>1, <5>2 DEF Inv, FramesLeadToNode, n, top
      <4>2. root' = IF Outer = <<>> THEN top.arr ELSE Outer[1].arr
        <5>1. Outer = <<>> => n = 1
          BY <2>1, <2>5, EmptySeq
        <5>2. Outer # <<>> => 1 \in 1..(n-1)
          BY <2>1, <2>5, EmptySeq
        <5>3. root = frames[1].arr
          BY <2>1 DEF Inv, FramesLeadToNode
        <5> QED
          BY <1>2, <2>5, <5>1, <5>2, <5>3 DEF top
      <4> QED
        BY <2>5, <3>1, <4>1, <4>2 DEF FramesLeadToNode
    <3>5. ParserFollows'
      <4>1. ASSUME NEW k \in 1..(n-1)
            PROVE  building'[k] = Before(Outer[k].arr.elems, Outer[k].i)
        <5>1. k \in 1..n /\ k # n
          BY <2>1
        <5> QED
          BY <2>4, <2>5, <5>1 DEF n
      <4>2. Len(building') = Len(Outer) + 1 /\ building'[n] = top.arr.elems
        BY <2>1, <2>4, <2>5, <3>2 DEF elems
      <4>3. building' # <<>>
        BY <2>1, <2>4, EmptySeq
      <4> QED
        BY <2>2, <2>4, <2>5, <3>1, <4>1, <4>2, <4>3 DEF ParserFollows, Unexpected
    <3> QED
      BY <1>1, <1>2, <2>4, <3>3, <3>4, <3>5 DEF Inv, CopyIsSame, Parsing, Loaded
  <2> QED
    BY <1>4, <2>6, <2>7
<1> QED
  BY <1>3, <1>4 DEF NextToken, Enter, EnterEmpty

LEMMA LeafInv ==
  ASSUME Inv, ReadLeaf
  PROVE  Inv'
<1>1. kind \in LeafTags /\ Parsing /\ Return(node, building) /\ NextToken
  BY DEF ReadLeaf, TakeLeaf
<1>2. kind \notin {"open", "close", "done"}
  BY <1>1 DEF LeafTags
<1>3. building \in Seq(Seq(Trees))
  BY DEF Inv, TreeLexTypeOK
<1>4. /\ Len(building) = Len(frames)
      /\ \A k \in 1..Len(frames) :
           building[k] = Before(frames[k].arr.elems, frames[k].i)
  BY <1>1, <1>2, AtNode
<1> QED
  BY <1>1, <1>2, <1>3, <1>4, ReturnInv

(***************************************************************************)
(* A closing bracket: the list that is closed is the node.                 *)
(***************************************************************************)
LEMMA CloseInv ==
  ASSUME Inv, ReadClose
  PROVE  Inv'
<1> DEFINE waiting == SubSeq(building, 1, Len(building) - 1)
<1>1. /\ kind = "close" /\ Parsing /\ NextToken
      /\ Return(Arr(building[Len(building)]), waiting)
  BY DEF ReadClose, TakeClose
<1>2. /\ node \in Trees /\ node.tag = "arr"
      /\ Len(building) = Len(frames) + 1
      /\ \A k \in 1..Len(frames) :
           building[k] = Before(frames[k].arr.elems, frames[k].i)
      /\ building[Len(building)] = node.elems
  BY <1>1, AtNode
<1>3. Arr(building[Len(building)]) = node
  BY <1>2, ListFacts
<1>4. /\ building \in Seq(Seq(Trees)) /\ Len(frames) \in Nat
      /\ Len(building) - 1 = Len(frames)
  BY <1>2 DEF Inv, TreeLexTypeOK
<1>5. /\ waiting \in Seq(Seq(Trees)) /\ Len(waiting) = Len(frames)
      /\ \A k \in 1..Len(frames) : waiting[k] = building[k]
  <2>1. \A k \in 1..Len(frames) : k \in 1..Len(building)
    BY <1>2, <1>4
  <2>2. \A k \in 1..Len(frames) : building[k] \in Seq(Trees)
    BY <1>4, <2>1, ElementOfSeq
  <2> QED
    BY <1>4, <2>2, SubSeqProperties
<1> HIDE DEF waiting
<1> QED
  BY <1>1, <1>2, <1>3, <1>5, ReturnInv

-----------------------------------------------------------------------------
LEMMA ReadInvariant == ReadSpec => []Inv
<1>1. Inv /\ [ReadNext]_<<treeLexVars, parseVars>> => Inv'
  <2> SUFFICES ASSUME Inv, [ReadNext]_<<treeLexVars, parseVars>> PROVE Inv'
    OBVIOUS
  <2>1. ASSUME NEW t \in Trees, StartReading(t) PROVE Inv'
    BY <2>1, StartInv
  <2>2. CASE StopReading
    BY <2>2, StopInv
  <2>3. CASE ReadOpen
    BY <2>3, OpenInv
  <2>4. CASE ReadLeaf
    BY <2>4, LeafInv
  <2>5. CASE ReadClose
    BY <2>5, CloseInv
  <2>6. CASE UNCHANGED <<treeLexVars, parseVars>>
    BY <2>6 DEF treeLexVars, parseVars, Inv, TreeLexTypeOK, FramesLeadToNode,
       ParserFollows, Unexpected, CopyIsSame, Loaded, Unloaded, ParseIdle, Parsing
  <2> QED
    BY <2>1, <2>2, <2>3, <2>4, <2>5, <2>6 DEF ReadNext, Read
<1> QED
  BY <1>1, InitInv, PTL DEF ReadSpec

(***************************************************************************)
(* Whatever trees are loaded, one after another, finished or abandoned:    *)
(* the state of the lexer and the parser keeps its types (every node is a  *)
(* tree, every frame a place in a list),                                   *)
(***************************************************************************)
THEOREM TreeLexTypeCorrect == ReadSpec => []TreeLexTypeOK
  BY ReadInvariant, PTL DEF Inv

(***************************************************************************)
(* the frames lead from the loaded tree to the node,                       *)
(***************************************************************************)
THEOREM FramesLead == ReadSpec => []FramesLeadToNode
  BY ReadInvariant, PTL DEF Inv

(***************************************************************************)
(* the parser is where the lexer is, so that tokentree_parse never meets a *)
(* token it refuses,                                                       *)
(***************************************************************************)
THEOREM ParserKeepsUp == ReadSpec => []ParserFollows
  BY ReadInvariant, PTL DEF Inv

(***************************************************************************)
(* and what it returns is the tree that was loaded.                        *)
(***************************************************************************)
THEOREM CopyCorrect == ReadSpec => []CopyIsSame
  BY ReadInvariant, PTL DEF Inv

-----------------------------------------------------------------------------
(***************************************************************************)
(* Sequences are joined in any order.                                      *)
(***************************************************************************)
LEMMA Regroup ==
  ASSUME NEW A, NEW a \in Seq(A), NEW b \in Seq(A), NEW c \in Seq(A)
  PROVE  (a \o b) \o c = a \o (b \o c)
  BY ConcatAssociative

(***************************************************************************)
(* What FlattenSeq computes, sequence by sequence.                         *)
(***************************************************************************)
Flattening(r, s) ==
  r[0] = <<>> /\ \A n \in 1..Len(s) : r[n] = r[n-1] \o s[n]

LEMMA FlatteningExists ==
  ASSUME NEW A, NEW s \in Seq(Seq(A))
  PROVE  \E r \in [0..Len(s) -> Seq(A)] : Flattening(r, s)
<1> DEFINE N == Len(s)
           B == Seq(A)
           none == <<>>
           step == [n \in 1..N |-> [a \in B |-> a \o s[n]]]
<1>1. N \in Nat /\ (\A n \in 1..N : s[n] \in B) /\ none \in B
  BY LenProperties, ElementOfSeq
<1>2. step \in [1..N -> [B -> B]]
  <2>1. \A n \in 1..N : \A a \in B : a \o s[n] \in B
    BY <1>1, ConcatProperties
  <2> HIDE DEF N, B
  <2> QED
    BY <2>1
<1>3. PICK r \in [0..N -> B] : r[0] = none /\ \A n \in 1..N : r[n] = step[n][r[n-1]]
  <2> HIDE DEF step, N, B, none
  <2>1. Steps(B, none, N, step)
    BY <1>1, <1>2 DEF Steps
  <2>2. PICK r : RunOf(B, none, N, step, r)
    BY <2>1, StepsRun
  <2> QED
    BY <2>2 DEF RunOf
<1>4. ASSUME NEW n \in 1..N PROVE r[n] = r[n-1] \o s[n]
  <2>1. n - 1 \in 0..N
    BY <1>1
  <2>2. r[n-1] \in B
    BY <2>1, <1>3
  <2> QED
    BY <1>3, <2>2
<1> QED
  BY <1>3, <1>4 DEF Flattening

LEMMA FlattenIs ==
  ASSUME NEW A, NEW s \in Seq(Seq(A)), NEW r, Flattening(r, s)
  PROVE  FlattenSeq(s) = r[Len(s)]
<1> DEFINE N == Len(s)
           Flattens(f) == f = [i \in 1..N |-> IF i = 1 THEN s[i] ELSE f[i-1] \o s[i]]
           flatten == CHOOSE f : Flattens(f)
<1>0. N \in Nat
  OBVIOUS
<1>1. CASE N = 0
  <2>1. s = <<>>
    BY <1>1, EmptySeq
  <2> QED
    BY <1>1, <2>1 DEF FlattenSeq, Flattening
<1>2. CASE N # 0
  <2>1. FlattenSeq(s) = flatten[N]
    BY <1>2 DEF FlattenSeq
  <2>2. PICK q \in [0..N -> Seq(A)] : Flattening(q, s)
    BY FlatteningExists
  <2>3. q[1] = s[1]
    <3>1. 1 \in 1..N
      BY <1>0, <1>2
    <3>2. q[0] = <<>> /\ \A n \in 1..N : q[n] = q[n-1] \o s[n]
      BY <2>2 DEF Flattening
    <3>3. q[1] = q[0] \o s[1]
      <4>1. 1 - 1 = 0
        OBVIOUS
      <4> QED
        BY <3>1, <3>2, <4>1
    <3>4. s[1] \in Seq(A)
      BY <3>1, ElementOfSeq
    <3> QED
      BY <3>2, <3>3, <3>4, ConcatEmptySeq
  <2>4. Flattens([i \in 1..N |-> q[i]])
    <3> DEFINE p == [i \in 1..N |-> q[i]]
    <3>1. ASSUME NEW i \in 1..N PROVE p[i] = IF i = 1 THEN s[i] ELSE p[i-1] \o s[i]
      <4>1. i # 1 => i - 1 \in 1..N
        BY <1>0
      <4>2. q[i] = q[i-1] \o s[i]
        BY <2>2 DEF Flattening
      <4> QED
        BY <2>3, <4>1, <4>2
    <3> QED
      BY <3>1
  <2>5. Flattens(flatten)
    BY <2>4
  <2> HIDE DEF flatten
  <2> DEFINE f == [i \in 0..N |-> IF i = 0 THEN <<>> ELSE flatten[i]]
  <2>6. ASSUME NEW i \in 1..N, f[i-1] = q[i-1] PROVE f[i] = q[i]
    <3>1. q[i] = q[i-1] \o s[i]
      BY <2>2 DEF Flattening
    <3>2. i \in 0..N /\ i # 0 /\ i - 1 \in 0..N /\ (i # 1 => i - 1 # 0)
      BY <1>0
    <3>3. f[i] = flatten[i] /\ (i # 1 => f[i-1] = flatten[i-1])
      BY <3>2
    <3>4. flatten[i] = IF i = 1 THEN s[i] ELSE flatten[i-1] \o s[i]
      <4>1. flatten = [j \in 1..N |-> IF j = 1 THEN s[j] ELSE flatten[j-1] \o s[j]]
        BY <2>5
      <4> QED
        BY <4>1
    <3> HIDE DEF f
    <3> QED
      BY <2>3, <2>6, <3>1, <3>3, <3>4
  <2>7. f[0] = q[0] /\ f[N] = flatten[N]
    BY <1>0, <1>2, <2>2 DEF Flattening
  <2>8. \A i \in 0..N : f[i] = q[i]
    <3> HIDE DEF f, N
    <3>1. Alike(N, f, q)
      BY <1>0, <2>6, <2>7 DEF Alike
    <3> QED
      BY <3>1, AlikeAgree
  <2>9. \A i \in 0..N : r[i] = q[i]
    <3>1. r[0] = q[0] /\ \A i \in 1..N : r[i-1] = q[i-1] => r[i] = q[i]
      BY <2>2 DEF Flattening
    <3> HIDE DEF N
    <3>2. Alike(N, r, q)
      BY <1>0, <3>1 DEF Alike
    <3> QED
      BY <3>2, AlikeAgree
  <2>10. N \in 0..N
    BY <1>0
  <2> HIDE DEF f
  <2> QED
    BY <2>1, <2>7, <2>8, <2>9, <2>10
<1> QED
  BY <1>1, <1>2

(***************************************************************************)
(* It grows at the end with the sequence, and by its head at the front.    *)
(***************************************************************************)
LEMMA FlattenFacts ==
  ASSUME NEW A, NEW s \in Seq(Seq(A))
  PROVE  /\ FlattenSeq(s) \in Seq(A)
         /\ s = <<>> => FlattenSeq(s) = <<>>
         /\ \A x \in Seq(A) : FlattenSeq(Append(s, x)) = FlattenSeq(s) \o x
<1>0. Len(s) \in Nat
  OBVIOUS
<1>1. PICK r \in [0..Len(s) -> Seq(A)] : Flattening(r, s)
  BY FlatteningExists
<1>2. FlattenSeq(s) = r[Len(s)]
  BY <1>1, FlattenIs
<1>3. r[Len(s)] \in Seq(A)
  BY <1>0
<1>4. s = <<>> => FlattenSeq(s) = <<>>
  BY DEF FlattenSeq
<1>5. ASSUME NEW x \in Seq(A) PROVE FlattenSeq(Append(s, x)) = FlattenSeq(s) \o x
  <2> DEFINE t == Append(s, x)
  <2>1. /\ t \in Seq(Seq(A)) /\ Len(t) = Len(s) + 1
        /\ \A n \in 1..Len(s) : t[n] = s[n]
        /\ t[Len(s) + 1] = x
    BY AppendProperties
  <2> HIDE DEF t
  <2>2. PICK q \in [0..Len(t) -> Seq(A)] : Flattening(q, t)
    BY <2>1, FlatteningExists
  <2>3. FlattenSeq(t) = q[Len(t)]
    BY <2>1, <2>2, FlattenIs
  <2>4. Flattening(q, s)
    <3>1. \A n \in 1..Len(s) : n \in 1..Len(t)
      BY <1>0, <2>1
    <3> QED
      BY <2>1, <2>2, <3>1 DEF Flattening
  <2>5. FlattenSeq(s) = q[Len(s)]
    BY <2>4, FlattenIs
  <2>6. q[Len(s) + 1] = q[Len(s)] \o x
    <3>1. Len(s) + 1 \in 1..Len(t) /\ (Len(s) + 1) - 1 = Len(s)
      BY <1>0, <2>1
    <3> QED
      BY <2>1, <2>2, <3>1 DEF Flattening
  <2> QED
    BY <2>1, <2>3, <2>5, <2>6 DEF t
<1> QED
  BY <1>2, <1>3, <1>4, <1>5

LEMMA FlattenCons ==
  ASSUME NEW A, NEW s \in Seq(Seq(A)), s # <<>>
  PROVE  FlattenSeq(s) = Head(s) \o FlattenSeq(Tail(s))
<1> DEFINE t == Tail(s)
           N == Len(t)
<1>1. /\ Len(s) \in Nat \ {0} /\ t \in Seq(Seq(A)) /\ N = Len(s) - 1 /\ Head(s) = s[1]
      /\ s[1] \in Seq(A)
      /\ \A n \in 1..N : t[n] = s[n+1] /\ t[n] \in Seq(A)
  <2>1. Len(s) \in Nat \ {0} /\ 1 \in 1..Len(s)
    BY EmptySeq
  <2>2. t \in Seq(Seq(A)) /\ N = Len(s) - 1 /\ \A n \in 1..N : t[n] = s[n+1]
    BY HeadTailProperties
  <2>3. \A n \in 1..N : t[n] \in Seq(A)
    BY <2>2, ElementOfSeq
  <2> QED
    BY <2>1, <2>2, <2>3, ElementOfSeq
<1>2. PICK r \in [0..Len(s) -> Seq(A)] : Flattening(r, s)
  BY FlatteningExists
<1>3. PICK q \in [0..Len(t) -> Seq(A)] : Flattening(q, t)
  BY <1>1, FlatteningExists
<1> HIDE DEF t, N
<1> DEFINE f == [n \in 0..N |-> r[n+1]]
           g == [n \in 0..N |-> s[1] \o q[n]]
<1>4. f[0] = g[0]
  <2>1. 1 \in 1..Len(s) /\ 0 \in 0..N
    BY <1>1
  <2>2. r[1] = r[0] \o s[1] /\ r[0] = <<>> /\ q[0] = <<>> /\ 0 + 1 = 1
    <3>1. r[0] = <<>> /\ q[0] = <<>> /\ \A n \in 1..Len(s) : r[n] = r[n-1] \o s[n]
      BY <1>2, <1>3 DEF Flattening
    <3>2. 1 - 1 = 0 /\ 0 + 1 = 1
      OBVIOUS
    <3> QED
      BY <2>1, <3>1, <3>2
  <2>3. <<>> \o s[1] = s[1] /\ s[1] \o <<>> = s[1]
    BY <1>1, ConcatEmptySeq
  <2> QED
    BY <2>1, <2>2, <2>3
<1>5. ASSUME NEW n \in 1..N, f[n-1] = g[n-1] PROVE f[n] = g[n]
  <2>1. n \in 0..N /\ n - 1 \in 0..N /\ (n - 1) + 1 = n /\ n + 1 \in 1..Len(s) /\ (n + 1) - 1 = n
        /\ n \in 1..Len(t)
    BY <1>1 DEF N
  <2>2. r[n+1] = r[n] \o s[n+1] /\ q[n] = q[n-1] \o t[n]
    BY <1>2, <1>3, <2>1 DEF Flattening
  <2>3. r[n] = s[1] \o q[n-1]
    BY <1>5, <2>1
  <2>4. q[n-1] \in Seq(A)
    BY <1>3, <2>1 DEF N
  <2>5. (s[1] \o q[n-1]) \o t[n] = s[1] \o (q[n-1] \o t[n])
    <3>1. t[n] \in Seq(A)
      BY <1>1
    <3>2. \A a, b, c \in Seq(A) : (a \o b) \o c = a \o (b \o c)
      BY ONLY Regroup
    <3> QED
      BY <1>1, <2>4, <3>1, <3>2
  <2> QED
    BY <1>1, <2>1, <2>2, <2>3, <2>5
<1>6. N \in Nat /\ N \in 0..N /\ N + 1 = Len(s)
  BY <1>1
<1>7. f[N] = g[N]
  <2> HIDE DEF f, g
  <2>0. \A n \in 1..N : f[n-1] = g[n-1] => f[n] = g[n]
    BY <1>5
  <2>1. \A n \in 0..N : f[n] = g[n]
    <3>1. Alike(N, f, g)
      BY <1>4, <1>6, <2>0 DEF Alike
    <3> QED
      BY <3>1, AlikeAgree
  <2> QED
    BY <1>6, <2>1
<1>8. FlattenSeq(s) = r[Len(s)] /\ FlattenSeq(t) = q[Len(t)]
  BY <1>1, <1>2, <1>3, FlattenIs
<1> QED
  BY <1>1, <1>6, <1>7, <1>8 DEF t, N
(***************************************************************************)
(* What comes of the elements of a sequence, one by one.                   *)
(***************************************************************************)
Mapped(F, s) == [i \in DOMAIN s |-> F[s[i]]]

Maps(T, B, F, s) == F \in [T -> B] /\ s \in Seq(T)

LEMMA MapFacts ==
  ASSUME NEW T, NEW B, NEW F, NEW s, Maps(T, B, F, s)
  PROVE  /\ Mapped(F, s) \in Seq(B) /\ Len(Mapped(F, s)) = Len(s)
         /\ s = <<>> => Mapped(F, s) = <<>>
         /\ \A x \in T : Mapped(F, Append(s, x)) = Append(Mapped(F, s), F[x])
         /\ s # <<>> => /\ Mapped(F, s) # <<>> /\ Head(Mapped(F, s)) = F[Head(s)]
                        /\ Tail(Mapped(F, s)) = Mapped(F, Tail(s))
<1>0. F \in [T -> B] /\ s \in Seq(T)
  BY DEF Maps
<1> USE <1>0
<1>1. ASSUME NEW q \in Seq(T)
      PROVE  /\ Mapped(F, q) \in Seq(B) /\ Len(Mapped(F, q)) = Len(q) /\ Len(q) \in Nat
             /\ DOMAIN q = 1..Len(q)
             /\ \A i \in 1..Len(q) : q[i] \in T /\ Mapped(F, q)[i] = F[q[i]]
  <2>1. Len(q) \in Nat /\ DOMAIN q = 1..Len(q) /\ \A i \in 1..Len(q) : q[i] \in T
    BY ElementOfSeq
  <2>2. Mapped(F, q) = [i \in 1..Len(q) |-> F[q[i]]]
    BY <2>1 DEF Mapped
  <2>3. Mapped(F, q) \in [1..Len(q) -> B]
    BY <2>1, <2>2
  <2> QED
    BY <2>1, <2>2, <2>3
<1>2. s = <<>> => Mapped(F, s) = <<>>
  BY DEF Mapped
<1>3. ASSUME NEW x \in T PROVE Mapped(F, Append(s, x)) = Append(Mapped(F, s), F[x])
  <2> DEFINE t == Append(s, x)
             m == Mapped(F, s)
             l == Mapped(F, t)
             r == Append(m, F[x])
  <2>1. /\ t \in Seq(T) /\ Len(t) = Len(s) + 1 /\ t[Len(s) + 1] = x
        /\ \A i \in 1..Len(s) : t[i] = s[i]
    BY AppendProperties
  <2>2. /\ m \in Seq(B) /\ Len(m) = Len(s) /\ Len(s) \in Nat
        /\ \A i \in 1..Len(s) : m[i] = F[s[i]]
    BY <1>1
  <2>3. /\ r \in Seq(B) /\ Len(r) = Len(s) + 1 /\ r[Len(s) + 1] = F[x]
        /\ \A i \in 1..Len(s) : r[i] = F[s[i]]
    <3> HIDE DEF m
    <3> QED
      BY <2>2, AppendProperties
  <2> HIDE DEF t
  <2>4. l \in Seq(B) /\ Len(l) = Len(s) + 1 /\ \A i \in 1..(Len(s) + 1) : l[i] = F[t[i]]
    BY <1>1, <2>1
  <2>5. \A i \in 1..(Len(s) + 1) : i = Len(s) + 1 \/ i \in 1..Len(s)
    BY <2>2
  <2> HIDE DEF m, l, r
  <2>6. \A i \in 1..(Len(s) + 1) : l[i] = r[i]
    BY <2>1, <2>3, <2>4, <2>5
  <2>7. l = r
    BY <2>3, <2>4, <2>6, SeqEqual
  <2> QED
    BY <2>7 DEF l, r, m, t
<1>4. ASSUME s # <<>>
      PROVE  /\ Mapped(F, s) # <<>> /\ Head(Mapped(F, s)) = F[Head(s)]
             /\ Tail(Mapped(F, s)) = Mapped(F, Tail(s))
  <2> DEFINE m == Mapped(F, s)
             l == Tail(m)
             r == Mapped(F, Tail(s))
  <2>1. /\ m \in Seq(B) /\ Len(m) = Len(s) /\ Len(s) \in Nat
        /\ \A i \in 1..Len(s) : m[i] = F[s[i]]
    BY <1>1
  <2>2. Len(s) # 0 /\ 1 \in 1..Len(s)
    BY <1>4, EmptySeq
  <2> HIDE DEF m
  <2>3. m # <<>>
    BY <2>1, <2>2
  <2>4. Head(m) = m[1] /\ Head(s) = s[1]
    BY <1>4, <2>1, <2>3
  <2>5. /\ l \in Seq(B) /\ Len(l) = Len(s) - 1
        /\ \A i \in 1..(Len(s) - 1) : l[i] = m[i+1] /\ i + 1 \in 1..Len(s)
    BY <2>1, <2>3, HeadTailProperties
  <2>6. /\ Tail(s) \in Seq(T) /\ Len(Tail(s)) = Len(s) - 1
        /\ \A i \in 1..(Len(s) - 1) : Tail(s)[i] = s[i+1]
    BY <1>4, HeadTailProperties
  <2>7. r \in Seq(B) /\ Len(r) = Len(s) - 1 /\ \A i \in 1..(Len(s) - 1) : r[i] = F[Tail(s)[i]]
    BY <1>1, <2>6
  <2> HIDE DEF l, r
  <2>8. \A i \in 1..(Len(s) - 1) : l[i] = r[i]
    BY <2>1, <2>5, <2>6, <2>7
  <2>9. l = r
    BY <2>5, <2>7, <2>8, SeqEqual
  <2> QED
    BY <2>1, <2>2, <2>3, <2>4, <2>9 DEF l, r, m
<1>5. Mapped(F, s) \in Seq(B) /\ Len(Mapped(F, s)) = Len(s)
  BY <1>1
<1> QED
  BY <1>2, <1>3, <1>4, <1>5

-----------------------------------------------------------------------------
(***************************************************************************)
(* The trees there are: leaves, and lists of trees, lists in lists to any  *)
(* depth.                                                                  *)
(***************************************************************************)
Leaves ==
  {IntLeaf(i) : i \in Int} \cup
  {StringLeaf(kd, i) : kd \in {"name", "op", "str"}, i \in Nat \ {0}}

LeavesAndLists(S) == Leaves \cup {Arr(f) : f \in Seq(S)}

TreesTo[n \in Nat] == IF n = 0 THEN Leaves ELSE LeavesAndLists(TreesTo[n-1])

AllTrees == UNION {TreesTo[n] : n \in Nat}

LEMMA LeafFacts ==
  ASSUME NEW t \in Leaves
  PROVE  /\ t.tag \in LeafTags /\ t.tag # "arr"
         /\ t.tag # "int" => t.tag \in {"name", "op", "str"} /\ t = StringLeaf(t.tag, t.str)
                             /\ t.str \in Nat \ {0}
         /\ t.tag = "int" => t = IntLeaf(t.int) /\ t.int \in Int
  BY DEF Leaves, IntLeaf, StringLeaf, LeafTags

LEMMA ArrFacts ==
  ASSUME NEW f
  PROVE  Arr(f).tag = "arr" /\ Arr(f).elems = f /\ Arr(f) \notin Leaves
<1>1. Arr(f).tag = "arr" /\ Arr(f).elems = f
  BY DEF Arr
<1> QED
  BY <1>1, LeafFacts

LEMMA TreesToIs ==
  \A n \in Nat : TreesTo[n] = IF n = 0 THEN Leaves ELSE LeavesAndLists(TreesTo[n-1])
<1> DEFINE IsRun(n, f) == f = [k \in 0..n |-> IF k = 0 THEN Leaves ELSE LeavesAndLists(f[k-1])]
           R(n) == CHOOSE f : IsRun(n, f)
           Levels(f) == f = [n \in Nat |-> IF n = 0 THEN Leaves ELSE LeavesAndLists(f[n-1])]
           g == [n \in Nat |-> R(n)[n]]
<1>1. ASSUME NEW N \in Nat PROVE \E f : IsRun(N, f)
  <2> DEFINE S == {n \in 0..N : \E f : IsRun(n, f)}
  <2>1. 0 \in S
    <3> DEFINE f == [k \in 0..0 |-> Leaves]
    <3>1. IsRun(0, f)
      OBVIOUS
    <3> HIDE DEF IsRun, f
    <3> QED
      BY <3>1
  <2>2. ASSUME NEW n \in 1..N, n - 1 \in S PROVE n \in S
    <3>1. PICK f : IsRun(n - 1, f)
      BY <2>2
    <3> DEFINE e == [k \in 0..n |-> IF k = n THEN LeavesAndLists(f[n-1]) ELSE f[k]]
    <3>2. ASSUME NEW k \in 0..n
          PROVE  e[k] = IF k = 0 THEN Leaves ELSE LeavesAndLists(e[k-1])
      <4>1. CASE k = n
        <5>1. n # 0 /\ n - 1 \in 0..n /\ n - 1 # n
          OBVIOUS
        <5> QED
          BY <4>1, <5>1
      <4>2. CASE k # n
        <5>1. k \in 0..(n-1) /\ (k # 0 => k - 1 \in 0..n /\ k - 1 # n)
          BY <4>2
        <5>2. f[k] = IF k = 0 THEN Leaves ELSE LeavesAndLists(f[k-1])
          BY <3>1, <5>1
        <5> QED
          BY <4>2, <5>1, <5>2
      <4> QED
        BY <4>1, <4>2
    <3>3. IsRun(n, e)
      <4>1. e = [k \in 0..n |-> e[k]]
        OBVIOUS
      <4> HIDE DEF e
      <4> QED
        BY <3>2, <4>1
    <3> HIDE DEF IsRun, e
    <3> QED
      BY <3>3
  <2>3. 0..N \subseteq S
    <3> HIDE DEF S
    <3> QED
      BY <2>1, <2>2, PassedOn
  <2>4. N \in S
    <3>1. N \in 0..N
      OBVIOUS
    <3> QED
      BY <2>3, <3>1
  <2> QED
    BY <2>4
<1>2. ASSUME NEW n \in Nat
      PROVE  \A k \in 0..n : R(n)[k] = IF k = 0 THEN Leaves ELSE LeavesAndLists(R(n)[k-1])
  <2>1. IsRun(n, R(n))
    BY <1>1
  <2> HIDE DEF R
  <2> QED
    BY <2>1
<1>3. ASSUME NEW n \in Nat PROVE g[n] = IF n = 0 THEN Leaves ELSE LeavesAndLists(g[n-1])
  <2>1. CASE n = 0
    <3>1. R(0)[0] = Leaves
      <4>1. 0 \in 0..0
        OBVIOUS
      <4> HIDE DEF R
      <4> QED
        BY <1>2, <4>1
    <3> HIDE DEF R
    <3> QED
      BY <2>1, <3>1
  <2>2. CASE n # 0
    <3> DEFINE r == R(n)
               q == R(n-1)
               m == n - 1
    <3>0. m \in Nat
      BY <2>2
    <3>1. /\ \A k \in 0..n : r[k] = IF k = 0 THEN Leaves ELSE LeavesAndLists(r[k-1])
          /\ \A k \in 0..m : q[k] = IF k = 0 THEN Leaves ELSE LeavesAndLists(q[k-1])
      BY <1>2, <3>0
    <3>2. g[n] = r[n] /\ g[m] = q[m]
      BY <3>0
    <3> HIDE DEF R, r, q, g
    <3>3. Alike(m, r, q)
      BY <2>2, <3>0, <3>1 DEF Alike
    <3>4. r[m] = q[m]
      <4>1. m \in 0..m
        BY <3>0
      <4> HIDE DEF m
      <4> QED
        BY <3>3, <4>1, AlikeAgree
    <3>5. n \in 0..n
      OBVIOUS
    <3> QED
      BY <2>2, <3>1, <3>2, <3>4, <3>5
  <2> QED
    BY <2>1, <2>2
<1>4. Levels(g)
  <2>1. g = [n \in Nat |-> g[n]]
    OBVIOUS
  <2> HIDE DEF g
  <2> QED
    BY <1>3, <2>1
<1>5. TreesTo = CHOOSE f : Levels(f)
  BY DEF TreesTo
<1>6. Levels(TreesTo)
  <2> HIDE DEF g, Levels
  <2> QED
    BY <1>4, <1>5
<1> QED
  BY <1>6

(***************************************************************************)
(* A list of trees is a tree, and every tree but a leaf is the list of     *)
(* others that are less high.                                              *)
(***************************************************************************)
LEMMA TreesGrow ==
  ASSUME NEW n \in Nat, NEW m \in Nat, n <= m
  PROVE  TreesTo[n] \subseteq TreesTo[m]
<1> DEFINE S == {k \in 0..(m-n) : /\ TreesTo[n] \subseteq TreesTo[n+k]
                                  /\ TreesTo[n+k] \subseteq TreesTo[n+k+1]}
<1>1. ASSUME NEW U, NEW V, U \subseteq V PROVE LeavesAndLists(U) \subseteq LeavesAndLists(V)
  <2>1. \A f \in Seq(U) : f \in Seq(V)
    BY <1>1, SeqMonotonic
  <2> QED
    BY <2>1 DEF LeavesAndLists
<1>2. \A k \in Nat : Leaves \subseteq TreesTo[k]
  BY TreesToIs DEF LeavesAndLists
<1>3. \A k \in Nat : TreesTo[k+1] = LeavesAndLists(TreesTo[k])
  <2>1. \A k \in Nat : k + 1 \in Nat /\ k + 1 # 0 /\ (k + 1) - 1 = k
    OBVIOUS
  <2> QED
    BY <2>1, TreesToIs
<1>4. ASSUME NEW N \in Nat PROVE TreesTo[N] \subseteq TreesTo[N+1]
  <2> DEFINE P == {k \in 0..N : TreesTo[k] \subseteq TreesTo[k+1]}
  <2>1. 0 \in P
    <3>1. TreesTo[0] = Leaves /\ 0 + 1 \in Nat
      BY TreesToIs
    <3> QED
      BY <1>2, <3>1
  <2>2. ASSUME NEW k \in 1..N, k - 1 \in P PROVE k \in P
    <3>1. k - 1 \in Nat /\ k \in Nat /\ (k - 1) + 1 = k
      OBVIOUS
    <3>2. TreesTo[k] = LeavesAndLists(TreesTo[k-1]) /\ TreesTo[k+1] = LeavesAndLists(TreesTo[k])
      BY <1>3, <3>1
    <3>3. TreesTo[k-1] \subseteq TreesTo[k]
      BY <2>2, <3>1
    <3>4. LeavesAndLists(TreesTo[k-1]) \subseteq LeavesAndLists(TreesTo[k])
      BY <1>1, <3>3
    <3> QED
      BY <3>2, <3>4
  <2>3. 0..N \subseteq P
    <3> HIDE DEF P
    <3> QED
      BY <2>1, <2>2, PassedOn
  <2>4. N \in 0..N
    OBVIOUS
  <2> QED
    BY <2>3, <2>4
<1>5. m - n \in Nat /\ m - n \in 0..(m-n) /\ n + (m - n) = m
  OBVIOUS
<1>6. 0 \in S
  <2>1. n + 0 = n /\ n + 0 + 1 = n + 1 /\ 0 \in 0..(m-n)
    BY <1>5
  <2> QED
    BY <1>4, <2>1
<1>7. ASSUME NEW k \in 1..(m-n), k - 1 \in S PROVE k \in S
  <2>1. n + k \in Nat /\ n + (k - 1) + 1 = n + k /\ k \in 0..(m-n)
    BY <1>5
  <2> QED
    BY <1>4, <1>7, <2>1
<1>8. 0..(m-n) \subseteq S
  <2> HIDE DEF S
  <2> QED
    BY <1>5, <1>6, <1>7, PassedOn
<1> QED
  BY <1>5, <1>8

LEMMA TreeFacts ==
  /\ Leaves \subseteq AllTrees
  /\ \A f \in Seq(AllTrees) : Arr(f) \in AllTrees
  /\ \A t \in AllTrees : t \in Leaves \/ (t = Arr(t.elems) /\ t.elems \in Seq(AllTrees))
<1>0. \A n \in Nat : TreesTo[n] \subseteq AllTrees
  BY DEF AllTrees
<1>1. Leaves \subseteq AllTrees
  <2>1. TreesTo[0] = Leaves
    BY TreesToIs
  <2> QED
    BY <1>0, <2>1
<1>2. ASSUME NEW f \in Seq(AllTrees) PROVE Arr(f) \in AllTrees
  <2> DEFINE S == {k \in 0..Len(f) : \E n \in Nat : \A i \in 1..k : f[i] \in TreesTo[n]}
  <2>0. Len(f) \in Nat /\ \A i \in 1..Len(f) : f[i] \in AllTrees
    BY ElementOfSeq
  <2>1. 0 \in S
    <3>1. \A i \in 1..0 : f[i] \in TreesTo[0]
      OBVIOUS
    <3> QED
      BY <2>0, <3>1
  <2>2. ASSUME NEW k \in 1..Len(f), k - 1 \in S PROVE k \in S
    <3>1. PICK n \in Nat : \A i \in 1..(k-1) : f[i] \in TreesTo[n]
      BY <2>2
    <3>2. PICK m \in Nat : f[k] \in TreesTo[m]
      BY <2>0 DEF AllTrees
    <3> DEFINE l == IF n <= m THEN m ELSE n
    <3>3. l \in Nat /\ n <= l /\ m <= l
      OBVIOUS
    <3> HIDE DEF l
    <3>4. TreesTo[n] \subseteq TreesTo[l] /\ TreesTo[m] \subseteq TreesTo[l]
      BY <3>3, TreesGrow
    <3>5. \A i \in 1..k : i = k \/ i \in 1..(k-1)
      OBVIOUS
    <3>6. \A i \in 1..k : f[i] \in TreesTo[l]
      BY <3>1, <3>2, <3>4, <3>5
    <3>7. k \in 0..Len(f)
      BY <2>0
    <3> QED
      BY <3>3, <3>6, <3>7
  <2>3. 0..Len(f) \subseteq S
    <3> HIDE DEF S
    <3> QED
      BY <2>0, <2>1, <2>2, PassedOn
  <2>4. PICK n \in Nat : \A i \in 1..Len(f) : f[i] \in TreesTo[n]
    <3>1. Len(f) \in 0..Len(f)
      BY <2>0
    <3>2. Len(f) \in S
      <4> HIDE DEF S
      <4> QED
        BY <2>3, <3>1
    <3> QED
      BY <3>2
  <2>5. f \in Seq(TreesTo[n])
    <3>1. f = [i \in 1..Len(f) |-> f[i]]
      BY LenProperties
    <3> QED
      BY <2>0, <2>4, <3>1, IsASeq
  <2>6. TreesTo[n+1] = LeavesAndLists(TreesTo[n])
    <3>1. n + 1 \in Nat /\ n + 1 # 0 /\ (n + 1) - 1 = n
      OBVIOUS
    <3> QED
      BY <3>1, TreesToIs
  <2>7. Arr(f) \in TreesTo[n+1] /\ n + 1 \in Nat
    BY <2>5, <2>6 DEF LeavesAndLists
  <2> QED
    BY <1>0, <2>7
<1>3. ASSUME NEW t \in AllTrees, t \notin Leaves
      PROVE  t = Arr(t.elems) /\ t.elems \in Seq(AllTrees)
  <2>1. PICK n \in Nat : t \in TreesTo[n]
    BY DEF AllTrees
  <2>2. n # 0 /\ t \in LeavesAndLists(TreesTo[n-1]) /\ n - 1 \in Nat
    BY <1>3, <2>1, TreesToIs
  <2>3. PICK f \in Seq(TreesTo[n-1]) : t = Arr(f)
    BY <1>3, <2>2 DEF LeavesAndLists
  <2>4. f \in Seq(AllTrees)
    BY <1>0, <2>2, SeqMonotonic
  <2> QED
    BY <2>3, <2>4, ArrFacts
<1> QED
  BY <1>1, <1>2, <1>3

(***************************************************************************)
(* These trees are what TreesAssumption allows: Trees = AllTrees holds of  *)
(* no less than all the program can build.                                 *)
(***************************************************************************)
LEMMA AllTreesAllowed ==
  \A t \in AllTrees :
    \/ t.tag \in LeafTags
    \/ t.tag = "arr" /\ t = Arr(t.elems) /\ t.elems \in Seq(AllTrees)
<1> SUFFICES ASSUME NEW t \in AllTrees
             PROVE  \/ t.tag \in LeafTags
                    \/ t.tag = "arr" /\ t = Arr(t.elems) /\ t.elems \in Seq(AllTrees)
  OBVIOUS
<1>1. t \in Leaves \/ (t = Arr(t.elems) /\ t.elems \in Seq(AllTrees))
  BY TreeFacts
<1>2. Arr(t.elems).tag = "arr"
  BY ArrFacts
<1> QED
  BY <1>1, <1>2, LeafFacts

LEMMA HeightExists ==
  \E h \in [AllTrees -> Nat] :
    \A t \in AllTrees \ Leaves : \A i \in 1..Len(t.elems) : h[t.elems[i]] < h[t]
<1> DEFINE IsLeast(t, n) ==
             n \in Nat /\ t \in TreesTo[n] /\ \A k \in Nat : t \in TreesTo[k] => n <= k
           h == [t \in AllTrees |-> CHOOSE n : IsLeast(t, n)]
<1>1. ASSUME NEW t \in AllTrees PROVE IsLeast(t, h[t])
  <2> DEFINE S == {n \in Nat : t \in TreesTo[n]}
  <2>1. S \in SUBSET Nat /\ S # {}
    BY DEF AllTrees
  <2>2. \E m \in S : \A k \in S : m <= k
    <3> HIDE DEF S
    <3> QED
      BY <2>1, LeastExists
  <2>3. \E m : IsLeast(t, m)
    BY <2>2
  <2> HIDE DEF IsLeast
  <2> QED
    BY <2>3
<1>2. h \in [AllTrees -> Nat]
  <2>1. \A t \in AllTrees : h[t] \in Nat
    BY <1>1
  <2>2. h = [t \in AllTrees |-> h[t]]
    OBVIOUS
  <2> HIDE DEF h
  <2> QED
    BY <2>1, <2>2
<1> HIDE DEF h
<1>3. ASSUME NEW t \in AllTrees \ Leaves, NEW i \in 1..Len(t.elems)
      PROVE  h[t.elems[i]] < h[t]
  <2> DEFINE n == h[t]
  <2>1. n \in Nat /\ t \in TreesTo[n]
    BY <1>1
  <2>2. n # 0 /\ t \in LeavesAndLists(TreesTo[n-1]) /\ n - 1 \in Nat
    BY <2>1, TreesToIs
  <2>3. PICK f \in Seq(TreesTo[n-1]) : t = Arr(f)
    BY <2>2 DEF LeavesAndLists
  <2>4. t.elems = f /\ t.elems[i] \in TreesTo[n-1]
    BY <2>3, ArrFacts, ElementOfSeq
  <2>5. t.elems[i] \in AllTrees
    BY <2>2, <2>4 DEF AllTrees
  <2>6. h[t.elems[i]] <= n - 1 /\ h[t.elems[i]] \in Nat
    BY <1>1, <2>2, <2>4, <2>5
  <2> QED
    BY <2>1, <2>2, <2>6
<1> QED
  BY <1>2, <1>3

-----------------------------------------------------------------------------
(***************************************************************************)
(* What a tree is when it is flattened: its leaves, in brackets.           *)
(***************************************************************************)
Items == Leaves \cup {Bracket("open"), Bracket("close")}

LEMMA ItemFacts ==
  /\ Bracket("open") \in Items /\ Bracket("close") \in Items
  /\ Leaves \subseteq Items
  /\ Bracket("open").tag = "open" /\ Bracket("close").tag = "close"
  /\ \A x \in Items :
       \/ x.tag \in LeafTags /\ x \in Leaves
       \/ x = Bracket("open") /\ x.tag = "open"
       \/ x = Bracket("close") /\ x.tag = "close"
<1>1. Bracket("open").tag = "open" /\ Bracket("close").tag = "close"
  BY DEF Bracket
<1> QED
  BY <1>1, LeafFacts DEF Items

InBrackets(s) == <<Bracket("open")>> \o s \o <<Bracket("close")>>

LEMMA InBracketsType ==
  ASSUME NEW s \in Seq(Items)
  PROVE  /\ InBrackets(s) \in Seq(Items)
         /\ <<Bracket("open")>> \in Seq(Items) /\ <<Bracket("close")>> \in Seq(Items)
         /\ InBrackets(s) = <<Bracket("open")>> \o (s \o <<Bracket("close")>>)
<1>1. <<Bracket("open")>> \in Seq(Items) /\ <<Bracket("close")>> \in Seq(Items)
  BY ItemFacts
<1>2. \A a, b, c \in Seq(Items) : (a \o b) \o c = a \o (b \o c)
  BY ONLY Regroup
<1>3. \A a, b \in Seq(Items) : a \o b \in Seq(Items)
  BY ConcatProperties
<1> QED
  BY <1>1, <1>2, <1>3 DEF InBrackets

FlatBy(F, t) ==
  IF t.tag = "arr" THEN InBrackets(FlattenSeq(Mapped(F, t.elems))) ELSE <<t>>

LEMMA FlatByFacts ==
  ASSUME NEW F \in [AllTrees -> Seq(Items)], NEW t \in AllTrees
  PROVE  FlatBy(F, t) \in Seq(Items)
<1>1. CASE t \in Leaves
  <2>1. FlatBy(F, t) = <<t>> /\ t \in Items
    BY <1>1, LeafFacts, ItemFacts DEF FlatBy
  <2> QED
    BY <2>1
<1>2. CASE t = Arr(t.elems) /\ t.elems \in Seq(AllTrees)
  <2>1. Mapped(F, t.elems) \in Seq(Seq(Items))
    BY <1>2, MapFacts DEF Maps
  <2>2. FlattenSeq(Mapped(F, t.elems)) \in Seq(Items)
    BY <2>1, FlattenFacts
  <2>3. t.tag = "arr"
    BY <1>2, ArrFacts
  <2> QED
    BY <2>2, <2>3, InBracketsType DEF FlatBy
<1> QED
  BY <1>1, <1>2, TreeFacts

LEMMA FlatByAgrees ==
  ASSUME NEW F, NEW G, NEW t \in AllTrees,
         t \notin Leaves => \A i \in 1..Len(t.elems) : F[t.elems[i]] = G[t.elems[i]]
  PROVE  FlatBy(F, t) = FlatBy(G, t)
<1>1. CASE t \in Leaves
  BY <1>1, LeafFacts DEF FlatBy
<1>2. CASE t \notin Leaves
  <2>1. t.elems \in Seq(AllTrees)
    BY <1>2, TreeFacts
  <2>2. DOMAIN t.elems = 1..Len(t.elems)
    BY <2>1
  <2>3. Mapped(F, t.elems) = Mapped(G, t.elems)
    BY <1>2, <2>2 DEF Mapped
  <2> QED
    BY <2>3 DEF FlatBy
<1> QED
  BY <1>1, <1>2

LEMMA FlatExists ==
  \E f \in [AllTrees -> Seq(Items)] : \A t \in AllTrees : f[t] = FlatBy(f, t)
<1> DEFINE T == AllTrees
           A == Seq(Items)
           F == [T -> A]
           start == [t \in T |-> <<>>]
           step == [t \in T |-> [f \in F |-> FlatBy(f, t)]]
<1>1. PICK h \in [T -> Nat] :
        \A t \in T \ Leaves : \A i \in 1..Len(t.elems) : h[t.elems[i]] < h[t]
  BY HeightExists
<1>2. start \in F /\ step \in [T -> [F -> A]]
  <2>1. \A t \in T : [f \in F |-> FlatBy(f, t)] \in [F -> A]
    BY FlatByFacts
  <2>2. <<>> \in A
    OBVIOUS
  <2> HIDE DEF T, A
  <2> QED
    BY <2>1, <2>2
<1>3. ASSUME NEW t \in T, NEW f \in F, NEW g \in F, \A u \in T : h[u] < h[t] => f[u] = g[u]
      PROVE  step[t][f] = step[t][g]
  <2>1. t \notin Leaves => \A i \in 1..Len(t.elems) : t.elems[i] \in T
    BY TreeFacts, ElementOfSeq
  <2>2. t \notin Leaves => \A i \in 1..Len(t.elems) : f[t.elems[i]] = g[t.elems[i]]
    BY <1>1, <1>3, <2>1
  <2>3. FlatBy(f, t) = FlatBy(g, t)
    BY <2>2, FlatByAgrees
  <2> HIDE DEF T, A
  <2> QED
    BY <2>3
<1>4. PICK f \in [T -> A] : \A t \in T : f[t] = step[t][f]
  <2>1. \A t \in T : \A f, g \in [T -> A] :
          (\A u \in T : h[u] < h[t] => f[u] = g[u]) => step[t][f] = step[t][g]
    BY <1>3
  <2> HIDE DEF T, A, start, step
  <2>2. Descends(T, A, start, h, step)
    BY <1>1, <1>2, <2>1 DEF Descends
  <2> QED
    BY <2>2, DescentExists
<1> QED
  BY <1>4

LEMMA FlatIs ==
  ASSUME Trees = AllTrees
  PROVE  /\ Flat \in [Trees -> Seq(Items)]
         /\ \A t \in Trees : Flat[t] = FlatBy(Flat, t)
<1> DEFINE IsFlat(f) == f = [t \in Trees |->
                               IF t.tag = "arr"
                               THEN <<Bracket("open")>>
                                      \o FlattenSeq([i \in DOMAIN t.elems |-> f[t.elems[i]]])
                                      \o <<Bracket("close")>>
                               ELSE <<t>>]
<1>1. ASSUME NEW f PROVE IsFlat(f) <=> f = [t \in Trees |-> FlatBy(f, t)]
  BY DEF FlatBy, Mapped, InBrackets
<1>2. PICK f \in [AllTrees -> Seq(Items)] : \A t \in AllTrees : f[t] = FlatBy(f, t)
  BY FlatExists
<1>3. IsFlat(f)
  <2>1. f = [t \in Trees |-> FlatBy(f, t)]
    BY <1>2
  <2> QED
    BY <1>1, <2>1
<1>4. IsFlat(Flat)
  <2>1. Flat = CHOOSE g : IsFlat(g)
    BY DEF Flat
  <2> HIDE DEF IsFlat
  <2> QED
    BY <1>3, <2>1
<1>5. Flat = [t \in Trees |-> FlatBy(Flat, t)]
  BY <1>1, <1>4
<1>6. \A t \in Trees : Flat[t] = FlatBy(Flat, t)
  BY <1>5
<1>7. PICK h \in [AllTrees -> Nat] :
        \A t \in AllTrees \ Leaves : \A i \in 1..Len(t.elems) : h[t.elems[i]] < h[t]
  BY HeightExists
<1> DEFINE Wrong == {h[t] : t \in {u \in Trees : Flat[u] # f[u]}}
<1>8. CASE Wrong # {}
  <2>1. PICK m \in Wrong : \A k \in Wrong : m <= k
    <3>1. Wrong \in SUBSET Nat
      BY <1>7
    <3> HIDE DEF Wrong
    <3> QED
      BY <1>8, <3>1, LeastExists
  <2>2. PICK t \in Trees : Flat[t] # f[t] /\ m = h[t]
    BY <2>1
  <2>3. ASSUME t \notin Leaves, NEW i \in 1..Len(t.elems)
        PROVE  Flat[t.elems[i]] = f[t.elems[i]]
    <3>1. t.elems[i] \in AllTrees
      BY <2>3, TreeFacts, ElementOfSeq
    <3>2. h[t.elems[i]] < h[t] /\ h[t.elems[i]] \in Nat /\ h[t] \in Nat
      BY <1>7, <2>3, <3>1
    <3>3. h[t.elems[i]] \notin Wrong
      <4> HIDE DEF Wrong
      <4> QED
        BY <2>1, <2>2, <3>2
    <3> QED
      BY <3>1, <3>3
  <2>4. FlatBy(Flat, t) = FlatBy(f, t)
    BY <2>3, FlatByAgrees
  <2> QED
    BY <1>2, <1>6, <2>2, <2>4
<1>9. CASE Wrong = {}
  <2>1. \A t \in Trees : Flat[t] = f[t]
    BY <1>9
  <2>2. \A t \in Trees : FlatBy(Flat, t) \in Seq(Items)
    BY <1>2, <1>6, <2>1
  <2> QED
    BY <1>5, <1>6, <2>2
<1> QED
  BY <1>8, <1>9

(***************************************************************************)
(* Lists of trees, flattened one after the other.                          *)
(***************************************************************************)
LEMMA FlatsFacts ==
  ASSUME Trees = AllTrees, NEW ts \in Seq(Trees)
  PROVE  /\ Flats(ts) \in Seq(Items)
         /\ Flats(<<>>) = <<>>
         /\ \A t \in Trees : /\ Flat[t] \in Seq(Items)
                             /\ Flats(Append(ts, t)) = Flats(ts) \o Flat[t]
         /\ ts # <<>> => /\ Head(ts) \in Trees /\ Tail(ts) \in Seq(Trees)
                         /\ Flats(ts) = Flat[Head(ts)] \o Flats(Tail(ts))
         /\ Arr(ts) \in Trees /\ Flat[Arr(ts)] = InBrackets(Flats(ts))
<1>1. Flat \in [Trees -> Seq(Items)]
  BY FlatIs
<1>2. \A s : Flats(s) = FlattenSeq(Mapped(Flat, s))
  BY DEF Flats, Mapped
<1>3. Flats(<<>>) = <<>>
  <2>1. Mapped(Flat, <<>>) = <<>>
    BY DEF Mapped
  <2> QED
    BY <1>2, <2>1 DEF FlattenSeq
<1> DEFINE B == Seq(Items)
<1>4. /\ Mapped(Flat, ts) \in Seq(B)
      /\ \A t \in Trees : Mapped(Flat, Append(ts, t)) = Append(Mapped(Flat, ts), Flat[t])
      /\ ts # <<>> => /\ Mapped(Flat, ts) # <<>> /\ Head(Mapped(Flat, ts)) = Flat[Head(ts)]
                      /\ Tail(Mapped(Flat, ts)) = Mapped(Flat, Tail(ts))
  <2>1. Maps(Trees, B, Flat, ts)
    BY <1>1 DEF Maps
  <2> HIDE DEF B
  <2> QED
    BY <2>1, MapFacts
<1>5. Flats(ts) \in Seq(Items)
  BY <1>2, <1>4, FlattenFacts
<1>6. ASSUME NEW t \in Trees
      PROVE  Flat[t] \in Seq(Items) /\ Flats(Append(ts, t)) = Flats(ts) \o Flat[t]
  <2>1. Flat[t] \in Seq(Items)
    BY <1>1
  <2>2. Mapped(Flat, Append(ts, t)) = Append(Mapped(Flat, ts), Flat[t])
    BY <1>4
  <2> QED
    BY <1>2, <1>4, <2>1, <2>2, FlattenFacts
<1>7. ASSUME ts # <<>>
      PROVE  /\ Head(ts) \in Trees /\ Tail(ts) \in Seq(Trees)
             /\ Flats(ts) = Flat[Head(ts)] \o Flats(Tail(ts))
  <2>1. Head(ts) \in Trees /\ Tail(ts) \in Seq(Trees)
    BY <1>7, HeadTailProperties
  <2>2. /\ Mapped(Flat, ts) # <<>> /\ Head(Mapped(Flat, ts)) = Flat[Head(ts)]
        /\ Tail(Mapped(Flat, ts)) = Mapped(Flat, Tail(ts))
    BY <1>4, <1>7
  <2>3. FlattenSeq(Mapped(Flat, ts)) = Flat[Head(ts)] \o FlattenSeq(Mapped(Flat, Tail(ts)))
    BY <1>4, <2>2, FlattenCons
  <2> QED
    BY <1>2, <2>1, <2>3
<1>8. Arr(ts) \in Trees /\ Flat[Arr(ts)] = InBrackets(Flats(ts))
  <2>1. Arr(ts) \in Trees
    BY TreeFacts
  <2>2. Arr(ts).tag = "arr" /\ Arr(ts).elems = ts
    BY ArrFacts
  <2>3. Flat[Arr(ts)] = FlatBy(Flat, Arr(ts))
    BY <2>1, FlatIs
  <2> QED
    BY <1>2, <2>1, <2>2, <2>3 DEF FlatBy
<1> QED
  BY <1>3, <1>5, <1>6, <1>7, <1>8

LEMMA FlatLeaf ==
  ASSUME Trees = AllTrees, NEW t \in Leaves
  PROVE  t \in Trees /\ Flat[t] = <<t>>
<1>1. t \in Trees
  BY TreeFacts
<1> QED
  BY <1>1, FlatIs, LeafFacts DEF FlatBy

-----------------------------------------------------------------------------
(***************************************************************************)
(* What a fold over a sequence computes: v comes of base by taking one     *)
(* element after the other.  step[x][a] is what x makes of a.              *)
(***************************************************************************)
FoldStart(A, base, T, step, s) == base \in A /\ step \in [T -> [A -> A]] /\ s \in Seq(T)

Folds(base, step, s, v) ==
  \E r : /\ r[0] = base /\ v = r[Len(s)]
         /\ \A n \in 1..Len(s) : r[n] = step[s[n]][r[n-1]]

LEMMA FoldedType ==
  ASSUME NEW A, NEW base, NEW T, NEW step, NEW s, NEW v,
         FoldStart(A, base, T, step, s), Folds(base, step, s, v)
  PROVE  v \in A
<1>1. base \in A /\ step \in [T -> [A -> A]] /\ s \in Seq(T)
  BY DEF FoldStart
<1>2. PICK r : /\ r[0] = base /\ v = r[Len(s)]
               /\ \A n \in 1..Len(s) : r[n] = step[s[n]][r[n-1]]
  BY DEF Folds
<1> DEFINE S == {n \in 0..Len(s) : r[n] \in A}
<1>3. Len(s) \in Nat /\ \A n \in 1..Len(s) : s[n] \in T
  BY <1>1, ElementOfSeq
<1>4. 0 \in S
  BY <1>1, <1>2, <1>3
<1>5. ASSUME NEW n \in 1..Len(s), n - 1 \in S PROVE n \in S
  <2>1. r[n-1] \in A /\ step[s[n]] \in [A -> A]
    BY <1>1, <1>3, <1>5
  <2>2. r[n] \in A
    BY <1>2, <2>1
  <2> QED
    BY <1>3, <2>2
<1>6. 0..Len(s) \subseteq S
  <2> HIDE DEF S
  <2> QED
    BY <1>3, <1>4, <1>5, PassedOn
<1>7. Len(s) \in 0..Len(s)
  BY <1>3
<1> QED
  BY <1>2, <1>6, <1>7

LEMMA FoldedGrows ==
  ASSUME NEW base, NEW T, NEW step, NEW s \in Seq(T), NEW x \in T, NEW v, NEW w,
         Folds(base, step, s, v), Folds(base, step, Append(s, x), w)
  PROVE  w = step[x][v]
<1> DEFINE t == Append(s, x)
<1>1. /\ Len(s) \in Nat /\ Len(t) = Len(s) + 1 /\ t[Len(s) + 1] = x
      /\ \A n \in 1..Len(s) : t[n] = s[n]
  BY AppendProperties
<1> HIDE DEF t
<1>2. PICK r : /\ r[0] = base /\ v = r[Len(s)]
               /\ \A n \in 1..Len(s) : r[n] = step[s[n]][r[n-1]]
  BY DEF Folds
<1>3. PICK q : /\ q[0] = base /\ w = q[Len(t)]
               /\ \A n \in 1..Len(t) : q[n] = step[t[n]][q[n-1]]
  BY DEF Folds, t
<1>4. \A n \in 1..Len(s) : n \in 1..Len(t)
  BY <1>1
<1>5. Alike(Len(s), r, q)
  BY <1>1, <1>2, <1>3, <1>4 DEF Alike
<1>6. r[Len(s)] = q[Len(s)]
  <2>1. Len(s) \in 0..Len(s)
    BY <1>1
  <2> QED
    BY <1>5, <2>1, AlikeAgree
<1>7. Len(s) + 1 \in 1..Len(t) /\ (Len(s) + 1) - 1 = Len(s)
  BY <1>1
<1>8. q[Len(s) + 1] = step[t[Len(s) + 1]][q[(Len(s) + 1) - 1]]
  BY <1>3, <1>7
<1> QED
  BY <1>1, <1>2, <1>3, <1>6, <1>7, <1>8

LEMMA FoldedNothing ==
  ASSUME NEW base, NEW step, NEW v, Folds(base, step, <<>>, v)
  PROVE  v = base
<1>1. Len(<<>>) = 0
  OBVIOUS
<1> QED
  BY <1>1 DEF Folds

(***************************************************************************)
(* FoldLeft defines a function of the sets of places, by what it is for    *)
(* the set without the greatest place.  There is such a function, and one  *)
(* that is such is a fold.                                                 *)
(***************************************************************************)
IterOf(A, base, step, s, f) ==
  /\ f \in [SUBSET (DOMAIN s) -> A]
  /\ \A u \in SUBSET (DOMAIN s) :
       /\ u = {} => f[u] = base
       /\ u # {} => /\ Max(u) \in DOMAIN s
                    /\ f[u] = step[s[Max(u)]][f[u \ {Max(u)}]]

Reduces(A, base, step, s, g) ==
  /\ g[{}] = base
  /\ \A n \in 1..Len(s) : g[1..(n-1)] \in A => g[1..n] = step[s[n]][g[1..(n-1)]]

LEMMA GreatestIs ==
  /\ \A u : Max(u) = Greatest(u)
  /\ \A n \in Nat : n > 0 => Max(1..n) = n /\ (1..n) \ {n} = 1..(n-1)
<1>1. \A u : Max(u) = Greatest(u)
  BY DEF Max, Greatest
<1> QED
  BY <1>1, GreatestFacts

LEMMA IterExists ==
  ASSUME NEW A, NEW base, NEW T, NEW step, NEW s, FoldStart(A, base, T, step, s)
  PROVE  \E f : IterOf(A, base, step, s, f)
<1> DEFINE N == Len(s)
           steps == [n \in 1..N |-> step[s[n]]]
<1>1. base \in A /\ step \in [T -> [A -> A]] /\ s \in Seq(T)
  BY DEF FoldStart
<1>2. N \in Nat /\ DOMAIN s = 1..N /\ \A n \in 1..N : s[n] \in T
  BY <1>1, ElementOfSeq
<1>3. steps \in [1..N -> [A -> A]]
  <2>1. \A n \in 1..N : step[s[n]] \in [A -> A]
    BY <1>1, <1>2
  <2> HIDE DEF N
  <2> QED
    BY <2>1
<1>4. PICK f \in [SUBSET (1..N) -> A] : \A u \in SUBSET (1..N) :
        f[u] = IF u = {} THEN base ELSE steps[Greatest(u)][f[u \ {Greatest(u)}]]
  <2> HIDE DEF N, steps
  <2>1. Steps(A, base, N, steps)
    BY <1>1, <1>2, <1>3 DEF Steps
  <2>2. \E f : FoldOf(A, base, N, steps, f)
    BY <2>1, FoldExists
  <2> QED
    BY <2>2 DEF FoldOf
<1>5. ASSUME NEW u \in SUBSET (1..N), u # {} PROVE Greatest(u) \in 1..N
  <2> HIDE DEF N
  <2>1. Greatest(u) \in u
    BY <1>2, <1>5, GreatestFacts
  <2> QED
    BY <2>1
<1>6. ASSUME NEW u \in SUBSET (DOMAIN s)
      PROVE  /\ u = {} => f[u] = base
             /\ u # {} => /\ Max(u) \in DOMAIN s
                          /\ f[u] = step[s[Max(u)]][f[u \ {Max(u)}]]
  <2>1. u \in SUBSET (1..N) /\ Max(u) = Greatest(u)
    BY <1>2, GreatestIs
  <2>2. u # {} => steps[Greatest(u)] = step[s[Greatest(u)]]
    BY <1>5, <2>1
  <2> HIDE DEF steps, N
  <2> QED
    BY <1>2, <1>4, <1>5, <2>1, <2>2
<1> QED
  BY <1>2, <1>4, <1>6 DEF IterOf

LEMMA ReducesFolds ==
  ASSUME NEW A, NEW base, NEW T, NEW step, NEW s, FoldStart(A, base, T, step, s),
         NEW g, Reduces(A, base, step, s, g)
  PROVE  Folds(base, step, s, g[DOMAIN s])
<1>1. base \in A /\ step \in [T -> [A -> A]] /\ s \in Seq(T)
  BY DEF FoldStart
<1> DEFINE N == Len(s)
           r == [n \in 0..N |-> g[1..n]]
           S == {n \in 0..N : r[n] \in A}
<1>2. N \in Nat /\ DOMAIN s = 1..N /\ \A n \in 1..N : s[n] \in T
  BY <1>1, ElementOfSeq
<1>3. r[0] = base
  <2>1. 0 \in 0..N /\ 1..0 = {}
    BY <1>2
  <2> QED
    BY <2>1 DEF Reduces
<1>4. ASSUME NEW n \in 1..N, r[n-1] \in A PROVE r[n] = step[s[n]][r[n-1]]
  <2>1. n \in 0..N /\ n - 1 \in 0..N
    BY <1>2
  <2>2. r[n] = g[1..n] /\ r[n-1] = g[1..(n-1)]
    BY <2>1
  <2> HIDE DEF r
  <2> QED
    BY <1>4, <2>2 DEF Reduces
<1> HIDE DEF r
<1>5. 0 \in S
  BY <1>1, <1>2, <1>3
<1>6. ASSUME NEW n \in 1..N, n - 1 \in S PROVE n \in S
  <2>1. r[n-1] \in A /\ step[s[n]] \in [A -> A]
    BY <1>1, <1>2, <1>6
  <2>2. r[n] \in A
    BY <1>4, <2>1
  <2> QED
    BY <1>2, <2>2
<1>7. 0..N \subseteq S
  <2> HIDE DEF S, N
  <2> QED
    BY <1>2, <1>5, <1>6, PassedOn
<1>8. \A n \in 1..N : n - 1 \in 0..N
  BY <1>2
<1>9. \A n \in 1..N : r[n] = step[s[n]][r[n-1]]
  BY <1>4, <1>7, <1>8
<1>10. r[N] = g[DOMAIN s]
  BY <1>2 DEF r
<1> QED
  BY <1>3, <1>9, <1>10 DEF Folds

-----------------------------------------------------------------------------
(***************************************************************************)
(* The tokens that are kept.                                               *)
(***************************************************************************)
Keeps(T) == [kept : Seq(T), skip : BOOLEAN]
NoneKept == [kept |-> <<>>, skip |-> FALSE]
Keep(r, t) ==
  IF r.skip THEN [r EXCEPT !.skip = FALSE]
  ELSE [kept |-> Append(r.kept, t), skip |-> t.kind \in {"str", "blockstr"}]
KeptStep(T) == [t \in T |-> [r \in Keeps(T) |-> Keep(r, t)]]

LEMMA KeepType ==
  ASSUME NEW T
  PROVE  NoneKept \in Keeps(T) /\ \A r \in Keeps(T) : \A t \in T : Keep(r, t) \in Keeps(T)
<1>1. NoneKept \in Keeps(T)
  BY DEF NoneKept, Keeps
<1>2. ASSUME NEW r \in Keeps(T), NEW t \in T PROVE Keep(r, t) \in Keeps(T)
  <2>1. r.kept \in Seq(T) /\ r.skip \in BOOLEAN /\ Append(r.kept, t) \in Seq(T)
    BY DEF Keeps
  <2>2. CASE r.skip
    <3>1. [r EXCEPT !.skip = FALSE] \in Keeps(T)
      BY DEF Keeps
    <3> QED
      BY <2>2, <3>1 DEF Keep
  <2>3. CASE ~r.skip
    <3>1. [kept |-> Append(r.kept, t), skip |-> t.kind \in {"str", "blockstr"}] \in Keeps(T)
      BY <2>1 DEF Keeps
    <3> QED
      BY <2>3, <3>1 DEF Keep
  <2> QED
    BY <2>1, <2>2, <2>3
<1> QED
  BY <1>1, <1>2

LEMMA KeptFolds ==
  ASSUME NEW T, NEW s \in Seq(T)
  PROVE  /\ FoldStart(Keeps(T), NoneKept, T, KeptStep(T), s)
         /\ Folds(NoneKept, KeptStep(T), s, KeptOf(s))
<1> DEFINE A == Keeps(T)
           step == KeptStep(T)
           Iter(f) == f = [u \in SUBSET (DOMAIN s) |->
                             IF u = {} THEN NoneKept ELSE Keep(f[u \ {Max(u)}], s[Max(u)])]
           iter == CHOOSE f : Iter(f)
<1>1. NoneKept \in A /\ \A a \in A : \A x \in T : Keep(a, x) \in A
  BY KeepType
<1>2. FoldStart(A, NoneKept, T, step, s) /\ \A x \in T : \A a \in A : step[x][a] = Keep(a, x)
  <2>1. \A x \in T : [a \in A |-> Keep(a, x)] \in [A -> A]
    BY <1>1
  <2>2. step = [x \in T |-> [a \in A |-> Keep(a, x)]]
    BY DEF KeptStep
  <2> HIDE DEF A, step
  <2> QED
    BY <1>1, <2>1, <2>2 DEF FoldStart
<1>3. Len(s) \in Nat /\ DOMAIN s = 1..Len(s) /\ \A i \in DOMAIN s : s[i] \in T
  BY ElementOfSeq
<1> HIDE DEF A, step
<1>4. PICK f : IterOf(A, NoneKept, step, s, f)
  BY <1>2, IterExists
<1>5. Iter(f)
  <2>1. ASSUME NEW u \in SUBSET (DOMAIN s)
        PROVE  f[u] = IF u = {} THEN NoneKept ELSE Keep(f[u \ {Max(u)}], s[Max(u)])
    <3>1. /\ u = {} => f[u] = NoneKept
          /\ u # {} => /\ Max(u) \in DOMAIN s
                       /\ f[u] = step[s[Max(u)]][f[u \ {Max(u)}]]
      BY <1>4 DEF IterOf
    <3>2. f[u \ {Max(u)}] \in A
      <4>1. u \ {Max(u)} \in SUBSET (DOMAIN s) /\ f \in [SUBSET (DOMAIN s) -> A]
        BY <1>4 DEF IterOf
      <4> QED
        BY <4>1
    <3> QED
      BY <1>2, <1>3, <3>1, <3>2
  <2>2. f = [u \in SUBSET (DOMAIN s) |-> f[u]]
    BY <1>4 DEF IterOf
  <2> QED
    BY <2>1, <2>2
<1>6. Iter(iter)
  <2> HIDE DEF Iter
  <2> QED
    BY <1>5
<1>7. KeptOf(s) = iter[DOMAIN s]
  BY DEF KeptOf, FoldLeft, MapThenFoldSet, Keep, NoneKept
<1> HIDE DEF iter
<1>8. Reduces(A, NoneKept, step, s, iter)
  <2>1. iter[{}] = NoneKept
    BY <1>6
  <2>2. ASSUME NEW n \in 1..Len(s), iter[1..(n-1)] \in A
        PROVE  iter[1..n] = step[s[n]][iter[1..(n-1)]]
    <3>1. Max(1..n) = n /\ (1..n) \ {n} = 1..(n-1) /\ 1..n # {} /\ 1..n \in SUBSET (DOMAIN s)
      <4>1. n \in Nat /\ n > 0 /\ n \in 1..n /\ 1..n \in SUBSET (DOMAIN s)
        BY <1>3
      <4> QED
        BY <4>1, GreatestIs
    <3>2. iter[1..n] = Keep(iter[1..(n-1)], s[n])
      BY <1>6, <3>1
    <3> QED
      BY <1>2, <1>3, <2>2, <3>2
  <2> QED
    BY <2>1, <2>2 DEF Reduces
<1>9. Folds(NoneKept, step, s, iter[DOMAIN s])
  BY <1>2, <1>8, ReducesFolds
<1> QED
  BY <1>2, <1>7, <1>9 DEF A, step

LEMMA KeptOfFacts ==
  ASSUME NEW T, NEW s \in Seq(T), NEW t \in T
  PROVE  /\ KeptOf(s) \in Keeps(T)
         /\ KeptOf(<<>>) = NoneKept
         /\ KeptOf(Append(s, t)) = Keep(KeptOf(s), t)
<1>1. KeptOf(s) \in Keeps(T)
  BY KeptFolds, FoldedType
<1>2. KeptOf(<<>>) = NoneKept
  <2>1. <<>> \in Seq(T)
    OBVIOUS
  <2> QED
    BY <2>1, KeptFolds, FoldedNothing
<1>3. KeptOf(Append(s, t)) = KeptStep(T)[t][KeptOf(s)]
  <2>1. Append(s, t) \in Seq(T)
    BY AppendProperties
  <2>2. Folds(NoneKept, KeptStep(T), Append(s, t), KeptOf(Append(s, t)))
    BY <2>1, KeptFolds
  <2>3. Folds(NoneKept, KeptStep(T), s, KeptOf(s))
    BY KeptFolds
  <2> QED
    BY <2>2, <2>3, FoldedGrows
<1> QED
  BY <1>1, <1>2, <1>3 DEF KeptStep

(***************************************************************************)
(* How many brackets are open after some tokens.                           *)
(***************************************************************************)
OpenedBy(n, t) == CASE t.kind = "open" -> n + 1 [] t.kind = "close" -> n - 1 [] OTHER -> n
OpenedStep(T) == [t \in T |-> [n \in Int |-> OpenedBy(n, t)]]

LEMMA OpenedByType == 0 \in Int /\ \A n \in Int : \A t : OpenedBy(n, t) \in Int
<1>1. ASSUME NEW n \in Int, NEW t PROVE OpenedBy(n, t) \in Int
  <2>1. CASE t.kind = "open"
    BY <2>1 DEF OpenedBy
  <2>2. CASE t.kind = "close"
    BY <2>2 DEF OpenedBy
  <2>3. CASE t.kind # "open" /\ t.kind # "close"
    BY <2>3 DEF OpenedBy
  <2> QED
    BY <2>1, <2>2, <2>3
<1> QED
  BY <1>1

LEMMA OpenedFolds ==
  ASSUME NEW T, NEW s \in Seq(T)
  PROVE  FoldStart(Int, 0, T, OpenedStep(T), s) /\ Folds(0, OpenedStep(T), s, Opened(s))
<1> DEFINE A == Int
           step == OpenedStep(T)
           Iter(f) == f = [u \in SUBSET (DOMAIN s) |->
                             IF u = {} THEN 0 ELSE OpenedBy(f[u \ {Max(u)}], s[Max(u)])]
           iter == CHOOSE f : Iter(f)
<1>1. 0 \in A /\ \A a \in A : \A x \in T : OpenedBy(a, x) \in A
  BY OpenedByType
<1>2. FoldStart(A, 0, T, step, s) /\ \A x \in T : \A a \in A : step[x][a] = OpenedBy(a, x)
  <2>1. \A x \in T : [a \in A |-> OpenedBy(a, x)] \in [A -> A]
    BY <1>1
  <2>2. step = [x \in T |-> [a \in A |-> OpenedBy(a, x)]]
    BY DEF OpenedStep
  <2> HIDE DEF A, step
  <2> QED
    BY <1>1, <2>1, <2>2 DEF FoldStart
<1>3. Len(s) \in Nat /\ DOMAIN s = 1..Len(s) /\ \A i \in DOMAIN s : s[i] \in T
  BY ElementOfSeq
<1> HIDE DEF A, step
<1>4. PICK f : IterOf(A, 0, step, s, f)
  BY <1>2, IterExists
<1>5. Iter(f)
  <2>1. ASSUME NEW u \in SUBSET (DOMAIN s)
        PROVE  f[u] = IF u = {} THEN 0 ELSE OpenedBy(f[u \ {Max(u)}], s[Max(u)])
    <3>1. /\ u = {} => f[u] = 0
          /\ u # {} => /\ Max(u) \in DOMAIN s
                       /\ f[u] = step[s[Max(u)]][f[u \ {Max(u)}]]
      BY <1>4 DEF IterOf
    <3>2. f[u \ {Max(u)}] \in A
      <4>1. u \ {Max(u)} \in SUBSET (DOMAIN s) /\ f \in [SUBSET (DOMAIN s) -> A]
        BY <1>4 DEF IterOf
      <4> QED
        BY <4>1
    <3> QED
      BY <1>2, <1>3, <3>1, <3>2
  <2>2. f = [u \in SUBSET (DOMAIN s) |-> f[u]]
    BY <1>4 DEF IterOf
  <2> QED
    BY <2>1, <2>2
<1>6. Iter(iter)
  <2> HIDE DEF Iter
  <2> QED
    BY <1>5
<1>7. Opened(s) = iter[DOMAIN s]
  BY DEF Opened, FoldLeft, MapThenFoldSet, OpenedBy
<1> HIDE DEF iter
<1>8. Reduces(A, 0, step, s, iter)
  <2>1. iter[{}] = 0
    BY <1>6
  <2>2. ASSUME NEW n \in 1..Len(s), iter[1..(n-1)] \in A
        PROVE  iter[1..n] = step[s[n]][iter[1..(n-1)]]
    <3>1. Max(1..n) = n /\ (1..n) \ {n} = 1..(n-1) /\ 1..n # {} /\ 1..n \in SUBSET (DOMAIN s)
      <4>1. n \in Nat /\ n > 0 /\ n \in 1..n /\ 1..n \in SUBSET (DOMAIN s)
        BY <1>3
      <4> QED
        BY <4>1, GreatestIs
    <3>2. iter[1..n] = OpenedBy(iter[1..(n-1)], s[n])
      BY <1>6, <3>1
    <3> QED
      BY <1>2, <1>3, <2>2, <3>2
  <2> QED
    BY <2>1, <2>2 DEF Reduces
<1>9. Folds(0, step, s, iter[DOMAIN s])
  BY <1>2, <1>8, ReducesFolds
<1> QED
  BY <1>2, <1>7, <1>9 DEF A, step

LEMMA OpenedFacts ==
  ASSUME NEW T, NEW s \in Seq(T), NEW t \in T
  PROVE  /\ Opened(s) \in Int
         /\ Opened(<<>>) = 0
         /\ Opened(Append(s, t)) = OpenedBy(Opened(s), t)
<1>1. Opened(s) \in Int
  BY OpenedFolds, FoldedType
<1>2. Opened(<<>>) = 0
  <2>1. <<>> \in Seq(T)
    OBVIOUS
  <2> QED
    BY <2>1, OpenedFolds, FoldedNothing
<1>3. Opened(Append(s, t)) = OpenedStep(T)[t][Opened(s)]
  <2>1. Append(s, t) \in Seq(T)
    BY AppendProperties
  <2>2. Folds(0, OpenedStep(T), Append(s, t), Opened(Append(s, t)))
    BY <2>1, OpenedFolds
  <2>3. Folds(0, OpenedStep(T), s, Opened(s))
    BY OpenedFolds
  <2> QED
    BY <2>2, <2>3, FoldedGrows
<1> QED
  BY <1>1, <1>2, <1>3 DEF OpenedStep

(***************************************************************************)
(* The values of the tokens: an int, or a string of characters.            *)
(***************************************************************************)
Digit(v, c) == IF c = "digit" THEN 10 * v + 1 ELSE v
ValueOf(s) == FoldLeft(LAMBDA v, c : Digit(v, c), 0, s)
ValueStep(T) == [c \in T |-> [v \in Int |-> Digit(v, c)]]

LEMMA DigitType == 0 \in Int /\ \A v \in Int : \A c : Digit(v, c) \in Int
  BY DEF Digit

LEMMA ValueFolds ==
  ASSUME NEW T, NEW s \in Seq(T)
  PROVE  FoldStart(Int, 0, T, ValueStep(T), s) /\ Folds(0, ValueStep(T), s, ValueOf(s))
<1> DEFINE A == Int
           step == ValueStep(T)
           Iter(f) == f = [u \in SUBSET (DOMAIN s) |->
                             IF u = {} THEN 0 ELSE Digit(f[u \ {Max(u)}], s[Max(u)])]
           iter == CHOOSE f : Iter(f)
<1>1. 0 \in A /\ \A a \in A : \A x \in T : Digit(a, x) \in A
  BY DigitType
<1>2. FoldStart(A, 0, T, step, s) /\ \A x \in T : \A a \in A : step[x][a] = Digit(a, x)
  <2>1. \A x \in T : [a \in A |-> Digit(a, x)] \in [A -> A]
    BY <1>1
  <2>2. step = [x \in T |-> [a \in A |-> Digit(a, x)]]
    BY DEF ValueStep
  <2> HIDE DEF A, step
  <2> QED
    BY <1>1, <2>1, <2>2 DEF FoldStart
<1>3. Len(s) \in Nat /\ DOMAIN s = 1..Len(s) /\ \A i \in DOMAIN s : s[i] \in T
  BY ElementOfSeq
<1> HIDE DEF A, step
<1>4. PICK f : IterOf(A, 0, step, s, f)
  BY <1>2, IterExists
<1>5. Iter(f)
  <2>1. ASSUME NEW u \in SUBSET (DOMAIN s)
        PROVE  f[u] = IF u = {} THEN 0 ELSE Digit(f[u \ {Max(u)}], s[Max(u)])
    <3>1. /\ u = {} => f[u] = 0
          /\ u # {} => /\ Max(u) \in DOMAIN s
                       /\ f[u] = step[s[Max(u)]][f[u \ {Max(u)}]]
      BY <1>4 DEF IterOf
    <3>2. f[u \ {Max(u)}] \in A
      <4>1. u \ {Max(u)} \in SUBSET (DOMAIN s) /\ f \in [SUBSET (DOMAIN s) -> A]
        BY <1>4 DEF IterOf
      <4> QED
        BY <4>1
    <3> QED
      BY <1>2, <1>3, <3>1, <3>2
  <2>2. f = [u \in SUBSET (DOMAIN s) |-> f[u]]
    BY <1>4 DEF IterOf
  <2> QED
    BY <2>1, <2>2
<1>6. Iter(iter)
  <2> HIDE DEF Iter
  <2> QED
    BY <1>5
<1>7. ValueOf(s) = iter[DOMAIN s]
  BY DEF ValueOf, FoldLeft, MapThenFoldSet, Digit
<1> HIDE DEF iter
<1>8. Reduces(A, 0, step, s, iter)
  <2>1. iter[{}] = 0
    BY <1>6
  <2>2. ASSUME NEW n \in 1..Len(s), iter[1..(n-1)] \in A
        PROVE  iter[1..n] = step[s[n]][iter[1..(n-1)]]
    <3>1. Max(1..n) = n /\ (1..n) \ {n} = 1..(n-1) /\ 1..n # {} /\ 1..n \in SUBSET (DOMAIN s)
      <4>1. n \in Nat /\ n > 0 /\ n \in 1..n /\ 1..n \in SUBSET (DOMAIN s)
        BY <1>3
      <4> QED
        BY <4>1, GreatestIs
    <3>2. iter[1..n] = Digit(iter[1..(n-1)], s[n])
      BY <1>6, <3>1
    <3> QED
      BY <1>2, <1>3, <2>2, <3>2
  <2> QED
    BY <2>1, <2>2 DEF Reduces
<1>9. Folds(0, step, s, iter[DOMAIN s])
  BY <1>2, <1>8, ReducesFolds
<1> QED
  BY <1>2, <1>7, <1>9 DEF A, step

LEMMA IntOfType ==
  ASSUME NEW T, NEW s \in Seq(T)
  PROVE  IntOf(s) \in Int
<1>1. ValueOf(s) \in Int
  BY ValueFolds, FoldedType
<1>2. IntOf(s) = IF s[1] = "minus" THEN -ValueOf(s) ELSE ValueOf(s)
  BY DEF IntOf, ValueOf, Digit
<1> QED
  BY <1>1, <1>2

Escapes(T) == [read : Seq(T), escaped : BOOLEAN]
NoEscape == [read |-> <<>>, escaped |-> FALSE]
Unescape(r, c) ==
  IF c = "escape" /\ ~r.escaped THEN [r EXCEPT !.escaped = TRUE]
  ELSE [read |-> Append(r.read, c), escaped |-> FALSE]
UnescapedOf(s) == FoldLeft(LAMBDA r, c : Unescape(r, c), NoEscape, s)
UnescapedStep(T) == [c \in T |-> [r \in Escapes(T) |-> Unescape(r, c)]]

LEMMA UnescapeType ==
  ASSUME NEW T
  PROVE  /\ NoEscape \in Escapes(T)
         /\ \A r \in Escapes(T) : \A c \in T : Unescape(r, c) \in Escapes(T)
<1>1. NoEscape \in Escapes(T)
  BY DEF NoEscape, Escapes
<1>2. ASSUME NEW r \in Escapes(T), NEW c \in T PROVE Unescape(r, c) \in Escapes(T)
  <2>1. r.read \in Seq(T) /\ Append(r.read, c) \in Seq(T)
    BY DEF Escapes
  <2>2. /\ [r EXCEPT !.escaped = TRUE] \in Escapes(T)
        /\ [read |-> Append(r.read, c), escaped |-> FALSE] \in Escapes(T)
    BY <2>1 DEF Escapes
  <2> QED
    BY <2>2 DEF Unescape
<1> QED
  BY <1>1, <1>2

LEMMA UnescapedFolds ==
  ASSUME NEW T, NEW s \in Seq(T)
  PROVE  /\ FoldStart(Escapes(T), NoEscape, T, UnescapedStep(T), s)
         /\ Folds(NoEscape, UnescapedStep(T), s, UnescapedOf(s))
<1> DEFINE A == Escapes(T)
           step == UnescapedStep(T)
           Iter(f) == f = [u \in SUBSET (DOMAIN s) |->
                             IF u = {} THEN NoEscape ELSE Unescape(f[u \ {Max(u)}], s[Max(u)])]
           iter == CHOOSE f : Iter(f)
<1>1. NoEscape \in A /\ \A a \in A : \A x \in T : Unescape(a, x) \in A
  BY UnescapeType
<1>2. FoldStart(A, NoEscape, T, step, s) /\ \A x \in T : \A a \in A : step[x][a] = Unescape(a, x)
  <2>1. \A x \in T : [a \in A |-> Unescape(a, x)] \in [A -> A]
    BY <1>1
  <2>2. step = [x \in T |-> [a \in A |-> Unescape(a, x)]]
    BY DEF UnescapedStep
  <2> HIDE DEF A, step
  <2> QED
    BY <1>1, <2>1, <2>2 DEF FoldStart
<1>3. Len(s) \in Nat /\ DOMAIN s = 1..Len(s) /\ \A i \in DOMAIN s : s[i] \in T
  BY ElementOfSeq
<1> HIDE DEF A, step
<1>4. PICK f : IterOf(A, NoEscape, step, s, f)
  BY <1>2, IterExists
<1>5. Iter(f)
  <2>1. ASSUME NEW u \in SUBSET (DOMAIN s)
        PROVE  f[u] = IF u = {} THEN NoEscape ELSE Unescape(f[u \ {Max(u)}], s[Max(u)])
    <3>1. /\ u = {} => f[u] = NoEscape
          /\ u # {} => /\ Max(u) \in DOMAIN s
                       /\ f[u] = step[s[Max(u)]][f[u \ {Max(u)}]]
      BY <1>4 DEF IterOf
    <3>2. f[u \ {Max(u)}] \in A
      <4>1. u \ {Max(u)} \in SUBSET (DOMAIN s) /\ f \in [SUBSET (DOMAIN s) -> A]
        BY <1>4 DEF IterOf
      <4> QED
        BY <4>1
    <3> QED
      BY <1>2, <1>3, <3>1, <3>2
  <2>2. f = [u \in SUBSET (DOMAIN s) |-> f[u]]
    BY <1>4 DEF IterOf
  <2> QED
    BY <2>1, <2>2
<1>6. Iter(iter)
  <2> HIDE DEF Iter
  <2> QED
    BY <1>5
<1>7. UnescapedOf(s) = iter[DOMAIN s]
  BY DEF UnescapedOf, FoldLeft, MapThenFoldSet, Unescape, NoEscape
<1> HIDE DEF iter
<1>8. Reduces(A, NoEscape, step, s, iter)
  <2>1. iter[{}] = NoEscape
    BY <1>6
  <2>2. ASSUME NEW n \in 1..Len(s), iter[1..(n-1)] \in A
        PROVE  iter[1..n] = step[s[n]][iter[1..(n-1)]]
    <3>1. Max(1..n) = n /\ (1..n) \ {n} = 1..(n-1) /\ 1..n # {} /\ 1..n \in SUBSET (DOMAIN s)
      <4>1. n \in Nat /\ n > 0 /\ n \in 1..n /\ 1..n \in SUBSET (DOMAIN s)
        BY <1>3
      <4> QED
        BY <4>1, GreatestIs
    <3>2. iter[1..n] = Unescape(iter[1..(n-1)], s[n])
      BY <1>6, <3>1
    <3> QED
      BY <1>2, <1>3, <2>2, <3>2
  <2> QED
    BY <2>1, <2>2 DEF Reduces
<1>9. Folds(NoEscape, step, s, iter[DOMAIN s])
  BY <1>2, <1>8, ReducesFolds
<1> QED
  BY <1>2, <1>7, <1>9 DEF A, step

LEMMA UnescapedType ==
  ASSUME NEW T, NEW s \in Seq(T)
  PROVE  Unescaped(s) \in Seq(T)
<1>1. UnescapedOf(s) \in Escapes(T)
  BY UnescapedFolds, FoldedType
<1>2. Unescaped(s) = UnescapedOf(s).read
  BY DEF Unescaped, UnescapedOf, Unescape, NoEscape
<1> QED
  BY <1>1, <1>2 DEF Escapes

-----------------------------------------------------------------------------
(***************************************************************************)
(* What is spelled is spelled in characters.                               *)
(***************************************************************************)
LEMMA CharFacts ==
  {"digit", "minus", "quote", "escape", "letter", "newline", "blank", "open", "close", "colon"}
    \subseteq Lex!Chars
  BY DEF Lex!Chars, Lex!Graph, Lex!Letters, Lex!Space

LEMMA DigitsType ==
  ASSUME NEW N \in Nat
  PROVE  Digits(N) \in Seq(Lex!Chars)
<1> DEFINE T == 0..N
           A == Seq(Lex!Chars)
           F == [T -> A]
           next(n, f) == IF n < 10 THEN <<"digit">> ELSE Append(f[n \div 10], "digit")
           start == [n \in T |-> <<>>]
           h == [n \in T |-> n]
           step == [n \in T |-> [f \in F |-> next(n, f)]]
           IsDigits(f) == f = [n \in T |-> next(n, f)]
           digits == CHOOSE f : IsDigits(f)
<1>1. \A n \in T : n < 10 \/ (n \div 10 \in T /\ n \div 10 < n)
  OBVIOUS
<1>2. <<"digit">> \in A /\ <<>> \in A /\ \A a \in A : Append(a, "digit") \in A
  BY CharFacts
<1>3. start \in F /\ h \in [T -> Nat]
  BY <1>2
<1>4. \A n \in T : h[n] = n
  OBVIOUS
<1> HIDE DEF T, A, start, h
<1>5. \A n \in T : \A f \in F : next(n, f) \in A
  BY <1>1, <1>2
<1>6. step \in [T -> [F -> A]]
  <2>1. \A n \in T : [f \in F |-> next(n, f)] \in [F -> A]
    BY <1>5
  <2> HIDE DEF F, next
  <2> QED
    BY <2>1
<1>7. ASSUME NEW n \in T, NEW f \in F, NEW g \in F, \A u \in T : h[u] < h[n] => f[u] = g[u]
      PROVE  step[n][f] = step[n][g]
  <2>1. next(n, f) = next(n, g)
    BY <1>1, <1>4, <1>7
  <2> HIDE DEF F, next
  <2> QED
    BY <2>1
<1>8. PICK f \in F : \A n \in T : f[n] = step[n][f]
  <2>1. \A n \in T : \A f, g \in [T -> A] :
          (\A u \in T : h[u] < h[n] => f[u] = g[u]) => step[n][f] = step[n][g]
    BY <1>7
  <2>2. start \in [T -> A] /\ step \in [T -> [[T -> A] -> A]]
    BY <1>3, <1>6
  <2> HIDE DEF step
  <2>3. Descends(T, A, start, h, step)
    BY <1>3, <2>1, <2>2 DEF Descends
  <2> QED
    BY <2>3, DescentExists
<1>9. IsDigits(f)
  <2>1. \A n \in T : f[n] = next(n, f)
    <3> HIDE DEF next
    <3> QED
      BY <1>8
  <2> HIDE DEF next
  <2> QED
    BY <2>1
<1>10. IsDigits(digits)
  <2> HIDE DEF IsDigits
  <2> QED
    BY <1>9
<1> HIDE DEF digits
<1>11. \A n \in T : digits[n] = next(n, digits)
  BY <1>10
<1> DEFINE Wrong == {n \in T : digits[n] \notin A}
<1>12. Wrong = {}
  <2> SUFFICES ASSUME Wrong # {} PROVE FALSE
    OBVIOUS
  <2>1. PICK m \in Wrong : \A k \in Wrong : m <= k
    <3>1. Wrong \in SUBSET Nat
      BY DEF T
    <3> HIDE DEF Wrong
    <3> QED
      BY <3>1, LeastExists
  <2>2. m \in T /\ T \subseteq Nat
    BY DEF T
  <2>3. ~(m < 10) => digits[m \div 10] \in A
    <3>1. ~(m < 10) => m \div 10 \in T /\ m \div 10 < m /\ m \div 10 \in Nat /\ m \in Nat
      BY <1>1, <2>2
    <3> QED
      BY <2>1, <3>1
  <2>4. next(m, digits) \in A
    BY <1>2, <2>3
  <2> QED
    BY <1>11, <2>2, <2>4
<1>13. Digits(N) = digits[N]
  BY DEF Digits, digits, T
<1>14. N \in T
  BY DEF T
<1> QED
  BY <1>12, <1>13, <1>14 DEF A

LEMMA NumeralType ==
  ASSUME NEW i \in Int
  PROVE  Numeral(i) \in Seq(Lex!Chars)
<1>1. CASE i < 0
  <2>1. -i \in Nat
    BY <1>1
  <2>2. Digits(-i) \in Seq(Lex!Chars) /\ <<"minus">> \in Seq(Lex!Chars)
    BY <2>1, DigitsType, CharFacts
  <2>3. <<"minus">> \o Digits(-i) \in Seq(Lex!Chars)
    BY <2>2, ConcatProperties
  <2> QED
    BY <1>1, <2>3 DEF Numeral
<1>2. CASE ~(i < 0)
  BY <1>2, DigitsType DEF Numeral
<1> QED
  BY <1>1, <1>2

LEMMA QuotedType ==
  ASSUME NEW s \in Seq(Lex!Chars)
  PROVE  Quoted(s) \in Seq(Lex!Chars)
<1> DEFINE spelled(c) == CASE c = "newline" -> <<"escape", "letter">>
                           [] c \in {"quote", "escape"} -> <<"escape", c>>
                           [] OTHER -> <<c>>
           m == [i \in DOMAIN s |-> spelled(s[i])]
<1>1. \A c \in Lex!Chars : spelled(c) \in Seq(Lex!Chars)
  BY CharFacts
<1>2. Len(s) \in Nat /\ DOMAIN s = 1..Len(s) /\ \A i \in 1..Len(s) : s[i] \in Lex!Chars
  BY ElementOfSeq
<1>3. m \in Seq(Seq(Lex!Chars))
  <2>1. m = [i \in 1..Len(s) |-> spelled(s[i])] /\ \A i \in 1..Len(s) : spelled(s[i]) \in Seq(Lex!Chars)
    BY <1>1, <1>2
  <2> HIDE DEF spelled, m
  <2> QED
    BY <1>2, <2>1
<1>4. FlattenSeq(m) \in Seq(Lex!Chars)
  BY <1>3, FlattenFacts
<1>5. Quoted(s) = <<"quote">> \o FlattenSeq(m) \o <<"quote">>
  BY DEF Quoted
<1>6. <<"quote">> \in Seq(Lex!Chars)
  BY CharFacts
<1> HIDE DEF m
<1>7. (<<"quote">> \o FlattenSeq(m)) \o <<"quote">> \in Seq(Lex!Chars)
  BY <1>4, <1>6, ConcatProperties
<1> QED
  BY <1>5, <1>7

LEMMA IndentType ==
  ASSUME NEW n \in Int
  PROVE  Indent(n) \in Seq(Lex!Chars)
<1>1. CASE n \in Nat
  <2>1. 4 * n \in Nat
    BY <1>1
  <2> QED
    BY <2>1, CharFacts DEF Indent
<1>2. CASE n \notin Nat
  <2>1. 1..(4 * n) = 1..0
    BY <1>2
  <2>2. Indent(n) = [b \in 1..0 |-> "blank"]
    BY <2>1 DEF Indent
  <2> QED
    BY <2>2, CharFacts
<1> QED
  BY <1>1, <1>2

LEMMA PartType ==
  ASSUME NEW A, NEW s \in Seq(A), NEW m \in Nat \ {0}, NEW n \in Int, n <= Len(s)
  PROVE  SubSeq(s, m, n) \in Seq(A)
<1>1. CASE m <= n
  <2>1. m \in 1..(Len(s) + 1) /\ n \in (m-1)..Len(s)
    BY <1>1
  <2> QED
    BY <2>1, SubSeqProperties
<1>2. CASE ~(m <= n)
  BY <1>2
<1> QED
  BY <1>1, <1>2

LEMMA StreamedType ==
  ASSUME NEW data \in Seq(Lex!Chars)
  PROVE  Streamed(data) \in Seq(Lex!Chars)
<1>1. Len(data) % ChunkSize \in Int /\ Len(data) % ChunkSize <= Len(data)
  <2>1. Len(data) \in Nat /\ ChunkSize \in Nat \ {0}
    BY ChunkSizeAssumption
  <2>2. \A a \in Nat : \A b \in Nat \ {0} : a % b \in Int /\ a % b <= a
    <3> SUFFICES ASSUME NEW a \in Nat, NEW b \in Nat \ {0} PROVE a % b \in Int /\ a % b <= a
      OBVIOUS
    <3>1. a % b \in 0..(b-1)
      OBVIOUS
    <3>2. a % b <= a
      OBVIOUS
    <3> QED
      BY <3>1, <3>2
  <2> QED
    BY <2>1, <2>2
<1> QED
  BY <1>1, PartType DEF Streamed

-----------------------------------------------------------------------------
(***************************************************************************)
(* A sequence is its last element after the others.                        *)
(***************************************************************************)
LEMMA LastFacts ==
  ASSUME NEW A, NEW s \in Seq(A), s # <<>>
  PROVE  /\ Len(s) \in Nat \ {0} /\ s[Len(s)] \in A
         /\ Front(s) \in Seq(A) /\ Len(Front(s)) = Len(s) - 1
         /\ s = Append(Front(s), s[Len(s)])
         /\ \A v \in A : [s EXCEPT ![Len(s)] = v] = Append(Front(s), v)
<1>1. Len(s) \in Nat \ {0} /\ \A i \in 1..Len(s) : s[i] \in A
  BY EmptySeq, ElementOfSeq
<1>2. /\ Front(s) \in Seq(A) /\ Len(Front(s)) = Len(s) - 1
      /\ \A i \in 1..(Len(s) - 1) : Front(s)[i] = s[i]
  <2>1. SubSeq(s, 1, Len(s) - 1) = [i \in 1..(Len(s) - 1) |-> s[i]]
    BY <1>1
  <2>2. Len(s) - 1 \in Nat /\ \A i \in 1..(Len(s) - 1) : s[i] \in A
    BY <1>1
  <2> DEFINE n == Len(s) - 1
             g == [i \in 1..n |-> s[i]]
  <2>3. g \in Seq(A) /\ Len(g) = n /\ \A i \in 1..n : g[i] = s[i]
    <3> HIDE DEF n
    <3> QED
      BY <2>2 DEF n
  <2>4. Front(s) = g
    BY <2>1 DEF Front
  <2> HIDE DEF g
  <2> QED
    BY <2>3, <2>4
<1>3. ASSUME NEW v \in A PROVE [s EXCEPT ![Len(s)] = v] = Append(Front(s), v)
  <2> DEFINE e == [s EXCEPT ![Len(s)] = v]
             a == Append(Front(s), v)
  <2>1. e \in Seq(A) /\ Len(e) = Len(s) /\ \A i \in 1..Len(s) : e[i] = IF i = Len(s) THEN v ELSE s[i]
    BY <1>1
  <2>2. /\ a \in Seq(A) /\ Len(a) = Len(s)
        /\ \A i \in 1..Len(s) : a[i] = IF i = Len(s) THEN v ELSE s[i]
    <3> DEFINE f == Front(s)
    <3>1. f \in Seq(A) /\ Len(f) = Len(s) - 1 /\ \A i \in 1..(Len(s) - 1) : f[i] = s[i]
      BY <1>2
    <3> HIDE DEF f
    <3>2. /\ Append(f, v) \in Seq(A) /\ Len(Append(f, v)) = Len(s)
          /\ \A i \in 1..(Len(s) - 1) : Append(f, v)[i] = f[i]
          /\ Append(f, v)[Len(s)] = v
      <4>1. Len(f) + 1 = Len(s)
        BY <1>1, <3>1
      <4> QED
        BY <3>1, <4>1, AppendProperties
    <3>3. \A i \in 1..Len(s) : i = Len(s) \/ i \in 1..(Len(s) - 1)
      BY <1>1
    <3>4. \A i \in 1..Len(s) : Append(f, v)[i] = IF i = Len(s) THEN v ELSE s[i]
      BY <3>1, <3>2, <3>3
    <3> QED
      BY <3>2, <3>4 DEF f
  <2> HIDE DEF e, a
  <2>3. e = a
    BY <2>1, <2>2, SeqEqual
  <2> QED
    BY <2>3 DEF e, a
<1>4. s = Append(Front(s), s[Len(s)])
  <2>1. [s EXCEPT ![Len(s)] = s[Len(s)]] = s
    BY <1>1
  <2>2. s[Len(s)] \in A
    BY <1>1
  <2> QED
    BY <1>3, <2>1, <2>2
<1> QED
  BY <1>1, <1>2, <1>3, <1>4

LEMMA FrontAppend ==
  ASSUME NEW A, NEW s \in Seq(A), NEW x \in A
  PROVE  /\ Append(s, x) \in Seq(A) /\ Append(s, x) # <<>>
         /\ Len(Append(s, x)) = Len(s) + 1 /\ Append(s, x)[Len(s) + 1] = x
         /\ \A i \in 1..Len(s) : Append(s, x)[i] = s[i]
         /\ Front(Append(s, x)) = s
<1> DEFINE t == Append(s, x)
<1>1. /\ t \in Seq(A) /\ t # <<>> /\ Len(t) = Len(s) + 1 /\ t[Len(s) + 1] = x
      /\ Len(s) \in Nat /\ \A i \in 1..Len(s) : t[i] = s[i]
  BY AppendProperties
<1> HIDE DEF t
<1>2. Front(t) = s
  <2>1. 1 \in 1..(Len(t) + 1) /\ Len(t) - 1 \in (1-1)..Len(t) /\ Len(t) - 1 = Len(s)
    BY <1>1
  <2>2. /\ Front(t) \in Seq(A) /\ Len(Front(t)) = Len(s)
        /\ \A i \in 1..Len(s) : Front(t)[i] = t[i]
    BY <1>1, <2>1, SubSeqProperties DEF Front
  <2>3. \A i \in 1..Len(s) : Front(t)[i] = s[i]
    BY <1>1, <2>2
  <2> QED
    BY <2>2, <2>3, SeqEqual
<1> QED
  BY <1>1, <1>2 DEF t

-----------------------------------------------------------------------------
(***************************************************************************)
(* The lists that are open, flattened: each with the bracket that opened   *)
(* it.                                                                     *)
(***************************************************************************)
Opens(ls) == FlattenSeq([k \in DOMAIN ls |-> <<Bracket("open")>> \o Flats(ls[k])])

LEMMA OpensFacts ==
  ASSUME Trees = AllTrees, NEW ls \in Seq(Seq(Trees)), NEW f \in Seq(Trees)
  PROVE  /\ Opens(ls) \in Seq(Items)
         /\ Opens(<<>>) = <<>>
         /\ Opens(Append(ls, f)) = Opens(ls) \o (<<Bracket("open")>> \o Flats(f))
<1> DEFINE T == Seq(Trees)
           B == Seq(Items)
           F == [g \in T |-> <<Bracket("open")>> \o Flats(g)]
<1>1. \A g \in T : <<Bracket("open")>> \o Flats(g) \in B
  <2>1. \A g \in T : Flats(g) \in B
    BY FlatsFacts
  <2>2. <<Bracket("open")>> \in B
    BY ItemFacts
  <2> QED
    BY <2>1, <2>2, ConcatProperties
<1>2. F \in [T -> B] /\ F[f] = <<Bracket("open")>> \o Flats(f)
  <2> HIDE DEF B
  <2> QED
    BY <1>1
<1>3. ASSUME NEW l \in Seq(T) PROVE Opens(l) = FlattenSeq(Mapped(F, l))
  <2>1. \A k \in DOMAIN l : l[k] \in T
    BY ElementOfSeq
  <2>2. Mapped(F, l) = [k \in DOMAIN l |-> <<Bracket("open")>> \o Flats(l[k])]
    BY <2>1 DEF Mapped
  <2> QED
    BY <2>2 DEF Opens
<1>4. ls \in Seq(T) /\ Append(ls, f) \in Seq(T)
  BY AppendProperties
<1> HIDE DEF T, B, F
<1>5. Maps(T, B, F, ls)
  BY <1>2, <1>4 DEF Maps
<1>6. Mapped(F, ls) \in Seq(B) /\ Mapped(F, Append(ls, f)) = Append(Mapped(F, ls), F[f])
  BY <1>5, MapFacts DEF T
<1>7. /\ FlattenSeq(Mapped(F, ls)) \in Seq(Items)
      /\ FlattenSeq(Append(Mapped(F, ls), F[f])) = FlattenSeq(Mapped(F, ls)) \o F[f]
  <2>1. F[f] \in Seq(Items)
    BY <1>2 DEF B, T
  <2> QED
    BY <1>6, <2>1, FlattenFacts DEF B
<1>8. Opens(<<>>) = <<>>
  <2>1. [k \in DOMAIN <<>> |-> <<Bracket("open")>> \o Flats(<<>>[k])] = <<>>
    OBVIOUS
  <2> QED
    BY <2>1 DEF Opens, FlattenSeq
<1> QED
  BY <1>2, <1>3, <1>4, <1>6, <1>7, <1>8

(***************************************************************************)
(* What is left to be written of the lists the writer is in: the rest of   *)
(* the innermost and its closing bracket, and then what is left around it. *)
(***************************************************************************)
Closing(f) == Flats(f) \o <<Bracket("close")>>

Left(ls) == FlattenSeq([k \in 1..Len(ls) |-> Closing(ls[Len(ls) + 1 - k])])

LEMMA ClosingType ==
  ASSUME Trees = AllTrees, NEW f \in Seq(Trees)
  PROVE  Closing(f) \in Seq(Items)
<1>1. Flats(f) \in Seq(Items) /\ <<Bracket("close")>> \in Seq(Items)
  BY FlatsFacts, ItemFacts
<1> QED
  BY <1>1, ConcatProperties DEF Closing

LEMMA LeftFacts ==
  ASSUME Trees = AllTrees, NEW ls \in Seq(Seq(Trees)), NEW f \in Seq(Trees)
  PROVE  /\ Left(ls) \in Seq(Items)
         /\ Left(<<>>) = <<>>
         /\ Left(Append(ls, f)) = Closing(f) \o Left(ls)
<1> DEFINE pieces(l) == [k \in 1..Len(l) |-> Closing(l[Len(l) + 1 - k])]
           t == Append(ls, f)
<1>1. ASSUME NEW l \in Seq(Seq(Trees))
      PROVE  /\ pieces(l) \in Seq(Seq(Items)) /\ Len(pieces(l)) = Len(l) /\ Len(l) \in Nat
             /\ \A k \in 1..Len(l) : pieces(l)[k] = Closing(l[Len(l) + 1 - k])
  <2>1. Len(l) \in Nat /\ \A k \in 1..Len(l) : Len(l) + 1 - k \in 1..Len(l)
    OBVIOUS
  <2>2. \A k \in 1..Len(l) : l[Len(l) + 1 - k] \in Seq(Trees)
    BY <2>1, ElementOfSeq
  <2>3. \A k \in 1..Len(l) : Closing(l[Len(l) + 1 - k]) \in Seq(Items)
    BY <2>2, ClosingType
  <2> QED
    BY <2>1, <2>3
<1>2. Left(ls) \in Seq(Items)
  BY <1>1, FlattenFacts DEF Left
<1>3. Left(<<>>) = <<>>
  BY DEF Left, FlattenSeq
<1>4. /\ t \in Seq(Seq(Trees)) /\ Len(t) = Len(ls) + 1 /\ t[Len(ls) + 1] = f
      /\ Len(ls) \in Nat /\ \A i \in 1..Len(ls) : t[i] = ls[i]
  BY FrontAppend
<1> HIDE DEF t
<1> DEFINE m == pieces(t)
<1>5. /\ m \in Seq(Seq(Items)) /\ Len(m) = Len(ls) + 1
      /\ \A k \in 1..(Len(ls) + 1) : m[k] = Closing(t[Len(ls) + 2 - k])
  <2>1. \A k \in 1..(Len(ls) + 1) : (Len(ls) + 1) + 1 - k = Len(ls) + 2 - k
    BY <1>4
  <2>2. /\ m \in Seq(Seq(Items)) /\ Len(m) = Len(t)
        /\ \A k \in 1..Len(t) : m[k] = Closing(t[Len(t) + 1 - k])
    BY <1>1, <1>4
  <2> HIDE DEF m
  <2> QED
    BY <1>4, <2>1, <2>2
<1> HIDE DEF m
<1>6. m # <<>> /\ Head(m) = Closing(f)
  <2>1. 1 \in 1..(Len(ls) + 1) /\ Len(ls) + 2 - 1 = Len(ls) + 1
    BY <1>4
  <2>2. m # <<>> /\ Head(m) = m[1]
    BY <1>4, <1>5
  <2> QED
    BY <1>4, <1>5, <2>1, <2>2
<1>7. Tail(m) = pieces(ls)
  <2>1. Tail(m) \in Seq(Seq(Items)) /\ Len(Tail(m)) = Len(ls)
        /\ \A k \in 1..Len(ls) : Tail(m)[k] = m[k+1]
    BY <1>4, <1>5, <1>6, HeadTailProperties
  <2>2. ASSUME NEW k \in 1..Len(ls) PROVE m[k+1] = Closing(ls[Len(ls) + 1 - k])
    <3>1. k + 1 \in 1..(Len(ls) + 1) /\ Len(ls) + 2 - (k + 1) = Len(ls) + 1 - k
          /\ Len(ls) + 1 - k \in 1..Len(ls)
      BY <1>4
    <3> QED
      BY <1>4, <1>5, <3>1
  <2>3. /\ pieces(ls) \in Seq(Seq(Items)) /\ Len(pieces(ls)) = Len(ls)
        /\ \A k \in 1..Len(ls) : pieces(ls)[k] = Closing(ls[Len(ls) + 1 - k])
    BY <1>1
  <2> HIDE DEF pieces
  <2>4. \A k \in 1..Len(ls) : Tail(m)[k] = pieces(ls)[k]
    BY <2>1, <2>2, <2>3
  <2> QED
    BY <2>1, <2>3, <2>4, SeqEqual
<1>8. FlattenSeq(m) = Closing(f) \o FlattenSeq(pieces(ls))
  <2> HIDE DEF pieces
  <2> QED
    BY <1>5, <1>6, <1>7, FlattenCons
<1> QED
  BY <1>2, <1>3, <1>8 DEF Left, t, m

-----------------------------------------------------------------------------
(***************************************************************************)
(* The depth of a token: brackets opened, less those closed, as far as it. *)
(***************************************************************************)
Places(items, i, tag) == {j \in 1..i : items[j].tag = tag}

LEMMA PlacesFacts ==
  ASSUME NEW w \in Seq(Items), NEW x \in Items, NEW tag
  PROVE  /\ \A i \in 0..Len(w) : /\ Cardinality(Places(w, i, tag)) \in Nat
                                 /\ Places(Append(w, x), i, tag) = Places(w, i, tag)
         /\ Cardinality(Places(Append(w, x), Len(w) + 1, tag)) =
              Cardinality(Places(w, Len(w), tag)) + (IF x.tag = tag THEN 1 ELSE 0)
<1> DEFINE t == Append(w, x)
           n == Len(w)
<1>1. n \in Nat /\ t[n+1] = x /\ \A i \in 1..n : t[i] = w[i]
  BY FrontAppend
<1> HIDE DEF t, n
<1>2. ASSUME NEW i \in 0..n
      PROVE  /\ IsFiniteSet(Places(w, i, tag)) /\ Cardinality(Places(w, i, tag)) \in Nat
             /\ Places(t, i, tag) = Places(w, i, tag)
  <2>1. i \in Nat /\ IsFiniteSet(1..i)
    BY <1>1, FS_Interval
  <2>2. IsFiniteSet(Places(w, i, tag))
    BY <2>1, FS_Subset DEF Places
  <2>3. \A j \in 1..i : t[j] = w[j]
    BY <1>1
  <2> QED
    BY <2>2, <2>3, FS_CardinalityType DEF Places
<1>3. n + 1 \notin Places(t, n, tag)
  BY <1>1 DEF Places
<1>4. Places(t, n + 1, tag) =
        IF x.tag = tag THEN Places(t, n, tag) \cup {n + 1} ELSE Places(t, n, tag)
  <2>1. 1..(n+1) = (1..n) \cup {n+1}
    BY <1>1
  <2> QED
    BY <1>1, <2>1 DEF Places
<1>5. /\ IsFiniteSet(Places(w, n, tag)) /\ Cardinality(Places(w, n, tag)) \in Nat
      /\ Places(t, n, tag) = Places(w, n, tag)
  <2>1. n \in 0..n
    BY <1>1
  <2> QED
    BY <1>2, <2>1
<1>6. x.tag = tag => Cardinality(Places(t, n + 1, tag)) = Cardinality(Places(w, n, tag)) + 1
  BY <1>3, <1>4, <1>5, FS_AddElement
<1>7. x.tag # tag => Cardinality(Places(t, n + 1, tag)) = Cardinality(Places(w, n, tag)) + 0
  BY <1>4, <1>5
<1> QED
  BY <1>2, <1>6, <1>7 DEF t, n

LEMMA DepthFacts ==
  ASSUME NEW w \in Seq(Items), NEW x \in Items
  PROVE  /\ \A i \in 0..Len(w) : /\ DepthAt(w, i) \in Int
                                 /\ DepthAt(Append(w, x), i) = DepthAt(w, i)
         /\ DepthAt(<<>>, 0) = 0
         /\ DepthAt(Append(w, x), Len(w) + 1) =
              DepthAt(w, Len(w)) + (IF x.tag = "open" THEN 1 ELSE IF x.tag = "close" THEN -1 ELSE 0)
<1> DEFINE t == Append(w, x)
           n == Len(w)
           o(l, i) == Cardinality(Places(l, i, "open"))
           c(l, i) == Cardinality(Places(l, i, "close"))
<1>1. \A l, i : DepthAt(l, i) = o(l, i) - c(l, i)
  BY DEF DepthAt, Places
<1>2. \A i \in 0..n : /\ o(w, i) \in Nat /\ c(w, i) \in Nat
                      /\ o(t, i) = o(w, i) /\ c(t, i) = c(w, i)
  BY PlacesFacts
<1>3. /\ o(t, n + 1) = o(w, n) + (IF x.tag = "open" THEN 1 ELSE 0)
      /\ c(t, n + 1) = c(w, n) + (IF x.tag = "close" THEN 1 ELSE 0)
  BY PlacesFacts
<1>4. o(<<>>, 0) = 0 /\ c(<<>>, 0) = 0
  <2>1. Places(<<>>, 0, "open") = {} /\ Places(<<>>, 0, "close") = {}
    BY DEF Places
  <2> QED
    BY <2>1, FS_EmptySet
<1>5. n \in 0..n
  OBVIOUS
<1> HIDE DEF o, c, t, n
<1>6. o(w, n) \in Nat /\ c(w, n) \in Nat
  BY <1>2, <1>5
<1>7. DepthAt(t, n + 1) =
        DepthAt(w, n) + (IF x.tag = "open" THEN 1 ELSE IF x.tag = "close" THEN -1 ELSE 0)
  <2>1. DepthAt(t, n + 1) = o(t, n + 1) - c(t, n + 1) /\ DepthAt(w, n) = o(w, n) - c(w, n)
    BY <1>1
  <2>2. CASE x.tag = "open"
    BY <1>3, <1>6, <2>1, <2>2
  <2>3. CASE x.tag = "close"
    BY <1>3, <1>6, <2>1, <2>3
  <2>4. CASE x.tag # "open" /\ x.tag # "close"
    BY <1>3, <1>6, <2>1, <2>4
  <2> QED
    BY <2>2, <2>3, <2>4
<1>8. \A i \in 0..n : DepthAt(w, i) \in Int /\ DepthAt(t, i) = DepthAt(w, i)
  BY <1>1, <1>2
<1>9. DepthAt(<<>>, 0) = 0
  BY <1>1, <1>4
<1> QED
  BY <1>7, <1>8, <1>9 DEF t, n

-----------------------------------------------------------------------------
(***************************************************************************)
(* The layout of some tokens, each after those before it.                  *)
(***************************************************************************)
StoreType == store \in Seq(Seq(Lex!Chars))

Stored(x) == x.tag \in {"name", "op", "str"} => x.str \in DOMAIN store
AllStored(w) == \A i \in 1..Len(w) : Stored(w[i])

Laid(w) == FlattenSeq([i \in DOMAIN w |-> LaidOutAs(w, i)])

TagBefore(w, i) == IF i = 1 THEN "none" ELSE w[i-1].tag

LEMMA LaidOutIs ==
  ASSUME NEW w, NEW i, w[i] \in Items
  PROVE  /\ w[i].tag = "open" =>
              LaidOutAs(w, i) = IF oneline THEN <<"open">> ELSE <<"colon">>
         /\ w[i].tag = "close" =>
              LaidOutAs(w, i) = IF oneline THEN <<"close">> ELSE <<>>
         /\ w[i].tag \in LeafTags =>
              LaidOutAs(w, i) =
                (CASE TagBefore(w, i) \in LeafTags -> <<"blank">>
                   [] TagBefore(w, i) = "close" /\ oneline -> <<"blank">>
                   [] TagBefore(w, i) \in {"open", "close"} /\ ~oneline ->
                        <<"newline">> \o Indent(DepthAt(w, i))
                   [] OTHER -> <<>>)
                \o SpellingOf(w[i])
  BY DEF LaidOutAs, TagBefore, LeafTags

LEMMA SpellingType ==
  ASSUME StoreType, NEW x \in Leaves, Stored(x)
  PROVE  SpellingOf(x) \in Seq(Lex!Chars)
<1>1. CASE x.tag = "int"
  <2>1. x.int \in Int
    BY <1>1, LeafFacts
  <2> QED
    BY <1>1, <2>1, NumeralType DEF SpellingOf
<1>2. CASE x.tag # "int"
  <2>1. x.tag \in {"name", "op", "str"} /\ x.str \in DOMAIN store
    BY <1>2, LeafFacts DEF Stored
  <2>2. store[x.str] \in Seq(Lex!Chars)
    BY <2>1, ElementOfSeq DEF StoreType
  <2>3. Quoted(store[x.str]) \in Seq(Lex!Chars)
    BY <2>2, QuotedType
  <2> QED
    BY <2>1, <2>2, <2>3 DEF SpellingOf
<1> QED
  BY <1>1, <1>2

LEMMA LaidOutType ==
  ASSUME StoreType, NEW w, NEW i, w[i] \in Items, Stored(w[i]), DepthAt(w, i) \in Int
  PROVE  LaidOutAs(w, i) \in Seq(Lex!Chars)
<1>0. /\ <<"open">> \in Seq(Lex!Chars) /\ <<"colon">> \in Seq(Lex!Chars)
      /\ <<"close">> \in Seq(Lex!Chars) /\ <<>> \in Seq(Lex!Chars)
      /\ <<"blank">> \in Seq(Lex!Chars) /\ <<"newline">> \in Seq(Lex!Chars)
  BY CharFacts
<1>1. CASE w[i].tag = "open"
  BY <1>0, <1>1, LaidOutIs
<1>2. CASE w[i].tag = "close"
  BY <1>0, <1>2, LaidOutIs
<1>3. CASE w[i].tag \in LeafTags
  <2> DEFINE space == CASE TagBefore(w, i) \in LeafTags -> <<"blank">>
                        [] TagBefore(w, i) = "close" /\ oneline -> <<"blank">>
                        [] TagBefore(w, i) \in {"open", "close"} /\ ~oneline ->
                             <<"newline">> \o Indent(DepthAt(w, i))
                        [] OTHER -> <<>>
  <2>1. w[i] \in Leaves
    BY <1>3, ItemFacts DEF LeafTags
  <2>2. SpellingOf(w[i]) \in Seq(Lex!Chars)
    BY <2>1, SpellingType
  <2>3. <<"newline">> \o Indent(DepthAt(w, i)) \in Seq(Lex!Chars)
    BY <1>0, IndentType, ConcatProperties
  <2>4. \/ space = <<"blank">> \/ space = <<>>
        \/ space = <<"newline">> \o Indent(DepthAt(w, i))
    OBVIOUS
  <2>5. LaidOutAs(w, i) = space \o SpellingOf(w[i])
    BY <1>3, LaidOutIs
  <2> HIDE DEF space
  <2>6. space \in Seq(Lex!Chars)
    BY <1>0, <2>3, <2>4
  <2> QED
    BY <2>2, <2>5, <2>6, ConcatProperties
<1> QED
  BY <1>1, <1>2, <1>3, ItemFacts

LEMMA LaidGrows ==
  ASSUME StoreType, NEW w \in Seq(Items), AllStored(w)
  PROVE  /\ Laid(w) \in Seq(Lex!Chars)
         /\ Laid(<<>>) = <<>>
         /\ \A x \in Items : Stored(x) =>
              /\ AllStored(Append(w, x))
              /\ Laid(Append(w, x)) = Laid(w) \o LaidOutAs(Append(w, x), Len(w) + 1)
<1> DEFINE A == Lex!Chars
           m(l) == [i \in DOMAIN l |-> LaidOutAs(l, i)]
<1>1. ASSUME NEW l \in Seq(Items), AllStored(l)
      PROVE  /\ m(l) \in Seq(Seq(A)) /\ Len(m(l)) = Len(l) /\ Len(l) \in Nat
             /\ \A i \in 1..Len(l) : m(l)[i] = LaidOutAs(l, i)
  <2>1. Len(l) \in Nat /\ DOMAIN l = 1..Len(l)
    OBVIOUS
  <2>2. ASSUME NEW i \in 1..Len(l) PROVE LaidOutAs(l, i) \in Seq(A)
    <3>1. l[i] \in Items /\ Stored(l[i])
      BY <1>1, ElementOfSeq DEF AllStored
    <3>2. DepthAt(l, i) \in Int
      <4>1. i \in 0..Len(l)
        BY <2>1
      <4> QED
        BY <4>1, DepthFacts, ItemFacts
    <3> QED
      BY <3>1, <3>2, LaidOutType
  <2> QED
    BY <2>1, <2>2
<1>2. Laid(w) \in Seq(A)
  BY <1>1, FlattenFacts DEF Laid
<1>3. Laid(<<>>) = <<>>
  BY DEF Laid, FlattenSeq
<1>4. ASSUME NEW x \in Items, Stored(x)
      PROVE  /\ AllStored(Append(w, x))
             /\ Laid(Append(w, x)) = Laid(w) \o LaidOutAs(Append(w, x), Len(w) + 1)
  <2> DEFINE t == Append(w, x)
             n == Len(w)
  <2>1. /\ t \in Seq(Items) /\ Len(t) = n + 1 /\ t[n+1] = x /\ n \in Nat
        /\ \A i \in 1..n : t[i] = w[i]
    BY FrontAppend
  <2>2. \A i \in 1..(n+1) : i = n + 1 \/ i \in 1..n
    BY <2>1
  <2> HIDE DEF t, n
  <2>3. AllStored(t)
    BY <1>4, <2>1, <2>2 DEF AllStored, n
  <2>4. ASSUME NEW i \in 1..n PROVE LaidOutAs(t, i) = LaidOutAs(w, i)
    <3>1. t[i] = w[i] /\ TagBefore(t, i) = TagBefore(w, i)
      <4>1. i # 1 => i - 1 \in 1..n
        BY <2>1
      <4> QED
        BY <2>1, <4>1 DEF TagBefore
    <3>2. DepthAt(t, i) = DepthAt(w, i)
      <4>1. i \in 0..n
        BY <2>1
      <4> QED
        BY <4>1, DepthFacts DEF t, n
    <3> QED
      BY <3>1, <3>2, Zenon DEF LaidOutAs, TagBefore
  <2>5. /\ m(w) \in Seq(Seq(A)) /\ Len(m(w)) = n
        /\ \A i \in 1..n : m(w)[i] = LaidOutAs(w, i)
    BY <1>1 DEF n
  <2>6. /\ m(t) \in Seq(Seq(A)) /\ Len(m(t)) = n + 1
        /\ \A i \in 1..(n+1) : m(t)[i] = LaidOutAs(t, i)
    BY <1>1, <2>1, <2>3
  <2> HIDE DEF m
  <2> DEFINE y == LaidOutAs(t, n + 1)
  <2>7. y \in Seq(A)
    <3>1. n + 1 \in 1..(n+1)
      BY <2>1
    <3> QED
      BY <2>6, <3>1, ElementOfSeq
  <2> HIDE DEF y
  <2>8. m(t) = Append(m(w), y)
    <3>1. /\ Append(m(w), y) \in Seq(Seq(A)) /\ Len(Append(m(w), y)) = n + 1
          /\ \A i \in 1..n : Append(m(w), y)[i] = m(w)[i]
          /\ Append(m(w), y)[n+1] = y
      BY <2>5, <2>7, AppendProperties
    <3>2. \A i \in 1..(n+1) : m(t)[i] = Append(m(w), y)[i]
      <4> SUFFICES ASSUME NEW i \in 1..(n+1) PROVE m(t)[i] = Append(m(w), y)[i]
        OBVIOUS
      <4>1. CASE i = n + 1
        BY <2>6, <3>1, <4>1 DEF y
      <4>2. CASE i \in 1..n
        BY <2>4, <2>5, <2>6, <3>1, <4>2
      <4> QED
        BY <2>2, <4>1, <4>2
    <3> QED
      BY <2>6, <3>1, <3>2, SeqEqual
  <2>9. FlattenSeq(Append(m(w), y)) = FlattenSeq(m(w)) \o y
    BY <2>5, <2>7, FlattenFacts
  <2>10. Laid(t) = FlattenSeq(m(t)) /\ Laid(w) = FlattenSeq(m(w))
    BY DEF Laid, m
  <2> QED
    BY <2>3, <2>8, <2>9, <2>10 DEF t, n, y
<1> QED
  BY <1>2, <1>3, <1>4

-----------------------------------------------------------------------------
(***************************************************************************)
(* Trees, printed one after the other.                                     *)
(***************************************************************************)
Renders(ts) == FlattenSeq([i \in DOMAIN ts |-> Rendered(ts[i])])
TreesStored(ts) == \A i \in 1..Len(ts) : AllStored(Flat[ts[i]])

LEMMA RenderedIs ==
  ASSUME StoreType, Trees = AllTrees, NEW t \in Trees, AllStored(Flat[t])
  PROVE  /\ Rendered(t) = Laid(Flat[t]) \o <<"newline">>
         /\ Rendered(t) \in Seq(Lex!Chars)
<1>1. Rendered(t) = Laid(Flat[t]) \o <<"newline">>
  BY DEF Rendered, Laid
<1>2. Flat[t] \in Seq(Items)
  BY FlatIs
<1>3. Laid(Flat[t]) \in Seq(Lex!Chars) /\ <<"newline">> \in Seq(Lex!Chars)
  BY <1>2, LaidGrows, CharFacts
<1> QED
  BY <1>1, <1>3, ConcatProperties

LEMMA RendersGrows ==
  ASSUME StoreType, Trees = AllTrees, NEW ts \in Seq(Trees), TreesStored(ts)
  PROVE  /\ Renders(ts) \in Seq(Lex!Chars)
         /\ Renders(<<>>) = <<>>
         /\ \A t \in Trees : AllStored(Flat[t]) =>
              /\ TreesStored(Append(ts, t))
              /\ Renders(Append(ts, t)) = Renders(ts) \o (Laid(Flat[t]) \o <<"newline">>)
<1> DEFINE A == Seq(Lex!Chars)
           T == {t \in Trees : AllStored(Flat[t])}
           F == [t \in T |-> Rendered(t)]
<1>1. F \in [T -> A]
  <2>1. \A t \in T : Rendered(t) \in A
    BY RenderedIs
  <2> HIDE DEF T, A
  <2> QED
    BY <2>1
<1>2. ASSUME NEW l \in Seq(T) PROVE Renders(l) = FlattenSeq(Mapped(F, l))
  <2>1. \A i \in DOMAIN l : l[i] \in T
    BY ElementOfSeq
  <2>2. Mapped(F, l) = [i \in DOMAIN l |-> Rendered(l[i])]
    <3> HIDE DEF T
    <3> QED
      BY <2>1 DEF Mapped
  <2> QED
    BY <2>2 DEF Renders
<1>3. ts \in Seq(T)
  <2>1. Len(ts) \in Nat /\ \A i \in 1..Len(ts) : ts[i] \in T
    BY ElementOfSeq DEF TreesStored
  <2>2. ts = [i \in 1..Len(ts) |-> ts[i]]
    BY LenProperties
  <2> HIDE DEF T
  <2> QED
    BY <2>1, <2>2, IsASeq
<1>4. ASSUME NEW t \in Trees, AllStored(Flat[t])
      PROVE  TreesStored(Append(ts, t))
  <2>1. /\ Len(Append(ts, t)) = Len(ts) + 1 /\ Append(ts, t)[Len(ts) + 1] = t
        /\ Len(ts) \in Nat /\ \A i \in 1..Len(ts) : Append(ts, t)[i] = ts[i]
    BY FrontAppend
  <2>2. \A i \in 1..(Len(ts) + 1) : i = Len(ts) + 1 \/ i \in 1..Len(ts)
    BY <2>1
  <2> QED
    BY <1>4, <2>1, <2>2 DEF TreesStored
<1>5. \A t \in T : F[t] = Laid(Flat[t]) \o <<"newline">>
  BY RenderedIs
<1>6. \A t \in Trees : AllStored(Flat[t]) => t \in T
  OBVIOUS
<1> HIDE DEF T, A, F
<1>7. Maps(T, A, F, ts)
  BY <1>1, <1>3 DEF Maps
<1>8. /\ Mapped(F, ts) \in Seq(A)
      /\ \A t \in T : Mapped(F, Append(ts, t)) = Append(Mapped(F, ts), F[t])
  BY <1>7, MapFacts
<1>9. /\ FlattenSeq(Mapped(F, ts)) \in Seq(Lex!Chars)
      /\ \A x \in Seq(Lex!Chars) :
           FlattenSeq(Append(Mapped(F, ts), x)) = FlattenSeq(Mapped(F, ts)) \o x
  <2>1. Mapped(F, ts) \in Seq(Seq(Lex!Chars))
    BY <1>8 DEF A
  <2> QED
    BY <2>1, FlattenFacts
<1>10. ASSUME NEW t \in T
       PROVE  Renders(Append(ts, t)) = Renders(ts) \o F[t]
  <2>1. Append(ts, t) \in Seq(T) /\ F[t] \in Seq(Lex!Chars)
    <3>1. F[t] \in A
      BY <1>1
    <3> QED
      BY <1>3, <3>1, AppendProperties DEF A
  <2> QED
    BY <1>2, <1>3, <1>8, <1>9, <2>1
<1>11. Renders(ts) \in Seq(Lex!Chars)
  BY <1>2, <1>3, <1>9
<1>12. Renders(<<>>) = <<>>
  BY DEF Renders, FlattenSeq
<1> QED
  BY <1>4, <1>5, <1>6, <1>10, <1>11, <1>12

-----------------------------------------------------------------------------
(***************************************************************************)
(* A string that is in the store stays at its place: what has been printed *)
(* stays what the trees call for.                                          *)
(***************************************************************************)
StoreGrows == oneline' = oneline /\ (store' = store \/ \E s \in Seq(Lex!Chars) : Intern(s))

LEMMA StoreStep ==
  ASSUME StoreType, StoreGrows
  PROVE  /\ StoreType'
         /\ \A i \in DOMAIN store : i \in DOMAIN store' /\ store'[i] = store[i]
<1>1. CASE store' = store
  BY <1>1 DEF StoreType
<1>2. ASSUME NEW s \in Seq(Lex!Chars), store' = Append(store, s)
      PROVE  /\ StoreType'
             /\ \A i \in DOMAIN store : i \in DOMAIN store' /\ store'[i] = store[i]
  <2>1. /\ store' \in Seq(Seq(Lex!Chars)) /\ Len(store') = Len(store) + 1
        /\ \A i \in 1..Len(store) : store'[i] = store[i]
    BY <1>2, FrontAppend DEF StoreType
  <2>2. Len(store) \in Nat /\ DOMAIN store = 1..Len(store) /\ DOMAIN store' = 1..(Len(store) + 1)
    BY <2>1 DEF StoreType
  <2> QED
    BY <2>1, <2>2 DEF StoreType
<1> QED
  BY <1>1, <1>2 DEF StoreGrows, Intern

LEMMA StoredStays ==
  ASSUME StoreType, StoreGrows, NEW x, Stored(x)
  PROVE  Stored(x)' /\ (x \in Leaves => SpellingOf(x)' = SpellingOf(x))
<1>1. \A i \in DOMAIN store : i \in DOMAIN store' /\ store'[i] = store[i]
  BY StoreStep
<1>2. Stored(x)'
  BY <1>1 DEF Stored
<1>3. ASSUME x \in Leaves PROVE SpellingOf(x)' = SpellingOf(x)
  <2>1. x.tag = "int" \/ (x.tag \in {"name", "op", "str"} /\ x.str \in DOMAIN store)
    BY <1>3, LeafFacts DEF Stored
  <2>2. x.tag # "int" => store'[x.str] = store[x.str]
    BY <1>1, <2>1
  <2> QED
    BY <2>1, <2>2 DEF SpellingOf
<1> QED
  BY <1>2, <1>3

LEMMA LaidStays ==
  ASSUME StoreType, StoreGrows, NEW w \in Seq(Items), AllStored(w)
  PROVE  AllStored(w)' /\ Laid(w)' = Laid(w)
<1>1. AllStored(w)'
  BY StoredStays DEF AllStored
<1>2. ASSUME NEW i \in 1..Len(w) PROVE LaidOutAs(w, i)' = LaidOutAs(w, i)
  <2>1. w[i] \in Items /\ Stored(w[i])
    BY ElementOfSeq DEF AllStored
  <2>2. w[i].tag \in LeafTags => SpellingOf(w[i])' = SpellingOf(w[i])
    <3>1. w[i].tag \in LeafTags => w[i] \in Leaves
      BY <2>1, ItemFacts DEF LeafTags
    <3> QED
      BY <2>1, <3>1, StoredStays
  <2>3. oneline' = oneline
    BY DEF StoreGrows
  <2>4. CASE w[i].tag = "open"
    BY <2>3, <2>4 DEF LaidOutAs, LeafTags
  <2>5. CASE w[i].tag = "close"
    BY <2>3, <2>5 DEF LaidOutAs, LeafTags
  <2>6. CASE w[i].tag \in LeafTags
    BY <2>2, <2>3, <2>6 DEF LaidOutAs
  <2> QED
    BY <2>1, <2>4, <2>5, <2>6, ItemFacts
<1>3. DOMAIN w = 1..Len(w)
  OBVIOUS
<1> QED
  BY <1>1, <1>2, <1>3 DEF Laid

LEMMA RendersStay ==
  ASSUME StoreType, StoreGrows, Trees = AllTrees, NEW ts \in Seq(Trees), TreesStored(ts)
  PROVE  TreesStored(ts)' /\ Renders(ts)' = Renders(ts)
<1>1. \A i \in 1..Len(ts) : ts[i] \in Trees /\ Flat[ts[i]] \in Seq(Items) /\ AllStored(Flat[ts[i]])
  BY ElementOfSeq, FlatIs DEF TreesStored
<1>2. \A i \in 1..Len(ts) : AllStored(Flat[ts[i]])' /\ Laid(Flat[ts[i]])' = Laid(Flat[ts[i]])
  BY <1>1, LaidStays
<1>3. \A i \in 1..Len(ts) : Rendered(ts[i])' = Rendered(ts[i])
  BY <1>2 DEF Rendered, Laid
<1>4. DOMAIN ts = 1..Len(ts)
  OBVIOUS
<1> QED
  BY <1>2, <1>3, <1>4 DEF TreesStored, Renders

-----------------------------------------------------------------------------
(***************************************************************************)
(* The lexer's proofs are about the lexer of this program.                 *)
(***************************************************************************)
LexP == INSTANCE LexerProofs

(***************************************************************************)
(* The module's own names for what it shares with the program.             *)
(***************************************************************************)
LEMMA SameCounting ==
  /\ \A S : Lex!Cardinality(S) = LexP!Cardinality(S)
  /\ \A S : Lex!Min(S) = LexP!Min(S)
BY DEF Lex!Cardinality, LexP!Cardinality, Lex!Min, LexP!Min

LEMMA SameReading ==
  /\ Lex!Letters = LexP!Letters /\ Lex!Graph = LexP!Graph /\ Lex!Chars = LexP!Chars
  /\ \A p : Lex!At(p) = LexP!At(p)
  /\ \A S, p : Lex!RunEnd(S, p) = LexP!RunEnd(S, p)
  /\ \A chars : Lex!Looking(chars) <=> LexP!Looking(chars)
  /\ Lex!AtInt <=> LexP!AtInt
  /\ Lex!AtBlockstr <=> LexP!AtBlockstr
  /\ \A kd, from, to : Lex!Token(kd, from, to) = LexP!Token(kd, from, to)
  /\ \A kd, to : Lex!Take(kd, to) <=> LexP!Take(kd, to)
BY DEF Lex!Letters, LexP!Letters, Lex!Graph, LexP!Graph, Lex!Space, LexP!Space,
       Lex!Chars, LexP!Chars, Lex!At, LexP!At, Lex!RunEnd, LexP!RunEnd,
       Lex!Looking, LexP!Looking, Lex!AtInt, LexP!AtInt, Lex!AtBlockstr, LexP!AtBlockstr,
       Lex!Token, LexP!Token, Lex!Take, LexP!Take

LEMMA SameIndents ==
  /\ \A p : Lex!IndentEnd(p) = LexP!IndentEnd(p)
  /\ \A p : Lex!IndentAt(p) = LexP!IndentAt(p)
  /\ \A p : Lex!IndentIsBad(p) <=> LexP!IndentIsBad(p)
  /\ \A n : Lex!Kept(n) = LexP!Kept(n)
BY SameReading, SameCounting DEF Lex!IndentEnd, LexP!IndentEnd, Lex!IndentAt, LexP!IndentAt,
       Lex!IndentIsBad, LexP!IndentIsBad, Lex!Kept, LexP!Kept

LEMMA SameQuotes ==
  /\ Lex!Closings = LexP!Closings
  /\ Lex!StrEnd = LexP!StrEnd
BY SameReading, SameCounting DEF Lex!Escaped, LexP!Escaped, Lex!Closings, LexP!Closings,
       Lex!StrEnd, LexP!StrEnd

LEMMA SameStep == Lex!Step => LexP!Step
<1>1. Lex!ReturnClose => LexP!ReturnClose
  BY SameReading DEF Lex!ReturnClose, LexP!ReturnClose, Lex!Closed, LexP!Closed
<1>2. Lex!Newline => LexP!Newline
  BY SameReading, SameIndents DEF Lex!Newline, LexP!Newline
<1>3. Lex!EndOfText => LexP!EndOfText
  BY SameReading DEF Lex!EndOfText, LexP!EndOfText
<1>4. Lex!Colon => LexP!Colon
  BY SameReading DEF Lex!Colon, LexP!Colon, Lex!Opened, LexP!Opened,
     Lex!PushIndent, LexP!PushIndent, Lex!ReallocFails, LexP!ReallocFails
<1>5. Lex!Whitespace => LexP!Whitespace
  BY SameReading DEF Lex!Whitespace, LexP!Whitespace
<1>6. Lex!Comment => LexP!Comment
  BY SameReading DEF Lex!Comment, LexP!Comment
<1>7. Lex!Bracket => LexP!Bracket
  BY SameReading DEF Lex!Bracket, LexP!Bracket
<1>8. Lex!Name => LexP!Name
  BY SameReading DEF Lex!Name, LexP!Name
<1>9. Lex!Number => LexP!Number
  BY SameReading DEF Lex!Number, LexP!Number
<1>10. Lex!Blockstr => LexP!Blockstr
  BY SameReading DEF Lex!Blockstr, LexP!Blockstr
<1>11. Lex!Str => LexP!Str
  BY SameReading, SameQuotes DEF Lex!Str, LexP!Str
<1>12. Lex!Op => LexP!Op
  BY SameReading DEF Lex!Op, LexP!Op, Lex!lexVars, LexP!lexVars
<1> QED
  BY <1>1, <1>2, <1>3, <1>4, <1>5, <1>6, <1>7, <1>8, <1>9, <1>10, <1>11, <1>12
     DEF Lex!Step, LexP!Step

LEMMA SameTypes == Lex!TypeOK <=> LexP!TypeOK
  BY SameReading DEF Lex!TypeOK, LexP!TypeOK, Lex!Kinds, LexP!Kinds

-----------------------------------------------------------------------------
(***************************************************************************)
(* The lexer at work: it returns one token after another, each of them in  *)
(* the text it has gone through.                                           *)
(***************************************************************************)
TokenType == [kind : Lex!Kinds, from : Nat, to : Nat]

LexInv ==
  /\ Lex!TypeOK
  /\ \A i \in 1..Len(tokens) : tokens[i].to <= pos

LEMMA LexAssumptions == Texts \subseteq Seq(LexP!Chars) /\ InitialIndents \in Nat \ {0}
  BY LexerAssumption, SameReading

LEMMA FreshHere ==
  text \in Seq(Lex!Chars) /\ LexP!Fresh => Lex!TypeOK
<1>1. text \in Seq(LexP!Chars) /\ InitialIndents \in Nat \ {0} /\ LexP!Fresh => LexP!TypeOK
  BY LexP!FreshTypes, LexAssumptions
<1> QED
  BY <1>1, LexAssumptions, SameReading, SameTypes

LEMMA LexRuns ==
  ASSUME Lex!Step
  PROVE  status = "run" /\ (tokens' # tokens => status' = "run")
<1>1. CASE Lex!ReturnClose
  BY <1>1 DEF Lex!ReturnClose
<1>2. CASE Lex!Newline \/ Lex!EndOfText \/ Lex!Whitespace \/ Lex!Comment
  BY <1>2 DEF Lex!Newline, Lex!EndOfText, Lex!Whitespace, Lex!Comment, Lex!Looking
<1>3. CASE Lex!Colon \/ Lex!Bracket \/ Lex!Name \/ Lex!Number \/ Lex!Blockstr
  BY <1>3 DEF Lex!Colon, Lex!Bracket, Lex!Name, Lex!Number, Lex!Blockstr, Lex!Take, Lex!Looking
<1>4. CASE Lex!Str
  BY <1>4 DEF Lex!Str, Lex!Take, Lex!Looking
<1>5. CASE Lex!Op
  <2>1. UNCHANGED Lex!lexVars \/ UNCHANGED status
    BY <1>5 DEF Lex!Op, Lex!Take
  <2> QED
    BY <1>5, <2>1 DEF Lex!Op, Lex!Looking, Lex!lexVars
<1> QED
  BY <1>1, <1>2, <1>3, <1>4, <1>5 DEF Lex!Step

LEMMA LexGoesOn ==
  ASSUME LexInv, Lex!Step
  PROVE  /\ LexInv' /\ text' = text
         /\ tokens' = tokens \/ \E t \in TokenType : tokens' = Append(tokens, t)
<1>1. LexP!TypeOK /\ LexP!Step
  BY SameTypes, SameStep DEF LexInv
<1>2. LexP!TypeOK'
  BY <1>1, LexP!TypeStep, LexAssumptions
<1>3. (Lex!TypeOK <=> LexP!TypeOK)'
  BY SameTypes, PTL
<1>4. /\ text' = text /\ pos' \in pos..Len(text)
      /\ tokens' = tokens \/ \E t : LexP!Returns(t)
  BY <1>1, LexP!Progress, LexAssumptions
<1>5. /\ tokens \in Seq(TokenType) /\ pos \in Nat /\ pos' \in Nat /\ pos <= pos'
      /\ \A i \in 1..Len(tokens) : tokens[i].to <= pos
  BY <1>4 DEF LexInv, Lex!TypeOK, TokenType
<1>6. \A i \in 1..Len(tokens) : tokens[i].to \in Nat /\ tokens[i].to <= pos'
  <2>1. \A i \in 1..Len(tokens) : tokens[i] \in TokenType
    BY <1>5, ElementOfSeq
  <2> QED
    BY <1>5, <2>1 DEF TokenType
<1>7. CASE tokens' = tokens
  BY <1>2, <1>3, <1>4, <1>6, <1>7 DEF LexInv
<1>8. ASSUME NEW t, LexP!Returns(t)
      PROVE  /\ LexInv'
             /\ \E u \in TokenType : tokens' = Append(tokens, u)
  <2>1. t \in TokenType /\ tokens' = Append(tokens, t) /\ t.to \in pos..pos'
    BY <1>8 DEF LexP!Returns, LexP!TokenType, TokenType, LexP!Kinds, Lex!Kinds
  <2>2. /\ Len(tokens') = Len(tokens) + 1 /\ tokens'[Len(tokens) + 1] = t
        /\ \A i \in 1..Len(tokens) : tokens'[i] = tokens[i]
    BY <1>5, <2>1, FrontAppend
  <2>3. \A i \in 1..(Len(tokens) + 1) : i = Len(tokens) + 1 \/ i \in 1..Len(tokens)
    BY <1>5
  <2>4. \A i \in 1..Len(tokens') : tokens'[i].to <= pos'
    BY <1>6, <2>1, <2>2, <2>3
  <2> QED
    BY <1>2, <1>3, <2>1, <2>4 DEF LexInv
<1> QED
  BY <1>4, <1>7, <1>8

LEMMA LexStarts ==
  ASSUME NEW data \in Seq(Lex!Chars), Lex!LoadText(data)
  PROVE  LexInv' /\ tokens' = <<>> /\ text' = data /\ status' \in {"run", "error"}
<1>1. (/\ \A p : Lex!IndentEnd(p) = LexP!IndentEnd(p)
       /\ \A p : Lex!IndentAt(p) = LexP!IndentAt(p)
       /\ \A p : Lex!IndentIsBad(p) <=> LexP!IndentIsBad(p)
       /\ \A n : Lex!Kept(n) = LexP!Kept(n))'
  BY SameIndents, PTL
<1>2. LexP!Fresh' /\ text' = data
  BY <1>1 DEF Lex!LoadText, LexP!Fresh
<1>3. (text \in Seq(Lex!Chars) /\ LexP!Fresh => Lex!TypeOK)'
  BY FreshHere, PTL
<1>6. Lex!TypeOK'
  BY <1>2, <1>3
<1>7. tokens' = <<>> /\ status' \in {"run", "error"}
  BY DEF Lex!LoadText
<1> QED
  BY <1>2, <1>6, <1>7 DEF LexInv

LEMMA LexBegins ==
  ASSUME Lex!Init
  PROVE  LexInv /\ tokens = <<>> /\ status \in {"run", "error"}
<1>1. text \in Seq(Lex!Chars) /\ LexP!Fresh
  BY SameIndents, LexerAssumption DEF Lex!Init, LexP!Fresh
<1>2. Lex!TypeOK
  BY <1>1, FreshHere
<1>3. tokens = <<>> /\ status \in {"run", "error"}
  BY DEF Lex!Init
<1> QED
  BY <1>2, <1>3 DEF LexInv

(***************************************************************************)
(* What a token stands for, while the text stays the same.                 *)
(***************************************************************************)
LEMMA StringType ==
  ASSUME LexInv, NEW t \in TokenType, t.to <= pos
  PROVE  /\ StringOf(t) \in Seq(Lex!Chars)
         /\ IntOf(Spelling(t)) \in Int
<1>1. /\ text \in Seq(Lex!Chars) /\ Len(text) \in Nat
      /\ t.from \in Nat /\ t.to \in Nat /\ t.to <= Len(text)
  BY DEF LexInv, Lex!TypeOK, TokenType
<1>2. SubSeq(text, t.from + 1, t.to) \in Seq(Lex!Chars)
  BY <1>1, PartType
<1>3. SubSeq(text, t.from + 2, t.to - 1) \in Seq(Lex!Chars)
  BY <1>1, PartType
<1>4. SubSeq(text, t.from + 3, t.to) \in Seq(Lex!Chars)
  BY <1>1, PartType
<1>5. Unescaped(SubSeq(text, t.from + 2, t.to - 1)) \in Seq(Lex!Chars)
  BY <1>3, UnescapedType
<1>6. StringOf(t) \in Seq(Lex!Chars)
  BY <1>2, <1>4, <1>5 DEF StringOf, Spelling
<1> QED
  BY <1>2, <1>6, IntOfType DEF Spelling

-----------------------------------------------------------------------------
(***************************************************************************)
(* The parser's side: the tokens taken and what they stand for.            *)
(***************************************************************************)
Meanings(ts) == [i \in DOMAIN ts |-> Meaning(ts[i])]

IsString(t) == t.kind \in {"name", "op", "str", "blockstr"}
Placed(ts) == \A i \in 1..Len(ts) : IsString(ts[i]) => StringOf(ts[i]) \in Range(store)

StoreInv == StoreType /\ \A i, j \in DOMAIN store : store[i] = store[j] => i = j

LEMMA MeaningsGrow ==
  ASSUME NEW ts \in Seq(TokenType), NEW t \in TokenType
  PROVE  /\ Meanings(Append(ts, t)) = Append(Meanings(ts), Meaning(t))
         /\ Meanings(<<>>) = <<>> /\ Placed(<<>>)
         /\ Placed(ts) /\ (IsString(t) => StringOf(t) \in Range(store)) => Placed(Append(ts, t))
<1> DEFINE u == Append(ts, t)
           n == Len(ts)
<1>1. /\ u \in Seq(TokenType) /\ Len(u) = n + 1 /\ u[n+1] = t /\ n \in Nat
      /\ \A i \in 1..n : u[i] = ts[i]
  BY FrontAppend
<1>2. \A i \in 1..(n+1) : i = n + 1 \/ i \in 1..n
  BY <1>1
<1> HIDE DEF u
<1>3. Placed(ts) /\ (IsString(t) => StringOf(t) \in Range(store)) => Placed(u)
  BY <1>1, <1>2 DEF Placed
<1>4. Meanings(<<>>) = <<>> /\ Placed(<<>>)
  BY DEF Meanings, Placed
<1>5. Meanings(u) = Append(Meanings(ts), Meaning(t))
  <2> DEFINE V == {Meaning(x) : x \in TokenType}
             m == Meanings(ts)
             v == Meaning(t)
  <2>1. /\ m \in Seq(V) /\ Len(m) = n /\ \A i \in 1..n : m[i] = Meaning(ts[i])
    <3>1. \A i \in 1..n : ts[i] \in TokenType
      BY ElementOfSeq
    <3>2. DOMAIN ts = 1..n
      OBVIOUS
    <3>3. \A i \in 1..n : Meaning(ts[i]) \in V
      BY <3>1
    <3> HIDE DEF V, n
    <3>4. m = [i \in 1..n |-> Meaning(ts[i])]
      BY <3>2 DEF Meanings
    <3> HIDE DEF m
    <3> QED
      BY <1>1, <3>3, <3>4
  <2>2. /\ Meanings(u) \in Seq(V) /\ Len(Meanings(u)) = n + 1
        /\ \A i \in 1..(n+1) : Meanings(u)[i] = Meaning(u[i])
    <3>1. \A i \in 1..(n+1) : u[i] \in TokenType
      BY <1>1, ElementOfSeq
    <3>2. DOMAIN u = 1..(n+1) /\ n + 1 \in Nat
      BY <1>1
    <3>3. \A i \in 1..(n+1) : Meaning(u[i]) \in V
      BY <3>1
    <3> HIDE DEF V, n
    <3>4. Meanings(u) = [i \in 1..(n+1) |-> Meaning(u[i])]
      BY <3>2 DEF Meanings
    <3> QED
      BY <3>2, <3>3, <3>4
  <2>3. v \in V
    OBVIOUS
  <2> HIDE DEF V, m
  <2>4. /\ Append(m, v) \in Seq(V) /\ Len(Append(m, v)) = n + 1
        /\ Append(m, v)[n+1] = v /\ \A i \in 1..n : Append(m, v)[i] = m[i]
    <3> HIDE DEF v
    <3> QED
      BY <2>1, <2>3, FrontAppend
  <2>5. \A i \in 1..(n+1) : Meanings(u)[i] = Append(m, v)[i]
    <3> SUFFICES ASSUME NEW i \in 1..(n+1) PROVE Meanings(u)[i] = Append(m, v)[i]
      OBVIOUS
    <3>1. CASE i = n + 1
      BY <1>1, <2>2, <2>4, <3>1
    <3>2. CASE i \in 1..n
      BY <1>1, <2>1, <2>2, <2>4, <3>2
    <3> QED
      BY <1>2, <3>1, <3>2
  <2> HIDE DEF v
  <2>6. Meanings(u) = Append(m, v)
    BY <2>2, <2>4, <2>5, SeqEqual
  <2> QED
    BY <2>6 DEF m, v
<1> QED
  BY <1>3, <1>4, <1>5 DEF u

LEMMA MeaningsGrowing ==
  \A u \in Seq(TokenType) : \A t \in TokenType :
    /\ Meanings(Append(u, t)) = Append(Meanings(u), Meaning(t))
    /\ Placed(u) /\ (IsString(t) => StringOf(t) \in Range(store)) => Placed(Append(u, t))
  BY MeaningsGrow

(***************************************************************************)
(* A string has one place, which it keeps.                                 *)
(***************************************************************************)
LEMMA PlaceFacts ==
  ASSUME StoreInv, NEW s \in Range(store)
  PROVE  /\ Place(s, store) \in DOMAIN store /\ store[Place(s, store)] = s
         /\ Place(s, store) \in Nat \ {0}
         /\ \A i \in DOMAIN store : store[i] = s => i = Place(s, store)
<1>1. \E i \in DOMAIN store : store[i] = s
  BY DEF Range
<1>2. Place(s, store) \in DOMAIN store /\ store[Place(s, store)] = s
  BY <1>1 DEF Place
<1>3. DOMAIN store = 1..Len(store)
  BY DEF StoreInv, StoreType
<1> QED
  BY <1>2, <1>3 DEF StoreInv

LEMMA InternStep ==
  ASSUME StoreInv, NEW s \in Seq(Lex!Chars), Intern(s)
  PROVE  /\ StoreInv' /\ s \in Range(store')
         /\ \A x \in Range(store) : x \in Range(store') /\ Place(x, store') = Place(x, store)
<1>1. CASE s \in Range(store)
  <2>1. store' = store
    BY <1>1 DEF Intern
  <2> QED
    BY <1>1, <2>1 DEF StoreInv, StoreType
<1>2. CASE s \notin Range(store)
  <2> DEFINE n == Len(store)
  <2>1. store' = Append(store, s)
    BY <1>2 DEF Intern
  <2>2. /\ store' \in Seq(Seq(Lex!Chars)) /\ Len(store') = n + 1 /\ store'[n+1] = s
        /\ \A i \in 1..n : store'[i] = store[i]
    BY <2>1, FrontAppend DEF StoreInv, StoreType
  <2>3. n \in Nat /\ DOMAIN store = 1..n /\ DOMAIN store' = 1..(n+1)
    BY <2>2 DEF StoreInv, StoreType
  <2>4. \A i \in 1..(n+1) : i = n + 1 \/ i \in 1..n
    BY <2>3
  <2>5. \A i \in 1..n : store[i] # s
    BY <1>2, <2>3 DEF Range
  <2>6. \A i, j \in 1..n : store[i] = store[j] => i = j
    BY <2>3 DEF StoreInv
  <2> HIDE DEF n
  <2>7. \A i, j \in DOMAIN store' : store'[i] = store'[j] => i = j
    BY <2>2, <2>3, <2>4, <2>5, <2>6
  <2>8. StoreInv'
    BY <2>2, <2>7 DEF StoreInv, StoreType
  <2>9. s \in Range(store')
    <3>1. n + 1 \in DOMAIN store'
      BY <2>3
    <3> QED
      BY <2>2, <3>1 DEF Range
  <2>10. ASSUME NEW x \in Range(store)
         PROVE  x \in Range(store') /\ Place(x, store') = Place(x, store)
    <3> DEFINE i == Place(x, store)
    <3>1. i \in DOMAIN store /\ store[i] = x
      BY PlaceFacts
    <3>2. i \in DOMAIN store' /\ store'[i] = x
      BY <2>2, <2>3, <3>1
    <3>3. x \in Range(store')
      BY <3>2 DEF Range
    <3>4. \A j \in DOMAIN store' : store'[j] = x <=> j = i
      BY <2>7, <3>2
    <3> HIDE DEF i
    <3>5. Place(x, store') = i
      BY <3>2, <3>4 DEF Place
    <3> QED
      BY <3>3, <3>5 DEF i
  <2> QED
    BY <2>8, <2>9, <2>10
<1> QED
  BY <1>1, <1>2

(***************************************************************************)
(* What the tokens taken stand for stays the same as more strings are      *)
(* stored.                                                                 *)
(***************************************************************************)
Interns == text' = text /\ (store' = store \/ \E s \in Seq(Lex!Chars) : Intern(s))

LEMMA MeaningsStay ==
  ASSUME StoreInv, Interns, NEW ts \in Seq(TokenType), Placed(ts)
  PROVE  StoreInv' /\ Placed(ts)' /\ Meanings(ts)' = Meanings(ts)
<1>1. /\ StoreInv'
      /\ \A x \in Range(store) : x \in Range(store') /\ Place(x, store') = Place(x, store)
  BY InternStep DEF Interns, StoreInv, StoreType
<1>2. text' = text
  BY DEF Interns
<1>3. \A t : StringOf(t)' = StringOf(t) /\ Spelling(t)' = Spelling(t)
  BY <1>2 DEF StringOf, Spelling
<1>4. Placed(ts)'
  BY <1>1, <1>3 DEF Placed
<1>5. ASSUME NEW i \in 1..Len(ts) PROVE Meaning(ts[i])' = Meaning(ts[i])
  <2>1. ts[i] \in TokenType
    BY ElementOfSeq
  <2>2. ts[i].kind \in {"open", "close", "int"} \/ IsString(ts[i])
    BY <2>1 DEF TokenType, Lex!Kinds, IsString
  <2>3. IsString(ts[i]) => Place(StringOf(ts[i]), store)' = Place(StringOf(ts[i]), store)
    BY <1>1, <1>3 DEF Placed
  <2>4. Spelling(ts[i])' = Spelling(ts[i])
    BY <1>3
  <2>5. CASE ts[i].kind \in {"open", "close", "int"}
    BY <2>4, <2>5 DEF Meaning
  <2>6. CASE ts[i].kind \in {"name", "op"}
    BY <2>3, <2>6 DEF Meaning, IsString
  <2>7. CASE ts[i].kind \in {"str", "blockstr"}
    BY <2>3, <2>7 DEF Meaning, IsString
  <2> QED
    BY <2>2, <2>5, <2>6, <2>7 DEF IsString
<1>6. DOMAIN ts = 1..Len(ts)
  OBVIOUS
<1> QED
  BY <1>1, <1>4, <1>5, <1>6 DEF Meanings

-----------------------------------------------------------------------------
(***************************************************************************)
(* What the trees amount to: done, at hand, and the lists still open.      *)
(***************************************************************************)
Spelled(ts, p, ls) ==
  (Flats(ts[Len(ts)]) \o (IF p = NoTree THEN <<>> ELSE Flat[p])) \o Opens(ls)

LEMMA TokensUsedIs == TokensUsed <=> Spelled(trees, parsed, partial) = Meanings(Taken)
  BY DEF TokensUsed, Spelled, Meanings, Opens

(***************************************************************************)
(* Whether the token asked for has been returned, and whether the one      *)
(* returned is the one to take.                                            *)
(***************************************************************************)
AskInv ==
  LET k == KeptOf(tokens) IN
  /\ asked \in 0..2
  /\ asked = 1 => ~k.skip
  /\ asked = 2 => k.skip
  /\ asked = 0 /\ status = "run" =>
       /\ k.kept # <<>> /\ tokens # <<>>
       /\ k.kept[Len(k.kept)] = tokens[Len(tokens)]
       /\ k.skip <=> tokens[Len(tokens)].kind \in {"str", "blockstr"}

TokenInv == LexInv /\ StoreInv /\ AskInv /\ Placed(Taken)

Current == tokens[Len(tokens)]

LEMMA TokenTypes ==
  ASSUME LexInv
  PROVE  /\ tokens \in Seq(TokenType)
         /\ KeptOf(tokens) \in Keeps(TokenType)
         /\ Kept \in Seq(TokenType) /\ KeptOf(tokens).skip \in BOOLEAN
<1>1. tokens \in Seq(TokenType)
  BY DEF LexInv, Lex!TypeOK, TokenType
<1>2. \E t : t \in TokenType
  <2>1. [kind |-> "int", from |-> 0, to |-> 0] \in TokenType
    BY DEF TokenType, Lex!Kinds
  <2> QED
    BY <2>1
<1>3. KeptOf(tokens) \in Keeps(TokenType)
  BY <1>1, <1>2, KeptOfFacts
<1> QED
  BY <1>1, <1>3 DEF Keeps, Kept

LEMMA TakenType ==
  ASSUME TokenInv
  PROVE  /\ Taken \in Seq(TokenType)
         /\ asked = 0 /\ status = "run" =>
              /\ Current \in TokenType /\ Current.to <= pos
              /\ Kept = Append(Taken, Current)
              /\ KeptOf(tokens).skip <=> Current.kind \in {"str", "blockstr"}
         /\ ~(asked = 0 /\ status = "run") => Taken = Kept
<1>1. /\ tokens \in Seq(TokenType) /\ Kept \in Seq(TokenType)
      /\ \A i \in 1..Len(tokens) : tokens[i].to <= pos
  BY TokenTypes DEF TokenInv, LexInv
<1>2. CASE asked = 0 /\ status = "run"
  <2>1. /\ Kept # <<>> /\ tokens # <<>> /\ Kept[Len(Kept)] = Current
        /\ KeptOf(tokens).skip <=> Current.kind \in {"str", "blockstr"}
    BY <1>2 DEF TokenInv, AskInv, Current, Kept
  <2>2. Front(Kept) \in Seq(TokenType) /\ Kept = Append(Front(Kept), Kept[Len(Kept)])
    BY <1>1, <2>1, LastFacts
  <2>3. Current \in TokenType /\ Current.to <= pos
    <3>1. Len(tokens) \in 1..Len(tokens)
      BY <1>1, <2>1, LastFacts
    <3> QED
      BY <1>1, <3>1, ElementOfSeq DEF Current
  <2> QED
    BY <1>2, <2>1, <2>2, <2>3 DEF Taken
<1>3. CASE ~(asked = 0 /\ status = "run")
  BY <1>1, <1>3 DEF Taken
<1> QED
  BY <1>2, <1>3

(***************************************************************************)
(* A step of the lexer takes nothing.                                      *)
(***************************************************************************)
LEMMA LexerTakesNothing ==
  ASSUME TokenInv, LexerStep
  PROVE  TokenInv' /\ Taken' = Taken /\ Meanings(Taken)' = Meanings(Taken)
<1>1. /\ asked > 0 /\ Lex!Step /\ store' = store
      /\ asked' = CASE status' = "done" -> 0
                    [] status' # "done" /\ tokens' # tokens -> asked - 1
                    [] OTHER -> asked
  BY DEF LexerStep
<1>2. /\ LexInv' /\ text' = text
      /\ tokens' = tokens \/ \E t \in TokenType : tokens' = Append(tokens, t)
  BY <1>1, LexGoesOn DEF TokenInv
<1>3. status = "run" /\ (tokens' # tokens => status' = "run")
  BY <1>1, LexRuns
<1>4. asked \in {1, 2} /\ Taken = KeptOf(tokens).kept
  BY <1>1, <1>3 DEF TokenInv, AskInv, Taken, Kept
<1>5. Taken' = Taken /\ AskInv'
  <2>1. CASE tokens' = tokens
    <3>1. (asked' = 0 /\ status' = "done") \/ (asked' = asked /\ status' # "done")
      <4>1. CASE status' = "done"
        BY <1>1, <4>1
      <4>2. CASE status' # "done"
        BY <1>1, <2>1, <4>2
      <4> QED
        BY <4>1, <4>2
    <3>2. ~(asked' = 0 /\ status' = "run")
      BY <1>4, <3>1
    <3>3. Taken' = KeptOf(tokens').kept
      BY <3>2 DEF Taken, Kept
    <3>4. AskInv'
      BY <1>4, <2>1, <3>1, <3>2 DEF AskInv, TokenInv
    <3> QED
      BY <1>4, <2>1, <3>3, <3>4
  <2>2. ASSUME NEW t \in TokenType, tokens' = Append(tokens, t)
        PROVE  Taken' = Taken /\ AskInv'
    <3>1. /\ tokens \in Seq(TokenType) /\ KeptOf(tokens) \in Keeps(TokenType)
          /\ KeptOf(tokens') = Keep(KeptOf(tokens), t)
      BY <2>2, TokenTypes, KeptOfFacts DEF TokenInv
    <3>2. tokens' # tokens /\ tokens' # <<>> /\ tokens'[Len(tokens')] = t
      BY <2>2, <3>1, FrontAppend
    <3>3. status' = "run" /\ asked' = asked - 1
      BY <1>1, <1>3, <3>2
    <3> DEFINE k == KeptOf(tokens)
               l == KeptOf(tokens')
    <3>4. k.kept \in Seq(TokenType) /\ k.skip \in BOOLEAN
      BY <3>1 DEF Keeps
    <3>5. CASE asked = 1
      <4>1. ~k.skip
        BY <3>5 DEF TokenInv, AskInv
      <4>2. l.kept = Append(k.kept, t) /\ l.skip = (t.kind \in {"str", "blockstr"})
        <5>1. l = [kept |-> Append(k.kept, t), skip |-> t.kind \in {"str", "blockstr"}]
          BY <3>1, <4>1 DEF Keep
        <5> HIDE DEF k, l
        <5> QED
          BY <5>1
      <4> HIDE DEF k, l
      <4>3. l.kept # <<>> /\ l.kept[Len(l.kept)] = t /\ Front(l.kept) = k.kept
        BY <3>4, <4>2, FrontAppend
      <4>4. asked' = 0
        BY <3>3, <3>5
      <4>5. Taken' = Front(l.kept)
        BY <3>3, <4>4 DEF Taken, Kept, l
      <4>6. AskInv'
        <5>1. l.skip <=> t.kind \in {"str", "blockstr"}
          BY <4>2
        <5> QED
          <6>1. asked' \in 0..2 /\ asked' # 1 /\ asked' # 2
            BY <4>4
          <6> QED
            BY <3>2, <4>3, <5>1, <6>1, Zenon DEF AskInv, l
      <4> QED
        BY <1>4, <4>3, <4>5, <4>6 DEF k
    <3>6. CASE asked = 2
      <4>1. k.skip
        BY <3>6 DEF TokenInv, AskInv
      <4>2. l.kept = k.kept /\ ~l.skip
        BY <3>1, <4>1 DEF Keep, Keeps
      <4> HIDE DEF k, l
      <4>3. asked' = 1
        BY <3>3, <3>6
      <4>4. Taken' = l.kept
        BY <4>3 DEF Taken, Kept, l
      <4>5. AskInv'
        BY <4>2, <4>3 DEF AskInv, l
      <4> QED
        BY <1>4, <4>2, <4>4, <4>5 DEF k
    <3> QED
      BY <1>4, <3>5, <3>6
  <2> QED
    BY <1>2, <2>1, <2>2
<1> DEFINE W == Taken
<1>6. StoreInv' /\ Placed(Taken)' /\ Meanings(Taken)' = Meanings(Taken)
  <2>1. PICK w : w = Taken
    OBVIOUS
  <2>2. w \in Seq(TokenType) /\ Placed(w)
    BY <2>1, TakenType DEF TokenInv
  <2>3. StoreInv' /\ Placed(w)' /\ Meanings(w)' = Meanings(w)
    BY <1>1, <1>2, <2>2, MeaningsStay DEF Interns, TokenInv
  <2>4. Taken' = w
    BY <1>5, <2>1
  <2>5. Placed(Taken)' <=> Placed(w)'
    BY <2>4 DEF Placed, StringOf, Spelling
  <2>6. Meanings(Taken)' = Meanings(w)'
    BY <2>4 DEF Meanings, Meaning, StringOf, Spelling
  <2> QED
    BY <2>1, <2>3, <2>5, <2>6
<1> QED
  BY <1>2, <1>5, <1>6 DEF TokenInv

(***************************************************************************)
(* A token is taken, and the next one asked for: the one after that, if it *)
(* is a str.                                                               *)
(***************************************************************************)
Takes ==
  /\ AtToken /\ status = "run"
  /\ asked' = IF Current.kind \in {"str", "blockstr"} THEN 2 ELSE 1
  /\ UNCHANGED lexerVars
  /\ Interns
  /\ IsString(Current) => StringOf(Current) \in Range(store')

LEMMA TokenTaken ==
  ASSUME TokenInv, Takes
  PROVE  /\ TokenInv'
         /\ Taken \in Seq(TokenType) /\ Current \in TokenType
         /\ Taken' = Append(Taken, Current)
         /\ Meanings(Taken)' = Append(Meanings(Taken), Meaning(Current)')
         /\ Opened(Taken') = OpenedBy(Opened(Taken), Current)
<1>0. asked = 0 /\ status = "run"
  BY DEF Takes, AtToken
<1>1. /\ Taken \in Seq(TokenType)
      /\ Current \in TokenType /\ Current.to <= pos
      /\ Kept = Append(Taken, Current)
      /\ KeptOf(tokens).skip <=> Current.kind \in {"str", "blockstr"}
  BY <1>0, TakenType
<1>2. /\ tokens' = tokens /\ status' = status /\ text' = text /\ pos' = pos
  BY DEF Takes, lexerVars
<1>3. LexInv'
  BY DEF Takes, lexerVars, TokenInv, LexInv, Lex!TypeOK
<1>4. asked' \in {1, 2} /\ (asked' = 2 <=> KeptOf(tokens).skip)
  <2>1. CASE Current.kind \in {"str", "blockstr"}
    BY <1>1, <2>1 DEF Takes
  <2>2. CASE Current.kind \notin {"str", "blockstr"}
    BY <1>1, <2>2 DEF Takes
  <2> QED
    BY <2>1, <2>2
<1>5. AskInv'
  <2>1. KeptOf(tokens)' = KeptOf(tokens)
    BY <1>2
  <2> QED
    BY <1>4, <2>1 DEF AskInv
<1>6. Taken' = Append(Taken, Current)
  <2>1. Taken' = KeptOf(tokens').kept
    BY <1>4 DEF Taken, Kept
  <2> QED
    BY <1>1, <1>2, <2>1 DEF Kept
<1>7. PICK w, c : w = Taken /\ c = Current
  OBVIOUS
<1>8. /\ w \in Seq(TokenType) /\ Placed(w) /\ c \in TokenType
      /\ Taken' = Append(w, c) /\ Current' = c
  BY <1>1, <1>2, <1>6, <1>7 DEF TokenInv, Current
<1>9. StoreInv' /\ Placed(w)' /\ Meanings(w)' = Meanings(w)
  BY <1>8, MeaningsStay DEF Takes, TokenInv
<1>10. /\ (Meanings(Append(w, c)) = Append(Meanings(w), Meaning(c)))'
       /\ (Placed(w) /\ (IsString(c) => StringOf(c) \in Range(store)) => Placed(Append(w, c)))'
  <2>2. (\A u \in Seq(TokenType) : \A t \in TokenType :
          /\ Meanings(Append(u, t)) = Append(Meanings(u), Meaning(t))
          /\ Placed(u) /\ (IsString(t) => StringOf(t) \in Range(store)) => Placed(Append(u, t)))'
    BY MeaningsGrowing, PTL
  <2> QED
    BY <1>8, <2>2
<1>11. IsString(c) => (StringOf(c) \in Range(store))'
  <2>1. StringOf(c)' = StringOf(c)
    BY <1>2 DEF StringOf, Spelling
  <2> QED
    BY <1>7, <2>1 DEF Takes
<1>12. Placed(Taken)'
  <2>1. Placed(Append(w, c))'
    BY <1>9, <1>10, <1>11
  <2>2. Placed(Taken)' <=> Placed(Append(w, c))'
    BY <1>8 DEF Placed, StringOf, Spelling
  <2> QED
    BY <2>1, <2>2
<1>13. Meanings(Taken)' = Append(Meanings(Taken), Meaning(Current)')
  <2>1. Meanings(Taken)' = Meanings(Append(w, c))'
    BY <1>8 DEF Meanings, Meaning, StringOf, Spelling
  <2>2. Meaning(Current)' = Meaning(c)'
    BY <1>8 DEF Meaning, StringOf, Spelling
  <2> QED
    BY <1>7, <1>9, <1>10, <2>1, <2>2
<1>14. Opened(Taken') = OpenedBy(Opened(Taken), Current)
  BY <1>1, <1>6, OpenedFacts
<1> QED
  BY <1>1, <1>3, <1>5, <1>6, <1>9, <1>12, <1>13, <1>14 DEF TokenInv

(***************************************************************************)
(* A tree that is returned is one more in the list that waits for it, or   *)
(* what tokentree_parse returns: either way it comes last.                 *)
(***************************************************************************)
LEMMA Grouped ==
  ASSUME NEW a \in Seq(Items), NEW b \in Seq(Items), NEW c \in Seq(Items)
  PROVE  (a \o b) \o c = a \o (b \o c)
  BY ONLY Regroup

LEMMA JoinType ==
  ASSUME NEW a \in Seq(Items), NEW b \in Seq(Items)
  PROVE  a \o b \in Seq(Items) /\ a \o <<>> = a /\ <<>> \o a = a
<1>1. a \o b \in Seq(Items)
  BY ConcatProperties
<1>2. a \o <<>> = a /\ <<>> \o a = a
  BY ConcatEmptySeq
<1> QED
  BY <1>1, <1>2

Parts(a, b, c, d) ==
  a \in Seq(Items) /\ b \in Seq(Items) /\ c \in Seq(Items) /\ d \in Seq(Items)

LEMMA PartsJoined ==
  ASSUME NEW a, NEW b, NEW c, NEW d, Parts(a, b, c, d)
  PROVE  /\ a \o (b \o (c \o d)) = (a \o (b \o c)) \o d
         /\ (a \o b) \o (c \o d) = (a \o (b \o c)) \o d
<1>0. a \in Seq(Items) /\ b \in Seq(Items) /\ c \in Seq(Items) /\ d \in Seq(Items)
  BY DEF Parts
<1> DEFINE e == c \o d
           f == b \o c
<1>1. e \in Seq(Items) /\ f \in Seq(Items)
  BY ONLY <1>0, JoinType
<1>2. b \o e = f \o d
  BY ONLY <1>0, Grouped DEF e, f
<1> HIDE DEF e, f
<1>3. a \o (f \o d) = (a \o f) \o d
  BY ONLY <1>0, <1>1, Grouped
<1>4. (a \o b) \o e = a \o (b \o e)
  BY ONLY <1>0, <1>1, Grouped
<1> QED
  BY ONLY <1>2, <1>3, <1>4, Zenon DEF e, f

Listed(ts) == ts \in Seq(Seq(Trees)) /\ ts # <<>>

LEMMA SpelledType ==
  ASSUME Trees = AllTrees, NEW ts, Listed(ts),
         NEW p, p \in Trees \/ p = NoTree, NEW ls \in Seq(Seq(Trees))
  PROVE  /\ Flats(ts[Len(ts)]) \in Seq(Items) /\ Opens(ls) \in Seq(Items)
         /\ p # NoTree => Flat[p] \in Seq(Items)
         /\ Spelled(ts, p, ls) \in Seq(Items)
<1>1. ts[Len(ts)] \in Seq(Trees)
  BY LastFacts DEF Listed
<1>2. Flats(ts[Len(ts)]) \in Seq(Items)
  BY <1>1, FlatsFacts
<1>3. Opens(ls) \in Seq(Items)
  <2>1. <<>> \in Seq(Trees)
    BY EmptySeq
  <2> QED
    BY <2>1, OpensFacts
<1>4. p # NoTree => Flat[p] \in Seq(Items)
  BY FlatIs
<1>5. <<>> \in Seq(Items)
  BY EmptySeq
<1> QED
  BY <1>2, <1>3, <1>4, <1>5, ConcatProperties DEF Spelled

LEMMA Returned ==
  ASSUME Trees = AllTrees, NEW ts, Listed(ts), NEW t \in Trees,
         NEW w \in Seq(Seq(Trees)), Text!Return(t, w), parsed = NoTree
  PROVE  /\ partial' \in Seq(Seq(Trees)) /\ Len(partial') = Len(w)
         /\ parsed' \in Trees \/ parsed' = NoTree
         /\ parsed' # NoTree => partial' = <<>>
         /\ Spelled(ts, parsed', partial') = Spelled(ts, NoTree, w) \o Flat[t]
<1> DEFINE D == Flats(ts[Len(ts)])
<1>1. D \in Seq(Items) /\ Opens(w) \in Seq(Items) /\ Flat[t] \in Seq(Items) /\ <<>> \in Seq(Items)
  BY SpelledType, FlatIs, EmptySeq
<1>2. t # NoTree
  BY KindFacts
<1>3. CASE w = <<>>
  <2>1. partial' = <<>> /\ parsed' = t
    BY <1>3 DEF Text!Return
  <2>2. Opens(<<>>) = <<>>
    <3>1. <<>> \in Seq(Seq(Trees)) /\ <<>> \in Seq(Trees)
      BY EmptySeq
    <3> QED
      BY <3>1, OpensFacts
  <2>3. /\ Spelled(ts, parsed', partial') = (D \o Flat[t]) \o <<>>
        /\ Spelled(ts, NoTree, w) = (D \o <<>>) \o <<>>
    BY <1>2, <1>3, <2>1, <2>2 DEF Spelled
  <2> HIDE DEF D
  <2>4. (D \o Flat[t]) \o <<>> = ((D \o <<>>) \o <<>>) \o Flat[t]
    BY ONLY <1>1, Grouped, JoinType
  <2> QED
    BY <1>2, <1>3, <2>1, <2>3, <2>4
<1>4. CASE w # <<>>
  <2> DEFINE f == Front(w)
             e == w[Len(w)]
  <2>1. /\ f \in Seq(Seq(Trees)) /\ e \in Seq(Trees) /\ w = Append(f, e)
        /\ \A v \in Seq(Trees) : [w EXCEPT ![Len(w)] = v] = Append(f, v)
    BY <1>4, LastFacts
  <2>2. partial' = [w EXCEPT ![Len(w)] = Append(e, t)] /\ parsed' = NoTree
    BY <1>4 DEF Text!Return
  <2> HIDE DEF f, e
  <2>3. Append(e, t) \in Seq(Trees)
    BY <2>1, AppendProperties
  <2>4. partial' = Append(f, Append(e, t))
    BY <2>1, <2>2, <2>3
  <2>5. partial' \in Seq(Seq(Trees)) /\ Len(partial') = Len(w)
    BY <2>1, <2>3, <2>4, FrontAppend
  <2> DEFINE b == <<Bracket("open")>>
  <2>6. /\ Opens(partial') = Opens(f) \o (b \o Flats(Append(e, t)))
        /\ Opens(w) = Opens(f) \o (b \o Flats(e))
        /\ Opens(f) \in Seq(Items)
    BY <2>1, <2>3, <2>4, OpensFacts
  <2>7. /\ Flats(Append(e, t)) = Flats(e) \o Flat[t] /\ Flats(e) \in Seq(Items)
        /\ b \in Seq(Items)
    BY <2>1, FlatsFacts, ItemFacts
  <2> HIDE DEF b, D
  <2>8. Opens(partial') = Opens(w) \o Flat[t]
    <3>1. Opens(f) \o (b \o (Flats(e) \o Flat[t])) = (Opens(f) \o (b \o Flats(e))) \o Flat[t]
      <4> DEFINE x == Opens(f)
                 y == Flats(e)
                 z == Flat[t]
      <4>1. x \in Seq(Items) /\ y \in Seq(Items) /\ z \in Seq(Items) /\ b \in Seq(Items)
        BY ONLY <1>1, <2>6, <2>7
      <4> HIDE DEF x, y, z
      <4>2. x \o (b \o (y \o z)) = (x \o (b \o y)) \o z
        <5>1. Parts(x, b, y, z)
          BY <4>1 DEF Parts
        <5> QED
          BY ONLY <5>1, PartsJoined
      <4> QED
        BY ONLY <4>2 DEF x, y, z
    <3> QED
      BY ONLY <2>6, <2>7, <3>1, Zenon
  <2>9. /\ Spelled(ts, parsed', partial') = (D \o <<>>) \o Opens(partial')
        /\ Spelled(ts, NoTree, w) = (D \o <<>>) \o Opens(w)
    BY <2>2 DEF Spelled, D
  <2>10. (D \o <<>>) \o (Opens(w) \o Flat[t]) = ((D \o <<>>) \o Opens(w)) \o Flat[t]
    <3>1. D \o <<>> \in Seq(Items)
      BY ONLY <1>1, JoinType
    <3> QED
      BY ONLY <1>1, <3>1, Grouped
  <2> QED
    BY <2>2, <2>5, <2>8, <2>9, <2>10
<1> QED
  BY <1>3, <1>4

(***************************************************************************)
(* What each token adds: an opening bracket a list, a closing one the end  *)
(* of a list, and any other a leaf.                                        *)
(***************************************************************************)
LEMMA OpenAdds ==
  ASSUME Trees = AllTrees, NEW ts, Listed(ts), partial \in Seq(Seq(Trees)), Text!TakeOpen
  PROVE  /\ partial' \in Seq(Seq(Trees)) /\ Len(partial') = Len(partial) + 1
         /\ parsed' = NoTree /\ parsed = NoTree
         /\ Spelled(ts, parsed', partial') =
              Spelled(ts, parsed, partial) \o <<Bracket("open")>>
<1> DEFINE D == Flats(ts[Len(ts)])
           b == <<Bracket("open")>>
<1>1. parsed = NoTree /\ parsed' = NoTree /\ partial' = Append(partial, <<>>) /\ <<>> \in Seq(Trees)
  BY EmptySeq DEF Text!TakeOpen, Text!Parsing, Text!NoTree, NoTree
<1>2. partial' \in Seq(Seq(Trees)) /\ Len(partial') = Len(partial) + 1
  BY <1>1, FrontAppend
<1>3. D \in Seq(Items) /\ Opens(partial) \in Seq(Items) /\ b \in Seq(Items) /\ <<>> \in Seq(Items)
  <2>1. D \in Seq(Items) /\ Opens(partial) \in Seq(Items)
    BY SpelledType
  <2>2. b \in Seq(Items)
    BY ItemFacts
  <2> QED
    BY <2>1, <2>2, EmptySeq
<1>4. Opens(partial') = Opens(partial) \o (b \o <<>>)
  BY <1>1, OpensFacts, FlatsFacts
<1>5. /\ Spelled(ts, parsed', partial') = (D \o <<>>) \o Opens(partial')
      /\ Spelled(ts, parsed, partial) = (D \o <<>>) \o Opens(partial)
  BY <1>1 DEF Spelled
<1> HIDE DEF D, b
<1>6. (D \o <<>>) \o (Opens(partial) \o (b \o <<>>)) = ((D \o <<>>) \o Opens(partial)) \o b
  BY ONLY <1>3, Grouped, JoinType
<1> QED
  BY <1>1, <1>2, <1>4, <1>5, <1>6 DEF b

LEMMA CloseAdds ==
  ASSUME Trees = AllTrees, NEW ts, Listed(ts), partial \in Seq(Seq(Trees)), Text!TakeClose
  PROVE  /\ partial' \in Seq(Seq(Trees)) /\ Len(partial') = Len(partial) - 1
         /\ parsed' \in Trees \/ parsed' = NoTree
         /\ parsed' # NoTree => partial' = <<>>
         /\ parsed = NoTree
         /\ Spelled(ts, parsed', partial') =
              Spelled(ts, parsed, partial) \o <<Bracket("close")>>
<1> DEFINE D == Flats(ts[Len(ts)])
           b == <<Bracket("open")>>
           c == <<Bracket("close")>>
           f == Front(partial)
           e == partial[Len(partial)]
<1>1. parsed = NoTree /\ partial # <<>> /\ Text!Return(Arr(e), f)
  BY DEF Text!TakeClose, Text!Parsing, Text!NoTree, NoTree, Text!Arr, Arr, Front
<1>2. f \in Seq(Seq(Trees)) /\ e \in Seq(Trees) /\ partial = Append(f, e) /\ Len(f) = Len(partial) - 1
  BY <1>1, LastFacts
<1> HIDE DEF f, e
<1>3. Arr(e) \in Trees /\ Flat[Arr(e)] = InBrackets(Flats(e)) /\ Flats(e) \in Seq(Items)
  BY <1>2, FlatsFacts
<1>4. /\ partial' \in Seq(Seq(Trees)) /\ Len(partial') = Len(f)
      /\ parsed' \in Trees \/ parsed' = NoTree
      /\ parsed' # NoTree => partial' = <<>>
      /\ Spelled(ts, parsed', partial') = Spelled(ts, NoTree, f) \o Flat[Arr(e)]
  BY <1>1, <1>2, <1>3, Returned
<1>5. D \in Seq(Items) /\ Opens(f) \in Seq(Items) /\ <<>> \in Seq(Items)
  BY <1>2, SpelledType, EmptySeq
<1>6. Flat[Arr(e)] = b \o (Flats(e) \o c) /\ b \in Seq(Items) /\ c \in Seq(Items)
  BY <1>3, InBracketsType
<1>7. Opens(partial) = Opens(f) \o (b \o Flats(e))
  BY <1>2, OpensFacts
<1>8. /\ Spelled(ts, parsed, partial) = (D \o <<>>) \o Opens(partial)
      /\ Spelled(ts, NoTree, f) = (D \o <<>>) \o Opens(f)
  BY <1>1 DEF Spelled
<1> HIDE DEF D, b, c
<1>9. ((D \o <<>>) \o Opens(f)) \o (b \o (Flats(e) \o c))
        = ((D \o <<>>) \o (Opens(f) \o (b \o Flats(e)))) \o c
  <2> DEFINE x == D \o <<>>
             y == Opens(f)
             z == Flats(e)
  <2>1. x \in Seq(Items) /\ y \in Seq(Items) /\ z \in Seq(Items)
    BY ONLY <1>3, <1>5, Grouped, JoinType
  <2> HIDE DEF x, y, z
  <2>2. (x \o y) \o (b \o (z \o c)) = (x \o (y \o (b \o z))) \o c
    <3>1. b \o z \in Seq(Items)
      BY ONLY <1>6, <2>1, JoinType
    <3>2. (x \o y) \o ((b \o z) \o c) = (x \o (y \o (b \o z))) \o c
      <4> DEFINE u == b \o z
      <4>1. u \in Seq(Items) /\ c \in Seq(Items)
        BY ONLY <1>6, <3>1
      <4> HIDE DEF u
      <4>2. (x \o y) \o (u \o c) = (x \o (y \o u)) \o c
        <5>1. Parts(x, y, u, c)
          BY <2>1, <4>1 DEF Parts
        <5> QED
          BY ONLY <5>1, PartsJoined
      <4> QED
        BY ONLY <4>2 DEF u
    <3>3. b \o (z \o c) = (b \o z) \o c
      BY ONLY <1>6, <2>1, Grouped
    <3> QED
      BY ONLY <3>2, <3>3, Zenon
  <2> QED
    BY <2>2 DEF x, y, z
<1> QED
  BY <1>1, <1>2, <1>4, <1>6, <1>7, <1>8, <1>9 DEF c

LEMMA LeafAdds ==
  ASSUME Trees = AllTrees, NEW ts, Listed(ts), partial \in Seq(Seq(Trees)),
         NEW x \in Leaves, Text!TakeLeaf(x)
  PROVE  /\ partial' \in Seq(Seq(Trees)) /\ Len(partial') = Len(partial)
         /\ parsed' \in Trees \/ parsed' = NoTree
         /\ parsed' # NoTree => partial' = <<>>
         /\ parsed = NoTree
         /\ Spelled(ts, parsed', partial') = Spelled(ts, parsed, partial) \o <<x>>
<1>1. parsed = NoTree /\ Text!Return(x, partial)
  BY DEF Text!TakeLeaf, Text!Parsing, Text!NoTree, NoTree
<1>2. x \in Trees /\ Flat[x] = <<x>>
  BY FlatLeaf
<1> QED
  BY <1>1, <1>2, Returned

-----------------------------------------------------------------------------
(***************************************************************************)
(* The program's state, up to what is printed.                             *)
(***************************************************************************)
Phases == {"parse", "copy", "write", "printed", "refused"}

TreesInv ==
  /\ partial \in Seq(Seq(Trees)) /\ (parsed \in Trees \/ parsed = NoTree)
  /\ parsed # NoTree => partial = <<>>
  /\ Listed(trees)
  /\ Spelled(trees, parsed, partial) = Meanings(Taken)
  /\ Opened(Taken) = Len(partial)

CopyInv ==
  /\ Inv
  /\ phase = "copy" => parsed # NoTree /\ root = parsed

PhaseInv ==
  /\ phase \in Phases
  /\ phase = "write" => parsed # NoTree
  /\ RefusesUnbalanced

ReadInv == TokenInv /\ TreesInv /\ CopyInv /\ PhaseInv

LEMMA ReadBegins ==
  ASSUME Trees = AllTrees, Init
  PROVE  ReadInv
<1>1. LexInv /\ tokens = <<>>
  BY LexBegins DEF Init
<1>2. /\ asked = 1 /\ partial = <<>> /\ parsed = NoTree /\ ReadInit
      /\ store = <<>> /\ phase = "parse" /\ trees = <<<<>>>>
  BY DEF Init, Text!ParseIdle, Text!NoTree, NoTree
<1>3. KeptOf(tokens) = NoneKept /\ Opened(<<>>) = 0
  <2>1. [kind |-> "int", from |-> 0, to |-> 0] \in TokenType
    BY DEF TokenType, Lex!Kinds
  <2>2. tokens \in Seq(TokenType)
    BY <1>1
  <2> QED
    BY <1>1, <2>1, <2>2, KeptOfFacts, OpenedFacts
<1>4. AskInv /\ Taken = <<>>
  BY <1>2, <1>3 DEF AskInv, NoneKept, Taken, Kept
<1>5. StoreInv
  BY <1>2 DEF StoreInv, StoreType
<1>6. Placed(Taken) /\ Meanings(Taken) = <<>>
  BY <1>4 DEF Placed, Meanings
<1>7. Spelled(trees, parsed, partial) = <<>>
  <2>1. <<>> \in Seq(Trees) /\ <<>> \in Seq(Seq(Trees))
    BY EmptySeq
  <2>2. Flats(<<>>) = <<>> /\ Opens(<<>>) = <<>>
    BY <2>1, FlatsFacts, OpensFacts
  <2>3. trees[Len(trees)] = <<>> /\ <<>> \o <<>> = <<>>
    BY <1>2
  <2> QED
    BY <1>2, <2>2, <2>3 DEF Spelled
<1>8. Listed(trees)
  BY <1>2 DEF Listed
<1>9. TreesInv
  BY <1>2, <1>3, <1>4, <1>6, <1>7, <1>8 DEF TreesInv
<1>10. CopyInv /\ PhaseInv
  BY <1>2, InitInv DEF CopyInv, PhaseInv, Phases, RefusesUnbalanced
<1> QED
  BY <1>1, <1>4, <1>5, <1>6, <1>9, <1>10 DEF ReadInv, TokenInv

(***************************************************************************)
(* The steps of the lexer, and of tokentree_parse.                         *)
(***************************************************************************)
LEMMA LexerStepReads ==
  ASSUME ReadInv, LexerStep
  PROVE  ReadInv'
<1>1. TokenInv' /\ Taken' = Taken /\ Meanings(Taken)' = Meanings(Taken)
  BY LexerTakesNothing DEF ReadInv
<1>2. /\ phase = "parse" /\ phase' = phase /\ partial' = partial /\ parsed' = parsed
      /\ trees' = trees /\ UNCHANGED copyVars
  BY DEF LexerStep, fileVars
<1>3. TreesInv'
  BY <1>1, <1>2 DEF TreesInv, ReadInv
<1>4. CopyInv'
  BY <1>2 DEF CopyInv, ReadInv, Inv, copyVars, treeLexVars, parseVars, TreeLexTypeOK,
     FramesLeadToNode, ParserFollows, CopyIsSame, Loaded, Unloaded, ParseIdle, Parsing,
     TopFrame, Unexpected
<1>5. PhaseInv'
  BY <1>2 DEF PhaseInv, RefusesUnbalanced, Phases
<1> QED
  BY <1>1, <1>3, <1>4, <1>5 DEF ReadInv

Adds(x) ==
  /\ partial' \in Seq(Seq(Trees))
  /\ Len(partial') = OpenedBy(Len(partial), Current)
  /\ parsed' \in Trees \/ parsed' = NoTree
  /\ parsed' # NoTree => partial' = <<>>
  /\ Spelled(trees, parsed', partial') = Spelled(trees, parsed, partial) \o <<x>>

LEMMA TreeReads ==
  ASSUME ReadInv, Takes, Adds(Meaning(Current)'),
         UNCHANGED <<copyVars, phase, trees>>
  PROVE  ReadInv'
<1>1. /\ TokenInv'
      /\ Taken \in Seq(TokenType) /\ Current \in TokenType
      /\ Taken' = Append(Taken, Current)
      /\ Meanings(Taken)' = Append(Meanings(Taken), Meaning(Current)')
      /\ Opened(Taken') = OpenedBy(Opened(Taken), Current)
  BY TokenTaken DEF ReadInv
<1>2. phase = "parse" /\ phase' = phase /\ trees' = trees /\ UNCHANGED copyVars
  BY DEF Takes, AtToken
<1> DEFINE m == Meanings(Taken)
           x == Meaning(Current)'
<1>3. Append(m, x) = m \o <<x>>
  <2>1. \E V : m \in Seq(V) /\ x \in V
    <3> DEFINE V == {m[i] : i \in 1..Len(Taken)} \cup {x}
    <3>1. DOMAIN Taken = 1..Len(Taken) /\ Len(Taken) \in Nat
      BY <1>1
    <3>2. m = [i \in 1..Len(Taken) |-> m[i]]
      BY <3>1 DEF Meanings
    <3> HIDE DEF m
    <3>3. \A i \in 1..Len(Taken) : m[i] \in V
      OBVIOUS
    <3>4. x \in V
      OBVIOUS
    <3> HIDE DEF V, x
    <3>5. m \in Seq(V)
      BY <3>1, <3>2, <3>3, IsASeq
    <3> QED
      BY <3>4, <3>5
  <2> HIDE DEF m, x
  <2> QED
    BY <2>1, AppendIsConcat
<1>4. TreesInv'
  <2>1. Spelled(trees', parsed', partial') = m \o <<x>>
    BY <1>2 DEF Adds, ReadInv, TreesInv
  <2>2. Spelled(trees, parsed, partial)' = Spelled(trees', parsed', partial')
    OBVIOUS
  <2> HIDE DEF m, x
  <2>3. Spelled(trees, parsed, partial)' = Meanings(Taken)'
    BY <1>1, <1>3, <2>1, <2>2 DEF m, x
  <2>4. Opened(Taken') = Len(partial')
    BY <1>1 DEF Adds, ReadInv, TreesInv
  <2>5. Listed(trees')
    BY <1>2 DEF ReadInv, TreesInv
  <2> QED
    BY <2>3, <2>4, <2>5 DEF TreesInv, Adds
<1>5. CopyInv'
  BY <1>2 DEF CopyInv, ReadInv, Inv, copyVars, treeLexVars, parseVars, TreeLexTypeOK,
     FramesLeadToNode, ParserFollows, CopyIsSame, Loaded, Unloaded, ParseIdle, Parsing,
     TopFrame, Unexpected
<1>6. PhaseInv'
  BY <1>2 DEF PhaseInv, RefusesUnbalanced, Phases
<1> QED
  BY <1>1, <1>4, <1>5, <1>6 DEF ReadInv

-----------------------------------------------------------------------------
(***************************************************************************)
(* The steps of tokentree_parse, each with the current token.              *)
(***************************************************************************)
LEMMA AtKind ==
  ASSUME ReadInv, AtToken
  PROVE  /\ Kind = "done" \/ status = "run"
         /\ status = "run" => /\ Current \in TokenType /\ Current.to <= pos
                              /\ Kind = IF Current.kind = "blockstr" THEN "str" ELSE Current.kind
                              /\ Kind # "done"
         /\ status # "run" => Kind = "done" /\ status = "done"
         /\ asked = 0 /\ phase = "parse" /\ parsed = NoTree
<1>1. status \in {"run", "done"}
  BY DEF AtToken, ReadInv, TokenInv, LexInv, Lex!TypeOK
<1>2. asked = 0 /\ phase = "parse" /\ parsed = NoTree
  BY DEF AtToken
<1>3. CASE status = "run"
  <2>1. Current \in TokenType /\ Current.to <= pos
    BY <1>2, <1>3, TakenType DEF ReadInv
  <2>2. Kind = IF Current.kind = "blockstr" THEN "str" ELSE Current.kind
    BY <1>3 DEF Kind, Current
  <2>3. Current.kind # "done"
    BY <2>1 DEF TokenType, Lex!Kinds
  <2> QED
    BY <1>2, <1>3, <2>1, <2>2, <2>3
<1>4. CASE status = "done"
  BY <1>2, <1>4 DEF Kind
<1> QED
  BY <1>1, <1>3, <1>4

LEMMA OpenReads ==
  ASSUME Trees = AllTrees, ReadInv, ParseOpen
  PROVE  ReadInv'
<1>1. AtToken /\ Kind = "open" /\ Text!TakeOpen /\ Ask(1) /\ store' = store
      /\ UNCHANGED lexerVars /\ UNCHANGED <<copyVars, phase, trees>>
  BY DEF ParseOpen, Others, fileVars
<1>2. status = "run" /\ Current.kind = "open"
  <2>1. status = "run"
    BY <1>1, AtKind
  <2>2. Kind = IF Current.kind = "blockstr" THEN "str" ELSE Current.kind
    BY <1>1, <2>1, AtKind
  <2> QED
    BY <1>1, <2>1, <2>2
<1>3. tokens' = tokens /\ text' = text /\ Current' = Current
  BY <1>1 DEF lexerVars, Current
<1>4. Takes
  BY <1>1, <1>2, <1>3 DEF Takes, Ask, Interns, IsString
<1>5. Meaning(Current)' = Bracket("open")
  BY <1>2, <1>3 DEF Meaning
<1>6. Adds(Meaning(Current)')
  <2>1. Listed(trees) /\ partial \in Seq(Seq(Trees))
    BY DEF ReadInv, TreesInv
  <2>2. /\ partial' \in Seq(Seq(Trees)) /\ Len(partial') = Len(partial) + 1
        /\ parsed' = NoTree
        /\ Spelled(trees, parsed', partial') =
             Spelled(trees, parsed, partial) \o <<Bracket("open")>>
    BY <1>1, <2>1, OpenAdds
  <2> QED
    BY <1>2, <1>5, <2>2 DEF Adds, OpenedBy
<1> QED
  BY <1>1, <1>4, <1>6, TreeReads

LEMMA CloseReads ==
  ASSUME Trees = AllTrees, ReadInv, ParseClose
  PROVE  ReadInv'
<1>1. AtToken /\ Kind = "close" /\ Text!TakeClose /\ Ask(1) /\ store' = store
      /\ UNCHANGED lexerVars /\ UNCHANGED <<copyVars, phase, trees>>
  BY DEF ParseClose, Others, fileVars
<1>2. status = "run" /\ Current.kind = "close"
  <2>1. status = "run"
    BY <1>1, AtKind
  <2>2. Kind = IF Current.kind = "blockstr" THEN "str" ELSE Current.kind
    BY <1>1, <2>1, AtKind
  <2> QED
    BY <1>1, <2>1, <2>2
<1>3. tokens' = tokens /\ text' = text /\ Current' = Current
  BY <1>1 DEF lexerVars, Current
<1>4. Takes
  BY <1>1, <1>2, <1>3 DEF Takes, Ask, Interns, IsString
<1>5. Meaning(Current)' = Bracket("close")
  BY <1>2, <1>3 DEF Meaning
<1>6. Adds(Meaning(Current)')
  <2>1. Listed(trees) /\ partial \in Seq(Seq(Trees))
    BY DEF ReadInv, TreesInv
  <2>2. /\ partial' \in Seq(Seq(Trees)) /\ Len(partial') = Len(partial) - 1
        /\ parsed' \in Trees \/ parsed' = NoTree
        /\ parsed' # NoTree => partial' = <<>>
        /\ Spelled(trees, parsed', partial') =
             Spelled(trees, parsed, partial) \o <<Bracket("close")>>
    BY <1>1, <2>1, CloseAdds
  <2> QED
    BY <1>2, <1>5, <2>2 DEF Adds, OpenedBy
<1> QED
  BY <1>1, <1>4, <1>6, TreeReads

LEMMA LeafReads ==
  ASSUME Trees = AllTrees, ReadInv, Takes, Current.kind \notin {"open", "close"},
         Meaning(Current)' \in Leaves, Text!TakeLeaf(Meaning(Current)'),
         UNCHANGED <<copyVars, phase, trees>>
  PROVE  ReadInv'
<1>1. Listed(trees) /\ partial \in Seq(Seq(Trees))
  BY DEF ReadInv, TreesInv
<1>2. /\ partial' \in Seq(Seq(Trees)) /\ Len(partial') = Len(partial)
      /\ parsed' \in Trees \/ parsed' = NoTree
      /\ parsed' # NoTree => partial' = <<>>
      /\ Spelled(trees, parsed', partial') =
           Spelled(trees, parsed, partial) \o <<Meaning(Current)'>>
  BY <1>1, LeafAdds
<1>3. Adds(Meaning(Current)')
  BY <1>2 DEF Adds, OpenedBy
<1> QED
  BY <1>3, TreeReads

LEMMA IntReads ==
  ASSUME Trees = AllTrees, ReadInv, ParseInt
  PROVE  ReadInv'
<1> DEFINE x == IntLeaf(IntOf(Spelling(Current)))
<1>1. AtToken /\ Kind = "int" /\ Text!TakeLeaf(x) /\ Ask(1) /\ store' = store
      /\ UNCHANGED lexerVars /\ UNCHANGED <<copyVars, phase, trees>>
  BY DEF ParseInt, Others, fileVars, Current
<1>2. status = "run" /\ Current.kind = "int" /\ Current \in TokenType /\ Current.to <= pos
  <2>1. status = "run"
    BY <1>1, AtKind
  <2>2. Kind = IF Current.kind = "blockstr" THEN "str" ELSE Current.kind
    BY <1>1, <2>1, AtKind
  <2> QED
    BY <1>1, <2>1, <2>2, AtKind
<1>3. tokens' = tokens /\ text' = text /\ Current' = Current
  BY <1>1 DEF lexerVars, Current
<1>4. Takes
  BY <1>1, <1>2, <1>3 DEF Takes, Ask, Interns, IsString
<1>5. Meaning(Current)' = x
  BY <1>2, <1>3 DEF Meaning, Spelling
<1>6. x \in Leaves
  <2>1. IntOf(Spelling(Current)) \in Int
    BY <1>2, StringType DEF ReadInv, TokenInv
  <2> QED
    BY <2>1 DEF Leaves
<1> HIDE DEF x
<1> QED
  BY <1>1, <1>2, <1>4, <1>5, <1>6, LeafReads

LEMMA StringReads ==
  ASSUME Trees = AllTrees, ReadInv, ParseString
  PROVE  ReadInv'
<1> DEFINE s == StringOf(Current)
           x == StringLeaf(Kind, Place(s, store'))
<1>1. AtToken /\ Kind \in {"name", "op", "str"} /\ Intern(s) /\ Text!TakeLeaf(x)
      /\ Ask(IF Kind = "str" THEN 2 ELSE 1)
      /\ UNCHANGED lexerVars /\ UNCHANGED <<copyVars, phase, trees>>
  BY DEF ParseString, Others, fileVars, Current
<1>2. /\ status = "run" /\ Current \in TokenType /\ Current.to <= pos
      /\ Kind = IF Current.kind = "blockstr" THEN "str" ELSE Current.kind
  <2>1. status = "run"
    BY <1>1, AtKind
  <2> QED
    BY <1>1, <2>1, AtKind
<1>3. tokens' = tokens /\ text' = text /\ Current' = Current /\ status' = status
  BY <1>1 DEF lexerVars, Current
<1>4. s \in Seq(Lex!Chars) /\ StoreInv
  BY <1>2, StringType DEF ReadInv, TokenInv
<1>5. StoreInv' /\ s \in Range(store')
  BY <1>1, <1>4, InternStep
<1>6. Place(s, store') \in Nat \ {0}
  <2> HIDE DEF s
  <2>1. \E i \in DOMAIN store' : store'[i] = s
    BY <1>5 DEF Range
  <2>2. Place(s, store') \in DOMAIN store'
    BY <2>1 DEF Place
  <2> QED
    BY <1>5, <2>2 DEF StoreInv, StoreType
<1>7. Takes
  <2>1. asked' = IF Current.kind \in {"str", "blockstr"} THEN 2 ELSE 1
    BY <1>1, <1>2 DEF Ask
  <2> QED
    BY <1>1, <1>2, <1>3, <1>4, <1>5, <2>1 DEF Takes, Interns
<1>8. StringOf(Current)' = s
  BY <1>3 DEF StringOf, Spelling
<1>9. Meaning(Current)' = x
  <2> HIDE DEF s
  <2>1. CASE Current.kind \in {"name", "op"}
    BY <1>2, <1>3, <1>8, <2>1 DEF Meaning
  <2>2. CASE Current.kind \in {"str", "blockstr"}
    BY <1>2, <1>3, <1>8, <2>2 DEF Meaning
  <2> QED
    BY <1>1, <1>2, <2>1, <2>2
<1>10. x \in Leaves
  BY <1>1, <1>6 DEF Leaves
<1> HIDE DEF x, s
<1>11. Current.kind \notin {"open", "close"}
  BY <1>1, <1>2
<1> QED
  BY <1>1, <1>7, <1>9, <1>10, <1>11, LeafReads

(***************************************************************************)
(* The other steps leave the tokens and the trees at hand alone, until a   *)
(* tree is done, or a file.                                                *)
(***************************************************************************)
LEMMA OthersRead ==
  ASSUME TokenInv, TreesInv, UNCHANGED <<lexerVars, textVars, store, trees>>
  PROVE  TokenInv' /\ TreesInv' /\ Opened(Kept)' = Opened(Kept)
<1>1. /\ tokens' = tokens /\ text' = text /\ asked' = asked /\ status' = status
      /\ store' = store /\ trees' = trees /\ parsed' = parsed /\ partial' = partial
      /\ UNCHANGED lexerVars
  BY DEF lexerVars, textVars
<1>2. LexInv'
  BY <1>1 DEF lexerVars, TokenInv, LexInv, Lex!TypeOK
<1>3. StoreInv' /\ AskInv' /\ Kept' = Kept /\ Taken' = Taken
  BY <1>1 DEF TokenInv, StoreInv, StoreType, AskInv, Kept, Taken
<1>4. Placed(Taken)' /\ Meanings(Taken)' = Meanings(Taken)
  BY <1>1, <1>3 DEF TokenInv, Placed, Meanings, Meaning, StringOf, Spelling
<1>5. TreesInv'
  BY <1>1, <1>3, <1>4 DEF TreesInv
<1> QED
  BY <1>2, <1>3, <1>4, <1>5 DEF TokenInv

LEMMA CopyStays ==
  ASSUME CopyInv, UNCHANGED copyVars, phase' = "copy" => phase = "copy" /\ parsed' = parsed
  PROVE  CopyInv'
  BY DEF CopyInv, Inv, copyVars, treeLexVars, parseVars, TreeLexTypeOK, FramesLeadToNode,
     ParserFollows, CopyIsSame, Loaded, Unloaded, ParseIdle, Parsing, TopFrame, Unexpected

LEMMA RefuseReads ==
  ASSUME ReadInv, Refuse
  PROVE  ReadInv'
<1>1. UNCHANGED <<lexerVars, textVars, store, trees>> /\ UNCHANGED copyVars /\ phase' = "refused"
  BY DEF Refuse, fileVars
<1>2. TokenInv' /\ TreesInv' /\ CopyInv' /\ Opened(Kept)' = Opened(Kept)
  BY <1>1, OthersRead, CopyStays DEF ReadInv
<1>3. status = "error" \/ Opened(Kept) # 0
  <2> SUFFICES ASSUME status # "error" PROVE Opened(Kept) # 0
    OBVIOUS
  <2>1. AtToken /\ ~AtEnd /\ Text!Unexpected(Kind)
    BY DEF Refuse
  <2>2. /\ Opened(Taken) = Len(partial) /\ partial \in Seq(Seq(Trees))
        /\ asked = 0
    BY <2>1 DEF ReadInv, TreesInv, AtToken
  <2>3. CASE Kind = "done"
    <3>1. partial # <<>> /\ status = "done"
      BY <2>1, <2>3, AtKind DEF AtEnd
    <3>2. Taken = Kept
      BY <3>1, TakenType DEF ReadInv
    <3> QED
      BY <2>2, <3>1, <3>2, LastFacts
  <2>4. CASE Kind # "done"
    <3>1. Kind = "close" /\ partial = <<>>
      BY <2>1, <2>4 DEF Text!Unexpected
    <3>2. status = "run"
      BY <2>1, <2>4, AtKind
    <3>3. Kind = (IF Current.kind = "blockstr" THEN "str" ELSE Current.kind)
      BY <2>1, <3>2, AtKind
    <3>4. Current.kind = "close"
      BY <3>1, <3>3
    <3>5. /\ Taken \in Seq(TokenType) /\ Current \in TokenType
          /\ Kept = Append(Taken, Current)
      BY <2>2, <3>2, TakenType DEF ReadInv
    <3>6. Opened(Kept) = OpenedBy(Opened(Taken), Current)
      BY <3>5, OpenedFacts
    <3>7. Opened(Kept) = 0 - 1
      BY <2>2, <3>1, <3>4, <3>6 DEF OpenedBy
    <3> QED
      BY <3>7
  <2> QED
    BY <2>3, <2>4
<1>4. PhaseInv'
  <2>1. status' = status
    BY <1>1 DEF lexerVars
  <2> QED
    BY <1>1, <1>2, <1>3, <2>1 DEF PhaseInv, Phases, RefusesUnbalanced
<1> QED
  BY <1>2, <1>4 DEF ReadInv

LEMMA StartCopyReads ==
  ASSUME ReadInv, StartCopy
  PROVE  ReadInv'
<1>1. /\ UNCHANGED <<lexerVars, textVars, store, trees>>
      /\ parsed # NoTree /\ StartReading(parsed) /\ phase' = "copy" /\ parsed' = parsed
  BY DEF StartCopy, Got, TextStays, textVars, fileVars
<1>2. TokenInv' /\ TreesInv'
  BY <1>1, OthersRead DEF ReadInv
<1>3. CopyInv'
  <2>1. parsed \in Trees
    BY <1>1 DEF ReadInv, TreesInv
  <2>2. Inv'
    BY <1>1, <2>1, StartInv
  <2> QED
    BY <1>1, <2>2 DEF CopyInv, StartReading, LoadTree
<1>4. PhaseInv'
  BY <1>1 DEF PhaseInv, Phases, RefusesUnbalanced
<1> QED
  BY <1>2, <1>3, <1>4 DEF ReadInv

LEMMA CopyStepReads ==
  ASSUME ReadInv, CopyStep
  PROVE  ReadInv'
<1>1. /\ UNCHANGED <<lexerVars, textVars, store, trees>>
      /\ phase = "copy" /\ Read /\ phase' = phase /\ parsed' = parsed
  BY DEF CopyStep, TextStays, textVars, fileVars
<1>2. TokenInv' /\ TreesInv'
  BY <1>1, OthersRead DEF ReadInv
<1>3. CopyInv'
  <2>1. Inv'
    BY <1>1, OpenInv, LeafInv, CloseInv DEF Read, ReadInv, CopyInv
  <2>2. root' = root
    BY <1>1 DEF Read, ReadOpen, ReadLeaf, ReadClose, NextToken
  <2> QED
    BY <1>1, <2>1, <2>2 DEF CopyInv, ReadInv
<1>4. PhaseInv'
  BY <1>1 DEF PhaseInv, Phases, RefusesUnbalanced
<1> QED
  BY <1>2, <1>3, <1>4 DEF ReadInv

LEMMA StartWriteReads ==
  ASSUME ReadInv, StartWrite
  PROVE  ReadInv' /\ parsed' = parsed /\ parsed # NoTree
<1>1. /\ UNCHANGED <<lexerVars, asked, store, trees>> /\ partial' = partial /\ phase' = "write"
  BY DEF StartWrite, TextStays, fileVars
<1>2. parsed' = parsed /\ parsed # NoTree /\ CopyInv'
  <2>1. CASE Got /\ parsed' = parsed /\ UNCHANGED copyVars
    BY <1>1, <2>1, CopyStays DEF Got, ReadInv
  <2>2. CASE phase = "copy" /\ tree # NoTree /\ parsed' = tree /\ StopReading
    <3>1. tree = root /\ root = parsed /\ parsed # NoTree
      BY <2>2 DEF ReadInv, CopyInv, Inv, CopyIsSame, Parsing
    <3>2. Inv'
      BY <2>2, StopInv
    <3> QED
      BY <1>1, <2>2, <3>1, <3>2 DEF CopyInv
  <2> QED
    BY <2>1, <2>2 DEF StartWrite
<1>3. TokenInv' /\ TreesInv'
  BY <1>1, <1>2, OthersRead DEF ReadInv, textVars
<1>4. PhaseInv'
  BY <1>1, <1>2 DEF PhaseInv, Phases, RefusesUnbalanced
<1> QED
  BY <1>2, <1>3, <1>4 DEF ReadInv

LEMMA WritingReads ==
  ASSUME ReadInv, WriteLeaf \/ EnterList \/ LeaveList
  PROVE  ReadInv' /\ UNCHANGED <<lexerVars, textVars, store, trees>>
<1>1. /\ UNCHANGED <<lexerVars, textVars, store, trees>> /\ UNCHANGED copyVars
      /\ phase = "write" /\ phase' = phase /\ parsed' = parsed
  BY DEF WriteLeaf, EnterList, LeaveList, WritingStays, TextStays, textVars, fileVars
<1>2. TokenInv' /\ TreesInv' /\ CopyInv'
  BY <1>1, OthersRead, CopyStays DEF ReadInv
<1>3. PhaseInv'
  BY <1>1 DEF PhaseInv, RefusesUnbalanced, ReadInv
<1> QED
  BY <1>1, <1>2, <1>3 DEF ReadInv

LEMMA EndWriteReads ==
  ASSUME Trees = AllTrees, ReadInv, EndWrite
  PROVE  /\ ReadInv'
         /\ parsed \in Trees
         /\ trees' = Append(Front(trees), Append(trees[Len(trees)], parsed))
<1>1. /\ UNCHANGED <<lexerVars, asked, store>> /\ UNCHANGED copyVars
      /\ phase = "write" /\ phase' = "parse" /\ parsed' = NoTree /\ partial' = <<>>
      /\ trees' = [trees EXCEPT ![Len(trees)] = Append(@, parsed)]
  BY DEF EndWrite, Text!ParseBegin, Text!NoTree, NoTree
<1>2. parsed \in Trees /\ parsed # NoTree /\ partial = <<>> /\ Listed(trees)
  BY <1>1 DEF ReadInv, TreesInv, PhaseInv
<1> DEFINE done == trees[Len(trees)]
<1>3. /\ done \in Seq(Trees) /\ Append(done, parsed) \in Seq(Trees)
      /\ trees' = Append(Front(trees), Append(done, parsed))
      /\ Front(trees) \in Seq(Seq(Trees))
  <2>1. /\ done \in Seq(Trees) /\ Front(trees) \in Seq(Seq(Trees))
        /\ \A v \in Seq(Trees) : [trees EXCEPT ![Len(trees)] = v] = Append(Front(trees), v)
    BY <1>2, LastFacts DEF Listed
  <2> HIDE DEF done
  <2>2. Append(done, parsed) \in Seq(Trees)
    BY <1>2, <2>1, AppendProperties
  <2>3. trees' = [trees EXCEPT ![Len(trees)] = Append(done, parsed)]
    BY <1>1 DEF done
  <2> QED
    BY <2>1, <2>2, <2>3
<1> HIDE DEF done
<1>4. Listed(trees') /\ trees'[Len(trees')] = Append(done, parsed)
  <2>1. /\ trees' \in Seq(Seq(Trees)) /\ trees' # <<>>
        /\ Len(trees') = Len(Front(trees)) + 1
        /\ trees'[Len(Front(trees)) + 1] = Append(done, parsed)
    BY <1>3, FrontAppend
  <2> QED
    BY <2>1 DEF Listed
<1>5. Spelled(trees', parsed', partial') = Spelled(trees, parsed, partial)
  <2>1. /\ Flats(Append(done, parsed)) = Flats(done) \o Flat[parsed]
        /\ Flats(done) \in Seq(Items) /\ Flat[parsed] \in Seq(Items)
    BY <1>2, <1>3, FlatsFacts
  <2>2. Opens(<<>>) = <<>>
    <3>1. <<>> \in Seq(Seq(Trees)) /\ <<>> \in Seq(Trees)
      BY EmptySeq
    <3> QED
      BY <3>1, OpensFacts
  <2>3. /\ Spelled(trees', parsed', partial') = ((Flats(done) \o Flat[parsed]) \o <<>>) \o <<>>
        /\ Spelled(trees, parsed, partial) = (Flats(done) \o Flat[parsed]) \o <<>>
    BY <1>1, <1>2, <1>4, <2>1, <2>2 DEF Spelled, done
  <2>4. (Flats(done) \o Flat[parsed]) \in Seq(Items)
    BY ONLY <2>1, JoinType
  <2>5. (Flats(done) \o Flat[parsed]) \o <<>> = Flats(done) \o Flat[parsed]
    BY ONLY <2>4, JoinType
  <2> QED
    BY <2>3, <2>5
<1>6. /\ tokens' = tokens /\ text' = text /\ asked' = asked /\ status' = status
      /\ store' = store /\ UNCHANGED lexerVars
  BY <1>1 DEF lexerVars
<1>7. LexInv'
  BY <1>6 DEF lexerVars, ReadInv, TokenInv, LexInv, Lex!TypeOK
<1>8. StoreInv' /\ AskInv' /\ Kept' = Kept /\ Taken' = Taken
  BY <1>6 DEF ReadInv, TokenInv, StoreInv, StoreType, AskInv, Kept, Taken
<1>9. Placed(Taken)' /\ Meanings(Taken)' = Meanings(Taken)
  BY <1>6, <1>8 DEF ReadInv, TokenInv, Placed, Meanings, Meaning, StringOf, Spelling
<1>10. TreesInv'
  <2>1. Spelled(trees, parsed, partial)' = Spelled(trees', parsed', partial')
    OBVIOUS
  <2>2. Opened(Taken)' = Opened(Taken) /\ Len(partial') = Len(partial)
    BY <1>1, <1>2, <1>8
  <2>3. partial' \in Seq(Seq(Trees))
    BY <1>1
  <2> QED
    BY <1>1, <1>4, <1>5, <1>9, <2>1, <2>2, <2>3 DEF TreesInv, ReadInv
<1>11. CopyInv' /\ PhaseInv'
  BY <1>1, CopyStays DEF ReadInv, PhaseInv, Phases, RefusesUnbalanced
<1> QED
  BY <1>2, <1>3, <1>7, <1>8, <1>9, <1>10, <1>11 DEF ReadInv, TokenInv, done

-----------------------------------------------------------------------------
(***************************************************************************)
(* What is left to be written, as the writer takes the next of it.         *)
(***************************************************************************)
Rest(ls) == [ls EXCEPT ![Len(ls)] = Tail(@)]

LEMMA RestFacts ==
  ASSUME Trees = AllTrees, NEW ls, Listed(ls), ls[Len(ls)] # <<>>
  PROVE  /\ Head(ls[Len(ls)]) \in Trees
         /\ Listed(Rest(ls)) /\ Len(Rest(ls)) = Len(ls)
         /\ Left(ls) = Flat[Head(ls[Len(ls)])] \o Left(Rest(ls))
<1> DEFINE e == ls[Len(ls)]
           f == Front(ls)
           x == Head(e)
           c == <<Bracket("close")>>
<1>1. /\ e \in Seq(Trees) /\ f \in Seq(Seq(Trees)) /\ ls = Append(f, e)
      /\ Len(f) = Len(ls) - 1 /\ Len(ls) \in Nat
      /\ \A v \in Seq(Trees) : [ls EXCEPT ![Len(ls)] = v] = Append(f, v)
  BY LastFacts DEF Listed
<1>2. Rest(ls) = [ls EXCEPT ![Len(ls)] = Tail(e)]
  BY DEF Rest
<1> HIDE DEF e, f
<1>3. /\ x \in Trees /\ Tail(e) \in Seq(Trees) /\ Flats(e) = Flat[x] \o Flats(Tail(e))
  BY <1>1, FlatsFacts DEF e
<1>4. Rest(ls) = Append(f, Tail(e))
  BY <1>1, <1>2, <1>3
<1>5. Listed(Rest(ls)) /\ Len(Rest(ls)) = Len(ls)
  <2> DEFINE v == Tail(e)
  <2>0. v \in Seq(Trees) /\ Rest(ls) = Append(f, v)
    BY <1>3, <1>4
  <2> HIDE DEF v
  <2>1. /\ Rest(ls) \in Seq(Seq(Trees)) /\ Rest(ls) # <<>> /\ Len(Rest(ls)) = Len(f) + 1
    BY ONLY <1>1, <2>0, FrontAppend
  <2> QED
    BY <1>1, <2>1 DEF Listed
<1>6. /\ Left(ls) = Closing(e) \o Left(f) /\ Left(Rest(ls)) = Closing(Tail(e)) \o Left(f)
      /\ Left(f) \in Seq(Items)
  BY <1>1, <1>3, <1>4, LeftFacts
<1>7. /\ Flat[x] \in Seq(Items) /\ Flats(Tail(e)) \in Seq(Items) /\ c \in Seq(Items)
      /\ Closing(Tail(e)) \in Seq(Items)
  <2>1. Flat[x] \in Seq(Items)
    BY <1>3, FlatsFacts
  <2>2. Flats(Tail(e)) \in Seq(Items)
    BY <1>3, FlatsFacts
  <2>3. c \in Seq(Items)
    BY ItemFacts
  <2>4. Closing(Tail(e)) \in Seq(Items)
    BY <1>3, ClosingType
  <2> QED
    BY <2>1, <2>2, <2>3, <2>4
<1> HIDE DEF x, c
<1>8. Closing(e) = Flat[x] \o Closing(Tail(e))
  <2>1. (Flat[x] \o Flats(Tail(e))) \o c = Flat[x] \o (Flats(Tail(e)) \o c)
    BY ONLY <1>7, Grouped
  <2> QED
    BY <1>3, <2>1 DEF Closing, c
<1>9. (Flat[x] \o Closing(Tail(e))) \o Left(f) = Flat[x] \o (Closing(Tail(e)) \o Left(f))
  BY ONLY <1>6, <1>7, Grouped
<1>10. Left(ls) = Flat[x] \o Left(Rest(ls))
  BY <1>6, <1>8, <1>9
<1> QED
  BY <1>3, <1>5, <1>10 DEF x, e

LEMMA EnteredFacts ==
  ASSUME Trees = AllTrees, NEW ls, Listed(ls), NEW f \in Seq(Trees)
  PROVE  /\ Listed(Append(ls, f)) /\ Len(Append(ls, f)) = Len(ls) + 1
         /\ Flat[Arr(f)] \o Left(ls) = <<Bracket("open")>> \o Left(Append(ls, f))
<1> DEFINE b == <<Bracket("open")>>
           c == <<Bracket("close")>>
<1>1. Listed(Append(ls, f)) /\ Len(Append(ls, f)) = Len(ls) + 1
  BY FrontAppend DEF Listed
<1>2. Left(Append(ls, f)) = Closing(f) \o Left(ls) /\ Left(ls) \in Seq(Items)
  BY LeftFacts DEF Listed
<1>3. Flat[Arr(f)] = InBrackets(Flats(f)) /\ Flats(f) \in Seq(Items)
  BY FlatsFacts
<1>4. /\ InBrackets(Flats(f)) = b \o (Flats(f) \o c)
      /\ b \in Seq(Items) /\ Closing(f) \in Seq(Items)
  BY <1>3, InBracketsType, ClosingType
<1> HIDE DEF b
<1>5. Flat[Arr(f)] = b \o Closing(f)
  BY <1>3, <1>4 DEF Closing
<1>6. (b \o Closing(f)) \o Left(ls) = b \o (Closing(f) \o Left(ls))
  BY ONLY <1>2, <1>4, Grouped
<1> QED
  BY <1>1, <1>2, <1>5, <1>6 DEF b

LEMMA LeftoverFacts ==
  ASSUME Trees = AllTrees, NEW ls, Listed(ls), ls[Len(ls)] = <<>>
  PROVE  Front(ls) \in Seq(Seq(Trees)) /\ Len(Front(ls)) = Len(ls) - 1 /\ Len(ls) \in Nat
         /\ Left(ls) = <<Bracket("close")>> \o Left(Front(ls))
<1> DEFINE f == Front(ls)
           c == <<Bracket("close")>>
<1>1. f \in Seq(Seq(Trees)) /\ Len(f) = Len(ls) - 1 /\ Len(ls) \in Nat /\ ls = Append(f, <<>>)
  BY LastFacts DEF Listed
<1>2. <<>> \in Seq(Trees)
  BY EmptySeq
<1> HIDE DEF f
<1>3. Left(ls) = Closing(<<>>) \o Left(f)
  BY <1>1, <1>2, LeftFacts
<1>4. Closing(<<>>) = <<>> \o c /\ c \in Seq(Items)
  <2>1. Flats(<<>>) = <<>>
    BY <1>2, FlatsFacts
  <2>2. c \in Seq(Items)
    BY ItemFacts
  <2> QED
    BY <2>1, <2>2 DEF Closing
<1>5. <<>> \o c = c
  BY ONLY <1>4, JoinType
<1> QED
  BY <1>1, <1>3, <1>4, <1>5 DEF f

-----------------------------------------------------------------------------
(***************************************************************************)
(* What is where in two sequences put together.                            *)
(***************************************************************************)
Joined(a, b) == a \in Seq(Items) /\ b \in Seq(Items)

LEMMA JoinFacts ==
  ASSUME NEW a, NEW b, Joined(a, b)
  PROVE  /\ a \o b \in Seq(Items) /\ Len(a \o b) = Len(a) + Len(b)
         /\ Len(a) \in Nat /\ Len(b) \in Nat
         /\ \A i \in 1..Len(a) : (a \o b)[i] = a[i]
         /\ \A i \in 1..Len(b) : (a \o b)[Len(a) + i] = b[i]
BY ConcatProperties, LenProperties DEF Joined

(***************************************************************************)
(* Each token taken stands for a string of the store, and so does the tree.*)
(***************************************************************************)
LEMMA MeaningStored ==
  ASSUME TokenInv, NEW i \in 1..Len(Taken)
  PROVE  Stored(Meaning(Taken[i]))
<1>1. Taken \in Seq(TokenType)
  BY TakenType
<1>2. Taken[i] \in TokenType
  BY <1>1, ElementOfSeq
<1>3. IsString(Taken[i]) => StringOf(Taken[i]) \in Range(store)
  BY DEF TokenInv, Placed
<1>4. IsString(Taken[i]) => Place(StringOf(Taken[i]), store) \in DOMAIN store
  BY <1>3, PlaceFacts DEF TokenInv
<1>5. CASE Taken[i].kind \in {"open", "close"}
  BY <1>5 DEF Meaning, Stored, Bracket
<1>6. CASE Taken[i].kind = "int"
  BY <1>6 DEF Meaning, Stored, IntLeaf
<1>7. CASE Taken[i].kind \in {"name", "op"}
  BY <1>4, <1>7 DEF Meaning, Stored, StringLeaf, IsString
<1>8. CASE Taken[i].kind \in {"str", "blockstr"}
  BY <1>4, <1>8 DEF Meaning, Stored, StringLeaf, IsString
<1> QED
  BY <1>2, <1>5, <1>6, <1>7, <1>8 DEF TokenType, Lex!Kinds

LEMMA ParsedStored ==
  ASSUME Trees = AllTrees, ReadInv, parsed # NoTree
  PROVE  /\ Flat[parsed] \in Seq(Items) /\ AllStored(Flat[parsed])
         /\ AllStored(Flat[parsed] \o <<Bracket("close")>>)
<1> DEFINE D == Flats(trees[Len(trees)])
           F == Flat[parsed]
           O == Opens(partial)
           m == Meanings(Taken)
           c == <<Bracket("close")>>
<1>1. Listed(trees) /\ partial \in Seq(Seq(Trees)) /\ parsed \in Trees
  BY DEF ReadInv, TreesInv
<1>2. D \in Seq(Items) /\ F \in Seq(Items) /\ O \in Seq(Items)
  BY <1>1, SpelledType
<1>3. (D \o F) \o O = m
  BY DEF ReadInv, TreesInv, Spelled
<1>4. \A j \in 1..Len(Taken) : Stored(m[j])
  <2>1. Taken \in Seq(TokenType)
    BY TakenType DEF ReadInv
  <2>2. \A j \in 1..Len(Taken) : m[j] = Meaning(Taken[j])
    BY <2>1 DEF Meanings
  <2>3. \A j \in 1..Len(Taken) : Stored(Meaning(Taken[j]))
    BY MeaningStored DEF ReadInv
  <2> HIDE DEF m
  <2> QED
    BY <2>2, <2>3
<1>5. DOMAIN m = 1..Len(Taken)
  <2>1. Taken \in Seq(TokenType)
    BY TakenType DEF ReadInv
  <2> QED
    BY <2>1 DEF Meanings
<1> HIDE DEF D, F, O, m
<1> DEFINE E == D \o F
<1>6. /\ E \in Seq(Items) /\ Len(E) = Len(D) + Len(F)
      /\ \A i \in 1..Len(F) : E[Len(D) + i] = F[i]
      /\ Len(D) \in Nat /\ Len(F) \in Nat
  BY <1>2, ConcatProperties
<1> HIDE DEF E
<1>7. /\ E \o O \in Seq(Items) /\ Len(E \o O) = Len(E) + Len(O) /\ Len(O) \in Nat
      /\ \A i \in 1..Len(E) : (E \o O)[i] = E[i]
  <2>1. Joined(E, O)
    BY <1>2, <1>6 DEF Joined
  <2> QED
    BY ONLY <2>1, JoinFacts
<1>8. E \o O = m
  BY <1>3 DEF E
<1>9. \A i \in 1..Len(F) : Stored(F[i])
  <2> SUFFICES ASSUME NEW i \in 1..Len(F) PROVE Stored(F[i])
    OBVIOUS
  <2>1. Len(D) + i \in 1..Len(E) /\ Len(D) + i \in 1..(Len(E) + Len(O))
    BY <1>6, <1>7
  <2>2. m[Len(D) + i] = F[i]
    BY <1>6, <1>7, <1>8, <2>1
  <2>3. DOMAIN m = 1..(Len(E) + Len(O))
    BY <1>7, <1>8
  <2> QED
    BY <1>4, <1>5, <2>1, <2>2, <2>3
<1>10. AllStored(F \o c)
  <2>1. Stored(Bracket("close")) /\ c \in Seq(Items) /\ Len(c) = 1 /\ c[1] = Bracket("close")
    BY ItemFacts DEF Stored
  <2> HIDE DEF c
  <2>2. /\ Len(F \o c) = Len(F) + 1
        /\ \A i \in 1..Len(F) : (F \o c)[i] = F[i]
        /\ (F \o c)[Len(F) + 1] = Bracket("close")
    <3>1. /\ Len(F \o c) = Len(F) + Len(c)
          /\ \A i \in 1..Len(F) : (F \o c)[i] = F[i]
          /\ \A i \in 1..Len(c) : (F \o c)[Len(F) + i] = c[i]
      <4>1. Joined(F, c)
        BY <1>2, <2>1 DEF Joined
      <4> QED
        BY ONLY <4>1, JoinFacts
    <3> QED
      BY <2>1, <3>1
  <2>3. \A i \in 1..(Len(F) + 1) : i = Len(F) + 1 \/ i \in 1..Len(F)
    BY <1>6
  <2> QED
    BY <1>9, <2>1, <2>2, <2>3 DEF AllStored
<1> QED
  BY <1>2, <1>9, <1>10 DEF AllStored, F, c

-----------------------------------------------------------------------------
(***************************************************************************)
(* What is printed.  `w` are the tokens of the tree at hand that are, and  *)
(* the writer's two flags say what the next one needs before it.           *)
(***************************************************************************)
LastTag(w) == IF w = <<>> THEN "none" ELSE w[Len(w)].tag

Spaces(tag) ==
  IF oneline
  THEN ~needsNewline /\ (needsSpace <=> tag \in LeafTags \cup {"close"})
  ELSE /\ needsNewline <=> tag \in {"open", "close"}
       /\ tag \in LeafTags => needsSpace
       /\ tag = "none" => ~needsSpace

Printed(ts, w) ==
  /\ AllStored(w)
  /\ out = Renders(ts) \o Laid(w)
  /\ depth = DepthAt(w, Len(w))
  /\ Spaces(LastTag(w))

Going(w, p, ls) == Flat[p] \o <<Bracket("close")>> = w \o Left(ls)

LEMMA TextGrouped ==
  ASSUME NEW a \in Seq(Lex!Chars), NEW b \in Seq(Lex!Chars), NEW c \in Seq(Lex!Chars)
  PROVE  (a \o b) \o c = a \o (b \o c) /\ a \o b \in Seq(Lex!Chars)
         /\ a \o <<>> = a /\ <<>> \o a = a
<1>1. (a \o b) \o c = a \o (b \o c)
  BY ONLY Regroup
<1>2. a \o b \in Seq(Lex!Chars)
  BY ONLY ConcatProperties
<1> QED
  BY <1>1, <1>2, ConcatEmptySeq

LEMMA LastTagIs ==
  ASSUME NEW w \in Seq(Items), NEW x \in Items
  PROVE  /\ LastTag(Append(w, x)) = x.tag
         /\ LastTag(w) \in LeafTags \cup {"none", "open", "close"}
         /\ TagBefore(Append(w, x), Len(w) + 1) = LastTag(w)
         /\ Append(w, x) \in Seq(Items) /\ Append(w, x)[Len(w) + 1] = x
         /\ Len(Append(w, x)) = Len(w) + 1
<1> DEFINE t == Append(w, x)
           n == Len(w)
<1>1. /\ t \in Seq(Items) /\ t # <<>> /\ Len(t) = n + 1 /\ t[n+1] = x /\ n \in Nat
      /\ \A i \in 1..n : t[i] = w[i]
  BY FrontAppend
<1>2. w = <<>> <=> n = 0
  BY EmptySeq
<1>3. n # 0 => w[n] \in Items /\ n \in 1..n
  BY <1>1, ElementOfSeq
<1> HIDE DEF t, n
<1>4. LastTag(t) = x.tag
  BY <1>1 DEF LastTag
<1>5. LastTag(w) = IF n = 0 THEN "none" ELSE w[n].tag
  BY <1>2 DEF LastTag, n
<1>6. LastTag(w) \in LeafTags \cup {"none", "open", "close"}
  BY <1>3, <1>5, ItemFacts
<1>7. TagBefore(t, n + 1) = LastTag(w)
  <2>1. n + 1 - 1 = n /\ (n + 1 = 1 <=> n = 0)
    BY <1>1
  <2> QED
    BY <1>1, <1>3, <1>5, <2>1 DEF TagBefore
<1> QED
  BY <1>1, <1>4, <1>6, <1>7 DEF t, n

(***************************************************************************)
(* What a leaf is put after is what the layout has before it.              *)
(***************************************************************************)
LEMMA SeparatorIs ==
  ASSUME NEW ts, NEW w \in Seq(Items), Printed(ts, w), NEW x \in Leaves
  PROVE  LaidOutAs(Append(w, x), Len(w) + 1) = Separator \o SpellingOf(x)
<1> DEFINE t == Append(w, x)
           n == Len(w) + 1
           b == LastTag(w)
           space == CASE b \in LeafTags -> <<"blank">>
                      [] b = "close" /\ oneline -> <<"blank">>
                      [] b \in {"open", "close"} /\ ~oneline ->
                           <<"newline">> \o Indent(depth)
                      [] OTHER -> <<>>
<1>1. x \in Items /\ x.tag \in LeafTags
  BY ItemFacts, LeafFacts
<1>2. t[n] = x /\ TagBefore(t, n) = b /\ b \in LeafTags \cup {"none", "open", "close"}
  BY <1>1, LastTagIs
<1>3. DepthAt(t, n) = depth
  <2>1. x.tag # "open" /\ x.tag # "close"
    BY <1>1 DEF LeafTags
  <2>2. DepthAt(t, n) = DepthAt(w, Len(w)) + 0
    BY <1>1, <2>1, DepthFacts
  <2>3. DepthAt(w, Len(w)) \in Int
    <3>1. Len(w) \in 0..Len(w)
      BY LenProperties
    <3> QED
      BY <1>1, <3>1, DepthFacts
  <2> HIDE DEF t, n
  <2> QED
    BY <2>2, <2>3 DEF Printed
<1> HIDE DEF t, n
<1>4. LaidOutAs(t, n) = space \o SpellingOf(x)
  <2> HIDE DEF b
  <2>1. LaidOutAs(t, n) =
          (CASE TagBefore(t, n) \in LeafTags -> <<"blank">>
             [] TagBefore(t, n) = "close" /\ oneline -> <<"blank">>
             [] TagBefore(t, n) \in {"open", "close"} /\ ~oneline ->
                  <<"newline">> \o Indent(DepthAt(t, n))
             [] OTHER -> <<>>)
          \o SpellingOf(t[n])
    BY <1>1, <1>2, LaidOutIs
  <2> QED
    BY <1>2, <1>3, <2>1
<1>5. Separator = space
  <2>1. Spaces(b)
    BY DEF Printed
  <2> HIDE DEF b
  <2>2. CASE oneline /\ b \in LeafTags \cup {"close"}
    BY <1>2, <2>1, <2>2 DEF Spaces, Separator, LeafTags
  <2>3. CASE oneline /\ b \in {"none", "open"}
    BY <1>2, <2>1, <2>3 DEF Spaces, Separator, LeafTags
  <2>4. CASE ~oneline /\ b \in LeafTags
    BY <1>2, <2>1, <2>4 DEF Spaces, Separator, LeafTags
  <2>5. CASE ~oneline /\ b \in {"open", "close"}
    BY <1>2, <2>1, <2>5 DEF Spaces, Separator, LeafTags
  <2>6. CASE ~oneline /\ b = "none"
    BY <1>2, <2>1, <2>6 DEF Spaces, Separator, LeafTags
  <2> QED
    BY <1>2, <2>2, <2>3, <2>4, <2>5, <2>6
<1> HIDE DEF space
<1> QED
  BY <1>4, <1>5 DEF t, n

(***************************************************************************)
(* The writer puts one more token.                                         *)
(***************************************************************************)
DepthBy(n, x) == n + (IF x.tag = "open" THEN 1 ELSE IF x.tag = "close" THEN -1 ELSE 0)

Puts(w, x) ==
  /\ out' = out \o LaidOutAs(Append(w, x), Len(w) + 1)
  /\ depth' = DepthBy(depth, x)
  /\ store' = store /\ oneline' = oneline
  /\ Spaces(x.tag)'

LEMMA PrintedGrows ==
  ASSUME StoreType, Trees = AllTrees, NEW ts \in Seq(Trees), TreesStored(ts),
         NEW w \in Seq(Items), Printed(ts, w), NEW x \in Items, Stored(x), Puts(w, x)
  PROVE  TreesStored(ts)' /\ Printed(ts, Append(w, x))'
<1> DEFINE t == Append(w, x)
           r == Renders(ts)
           l == Laid(w)
           y == LaidOutAs(t, Len(w) + 1)
<1>1. t \in Seq(Items) /\ Len(t) = Len(w) + 1 /\ LastTag(t) = x.tag /\ t[Len(w) + 1] = x
  BY LastTagIs
<1>2. AllStored(t) /\ Laid(t) = l \o y /\ l \in Seq(Lex!Chars)
  BY LaidGrows DEF Printed
<1>3. StoreGrows
  BY DEF Puts, StoreGrows
<1>4. AllStored(t)' /\ Laid(t)' = Laid(t)
  BY <1>1, <1>2, <1>3, LaidStays
<1>5. TreesStored(ts)' /\ Renders(ts)' = r
  BY <1>3, RendersStay
<1>6. r \in Seq(Lex!Chars)
  BY RendersGrows
<1>7. DepthAt(t, Len(t)) = DepthBy(DepthAt(w, Len(w)), x)
  BY <1>1, DepthFacts DEF DepthBy
<1>8. y \in Seq(Lex!Chars)
  <2>1. DepthAt(t, Len(w) + 1) \in Int
    <3>1. Len(t) \in 0..Len(t)
      BY <1>1, LenProperties
    <3> QED
      BY <1>1, <3>1, DepthFacts
  <2> HIDE DEF t
  <2> QED
    BY <1>1, <2>1, LaidOutType
<1>9. out' = (r \o l) \o y
  BY DEF Puts, Printed
<1> HIDE DEF t, r, l, y
<1>10. out' = r \o (l \o y)
  <2>1. (r \o l) \o y = r \o (l \o y)
    BY ONLY <1>2, <1>6, <1>8, TextGrouped
  <2> QED
    BY <1>9, <2>1
<1>11. (depth = DepthAt(t, Len(t)))'
  BY <1>7 DEF Puts, Printed, DepthAt
<1>12. Spaces(LastTag(t))'
  BY <1>1 DEF Puts, Spaces
<1> QED
  BY <1>2, <1>4, <1>5, <1>10, <1>11, <1>12 DEF Printed, t

(***************************************************************************)
(* The next of what is left.                                               *)
(***************************************************************************)
LEMMA GoesOn ==
  ASSUME Trees = AllTrees, NEW p, Flat[p] \in Seq(Items),
         AllStored(Flat[p] \o <<Bracket("close")>>),
         NEW w \in Seq(Items), NEW ls, NEW x \in Items, NEW ms, Left(ms) \in Seq(Items),
         Going(w, p, ls), Left(ls) = <<x>> \o Left(ms)
  PROVE  Stored(x) /\ Going(Append(w, x), p, ms)
<1> DEFINE b == <<x>>
           c == Left(ms)
           d == b \o c
           all == Flat[p] \o <<Bracket("close")>>
<1>1. b \in Seq(Items) /\ Len(b) = 1 /\ b[1] = x /\ c \in Seq(Items)
  OBVIOUS
<1>2. all = w \o d /\ AllStored(all)
  BY DEF Going
<1>3. Append(w, x) = w \o b
  BY AppendIsConcat
<1> HIDE DEF b, c, all
<1>4. (w \o b) \o c = w \o (b \o c)
  BY ONLY <1>1, Grouped
<1>5. Going(Append(w, x), p, ms)
  BY <1>2, <1>3, <1>4 DEF Going, c, d, all
<1>6. d \in Seq(Items) /\ Len(d) = 1 + Len(c) /\ d[1] = x /\ Len(c) \in Nat
  <2>1. Joined(b, c)
    BY <1>1 DEF Joined
  <2>2. /\ d \in Seq(Items) /\ Len(d) = Len(b) + Len(c) /\ Len(c) \in Nat
        /\ \A i \in 1..Len(b) : d[i] = b[i]
    BY ONLY <2>1, JoinFacts
  <2> HIDE DEF d
  <2> QED
    BY <1>1, <2>2
<1> HIDE DEF d
<1>7. /\ Len(w \o d) = Len(w) + Len(d) /\ Len(w) \in Nat
      /\ \A i \in 1..Len(d) : (w \o d)[Len(w) + i] = d[i]
  <2>1. Joined(w, d)
    BY <1>6 DEF Joined
  <2> QED
    BY ONLY <2>1, JoinFacts
<1>8. Stored(x)
  <2>1. 1 \in 1..Len(d) /\ Len(w) + 1 \in 1..Len(all)
    BY <1>2, <1>6, <1>7
  <2> QED
    BY <1>2, <1>6, <1>7, <2>1 DEF AllStored
<1> QED
  BY <1>5, <1>8

(***************************************************************************)
(* What is printed, as a state: the trees of the file that are done and,   *)
(* while one is being written, as much of it as is not left to be.         *)
(***************************************************************************)
OutInv ==
  /\ Listed(todo)
  /\ phase = "write" => depth = Len(todo) - 1
  /\ \E ts \in Seq(Trees) :
       /\ ts = trees[Len(trees)] /\ TreesStored(ts)
       /\ IF phase = "write"
          THEN \E w \in Seq(Items) : Going(w, parsed, todo) /\ Printed(ts, w)
          ELSE out = Renders(ts)

LEMMA OutType ==
  ASSUME Trees = AllTrees, ReadInv, OutInv
  PROVE  out \in Seq(Lex!Chars)
<1>1. PICK ts \in Seq(Trees) :
        /\ TreesStored(ts)
        /\ out = Renders(ts) \/ \E w \in Seq(Items) : Printed(ts, w)
  BY DEF OutInv
<1>2. StoreType
  BY DEF ReadInv, TokenInv, StoreInv
<1>3. Renders(ts) \in Seq(Lex!Chars)
  BY <1>1, <1>2, RendersGrows
<1>4. ASSUME NEW w \in Seq(Items), Printed(ts, w) PROVE out \in Seq(Lex!Chars)
  <2>1. Laid(w) \in Seq(Lex!Chars) /\ out = Renders(ts) \o Laid(w)
    BY <1>2, <1>4, LaidGrows DEF Printed
  <2>2. Renders(ts) \o Laid(w) \in Seq(Lex!Chars)
    BY ONLY <1>3, <2>1, TextGrouped
  <2> QED
    BY <2>1, <2>2
<1> QED
  BY <1>1, <1>3, <1>4

LEMMA OutBegins ==
  ASSUME Trees = AllTrees, Init
  PROVE  OutInv
<1>1. todo = <<<<>>>> /\ out = <<>> /\ phase = "parse" /\ trees = <<<<>>>>
  BY DEF Init
<1>2. <<>> \in Seq(Trees) /\ Listed(todo) /\ trees[Len(trees)] = <<>>
  BY <1>1 DEF Listed
<1>3. TreesStored(<<>>) /\ Renders(<<>>) = <<>>
  BY DEF TreesStored, Renders, FlattenSeq
<1> QED
  BY <1>1, <1>2, <1>3 DEF OutInv

(***************************************************************************)
(* Nothing is printed while the file is read or copied.                    *)
(***************************************************************************)
LEMMA OutStays ==
  ASSUME Trees = AllTrees, StoreType, OutInv, StoreGrows,
         phase # "write", phase' # "write", UNCHANGED <<out, trees, todo>>
  PROVE  OutInv'
<1>1. PICK ts \in Seq(Trees) :
        ts = trees[Len(trees)] /\ TreesStored(ts) /\ out = Renders(ts)
  BY DEF OutInv
<1>2. TreesStored(ts)' /\ Renders(ts)' = Renders(ts)
  BY <1>1, RendersStay
<1>3. (/\ ts \in Seq(Trees) /\ ts = trees[Len(trees)] /\ TreesStored(ts)
       /\ phase # "write" /\ out = Renders(ts))'
  BY <1>1, <1>2
<1>4. Listed(todo)'
  BY DEF OutInv, Listed
<1> QED
  BY <1>3, <1>4 DEF OutInv

LEMMA StartWriteOut ==
  ASSUME Trees = AllTrees, ReadInv, OutInv, StartWrite
  PROVE  OutInv'
<1>1. /\ parsed' = parsed /\ parsed # NoTree /\ parsed \in Trees
      /\ phase # "write" /\ phase' = "write" /\ todo' = <<<<parsed>>>>
      /\ StoreGrows /\ UNCHANGED <<out, trees, oneline>>
      /\ depth' = 0 /\ needsSpace' = FALSE /\ needsNewline' = FALSE
  <2>1. parsed' = parsed /\ parsed # NoTree
    BY StartWriteReads
  <2>2. parsed \in Trees
    BY <2>1 DEF ReadInv, TreesInv
  <2> QED
    BY <2>1, <2>2 DEF StartWrite, Got, WriterReset, TextStays, fileVars, StoreGrows
<1>2. PICK ts \in Seq(Trees) :
        ts = trees[Len(trees)] /\ TreesStored(ts) /\ out = Renders(ts)
  BY <1>1 DEF OutInv
<1>3. StoreType
  BY DEF ReadInv, TokenInv, StoreInv
<1>4. TreesStored(ts)' /\ Renders(ts)' = Renders(ts) /\ Renders(ts) \in Seq(Lex!Chars)
  BY <1>1, <1>2, <1>3, RendersStay, RendersGrows
<1>5. Printed(ts, <<>>)'
  <2>1. <<>> \in Seq(Items) /\ AllStored(<<>>)
    BY EmptySeq DEF AllStored
  <2>2. Laid(<<>>) = <<>>
    BY DEF Laid, FlattenSeq
  <2>3. AllStored(<<>>)' /\ Laid(<<>>)' = <<>>
    BY <1>1, <1>3, <2>1, <2>2, LaidStays
  <2>4. Renders(ts) \o <<>> = Renders(ts)
    BY ONLY <1>4, TextGrouped
  <2>5. (out = Renders(ts) \o Laid(<<>>))'
    BY <1>1, <1>2, <1>4, <2>3, <2>4
  <2>6. (depth = DepthAt(<<>>, Len(<<>>)))'
    <3>1. Bracket("open") \in Items
      BY ItemFacts
    <3>2. DepthAt(<<>>, 0) = 0
      BY <2>1, <3>1, DepthFacts
    <3> QED
      BY <1>1, <3>2 DEF DepthAt
  <2>7. Spaces(LastTag(<<>>))'
    BY <1>1 DEF Spaces, LastTag, LeafTags
  <2> QED
    BY <2>3, <2>5, <2>6, <2>7 DEF Printed
<1>6. Listed(todo') /\ Len(todo') = 1
  BY <1>1 DEF Listed
<1>7. Going(<<>>, parsed, <<<<parsed>>>>)
  <2> DEFINE c == <<Bracket("close")>>
             p == parsed
  <2>1. <<>> \in Seq(Trees) /\ <<>> \in Seq(Seq(Trees)) /\ <<p>> \in Seq(Trees)
        /\ <<p>> = Append(<<>>, p) /\ <<<<p>>>> = Append(<<>>, <<p>>)
    BY <1>1
  <2>2. c \in Seq(Items)
    BY ItemFacts
  <2>3. Flats(<<>>) = <<>> /\ Flats(<<p>>) = Flats(<<>>) \o Flat[p] /\ Flat[p] \in Seq(Items)
    BY <1>1, <2>1, FlatsFacts
  <2>4. Left(<<>>) = <<>> /\ Left(<<<<p>>>>) = Closing(<<p>>) \o Left(<<>>)
    BY <2>1, LeftFacts
  <2>5. Closing(<<p>>) \in Seq(Items)
    BY <2>1, ClosingType
  <2> HIDE DEF c
  <2>6. Flats(<<p>>) = Flat[p]
    <3>1. <<>> \o Flat[p] = Flat[p]
      BY ONLY <2>3, JoinType
    <3> QED
      BY <2>3, <3>1
  <2>7. Left(<<<<p>>>>) = Closing(<<p>>)
    <3>1. Closing(<<p>>) \o <<>> = Closing(<<p>>)
      BY ONLY <2>5, JoinType
    <3> QED
      BY <2>4, <3>1
  <2>8. Closing(<<p>>) = Flat[p] \o c
    BY <2>6 DEF Closing, c
  <2>9. <<>> \o Closing(<<p>>) = Closing(<<p>>)
    BY ONLY <2>5, JoinType
  <2> QED
    BY <2>7, <2>8, <2>9 DEF Going, c
<1>8. <<>> \in Seq(Items)
  BY EmptySeq
<1>9. (Going(<<>>, parsed, todo))'
  BY <1>1, <1>7 DEF Going
<1>10. (ts = trees[Len(trees)])'
  BY <1>1, <1>2
<1>11. (depth = Len(todo) - 1)'
  BY <1>1, <1>6
<1> QED
  BY <1>1, <1>4, <1>5, <1>6, <1>8, <1>9, <1>10, <1>11 DEF OutInv

(***************************************************************************)
(* The writer's steps put what is left, one token after the other.         *)
(***************************************************************************)
PutsNext(x) == \A ts, w : w \in Seq(Items) /\ Printed(ts, w) => Puts(w, x)

LEMMA OutGrows ==
  ASSUME Trees = AllTrees, ReadInv, OutInv, phase = "write", phase' = "write",
         UNCHANGED <<parsed, trees>>,
         NEW x \in Items, PutsNext(x), NEW ls, ls = todo, NEW ms, ms = todo', Listed(ms),
         Left(ls) = <<x>> \o Left(ms), Len(ms) = DepthBy(Len(ls), x)
  PROVE  OutInv'
<1>1. PICK ts \in Seq(Trees) : ts = trees[Len(trees)] /\ TreesStored(ts)
                               /\ \E w \in Seq(Items) : Going(w, parsed, todo) /\ Printed(ts, w)
  BY DEF OutInv
<1>2. PICK w \in Seq(Items) : Going(w, parsed, todo) /\ Printed(ts, w)
  BY <1>1
<1>3. StoreType /\ parsed # NoTree
  BY DEF ReadInv, TokenInv, StoreInv, PhaseInv
<1>4. Flat[parsed] \in Seq(Items) /\ AllStored(Flat[parsed] \o <<Bracket("close")>>)
  BY <1>3, ParsedStored
<1>5. Left(ms) \in Seq(Items)
  <2>1. ms \in Seq(Seq(Trees)) /\ <<>> \in Seq(Trees)
    BY EmptySeq DEF Listed
  <2> QED
    BY <2>1, LeftFacts
<1>6. Stored(x) /\ Going(Append(w, x), parsed, ms)
  BY <1>2, <1>4, <1>5, GoesOn
<1>7. Puts(w, x)
  BY <1>2 DEF PutsNext
<1>8. TreesStored(ts)' /\ Printed(ts, Append(w, x))'
  BY <1>1, <1>2, <1>3, <1>6, <1>7, PrintedGrows
<1>9. Append(w, x) \in Seq(Items)
  BY LastTagIs
<1>10. (Going(Append(w, x), parsed, todo))'
  BY <1>6 DEF Going
<1>11. (depth = Len(todo) - 1)' /\ Listed(todo)'
  <2>1. depth = Len(todo) - 1 /\ depth' = DepthBy(depth, x)
    BY <1>7 DEF OutInv, Puts
  <2>2. Len(ls) \in Nat
    BY LenProperties DEF OutInv, Listed
  <2> QED
    BY <2>1, <2>2 DEF DepthBy
<1>12. (ts = trees[Len(trees)])'
  BY <1>1
<1> QED
  BY <1>1, <1>8, <1>9, <1>10, <1>11, <1>12 DEF OutInv

LEMMA WriteLeafOut ==
  ASSUME Trees = AllTrees, ReadInv, OutInv, WriteLeaf
  PROVE  OutInv'
<1>0. PICK x : x = Head(Elems)
  OBVIOUS
<1>1. /\ phase = "write" /\ phase' = "write" /\ Elems # <<>> /\ x.tag \in LeafTags
      /\ out' = out \o (Separator \o SpellingOf(x))
      /\ needsNewline' = FALSE /\ needsSpace' = TRUE
      /\ UNCHANGED <<oneline, depth, store, parsed, trees>>
      /\ todo' = Rest(todo)
  BY <1>0 DEF WriteLeaf, WriteText, Put, WritingStays, TextStays, fileVars, Rest
<1>2. Listed(todo) /\ Len(todo) \in Nat
  BY LenProperties DEF OutInv, Listed
<1>3. /\ x \in Trees /\ Listed(Rest(todo)) /\ Len(Rest(todo)) = Len(todo)
      /\ Left(todo) = Flat[x] \o Left(Rest(todo))
  BY <1>0, <1>1, <1>2, RestFacts DEF Elems
<1>4. x \in Leaves
  <2>1. x \in Leaves \/ x = Arr(x.elems)
    BY <1>3, TreeFacts
  <2>2. Arr(x.elems).tag = "arr"
    BY ArrFacts
  <2> QED
    BY <1>1, <2>1, <2>2 DEF LeafTags
<1>5. Flat[x] = <<x>> /\ x \in Items
  BY <1>4, FlatLeaf, ItemFacts
<1>6. PutsNext(x)
  <2> SUFFICES ASSUME NEW ts, NEW w \in Seq(Items), Printed(ts, w) PROVE Puts(w, x)
    BY DEF PutsNext
  <2>1. out' = out \o LaidOutAs(Append(w, x), Len(w) + 1)
    BY <1>1, <1>4, SeparatorIs
  <2>2. depth' = DepthBy(depth, x)
    <3>1. depth \in Int
      BY <1>1, <1>2 DEF OutInv
    <3> QED
      BY <1>1, <3>1 DEF DepthBy, LeafTags
  <2>3. Spaces(x.tag)'
    <3>1. oneline => ~needsNewline
      BY DEF Printed, Spaces
    <3>2. x.tag \notin {"open", "close", "none"}
      BY <1>1 DEF LeafTags
    <3>3. x.tag \in LeafTags \cup {"close"} /\ x.tag \notin {"open", "close"} /\ x.tag # "none"
      BY <1>1, <3>2
    <3>4. ~needsNewline' /\ needsSpace'
      BY <1>1
    <3> QED
      BY <1>1, <3>1, <3>3, <3>4 DEF Spaces
  <2> QED
    BY <1>1, <2>1, <2>2, <2>3 DEF Puts
<1>7. Left(todo) = <<x>> \o Left(todo') /\ Listed(todo') /\ Len(todo') = DepthBy(Len(todo), x)
  <2>1. DepthBy(Len(todo), x) = Len(todo)
    BY <1>1, <1>2 DEF DepthBy, LeafTags
  <2> QED
    BY <1>1, <1>3, <1>5, <2>1
<1> QED
  BY <1>1, <1>5, <1>6, <1>7, OutGrows

LEMMA EnterListOut ==
  ASSUME Trees = AllTrees, ReadInv, OutInv, EnterList
  PROVE  OutInv'
<1> DEFINE t == Head(Elems)
           x == Bracket("open")
<1>1. /\ phase = "write" /\ phase' = "write" /\ Elems # <<>> /\ t.tag = "arr"
      /\ WriteOpen
      /\ UNCHANGED <<store, parsed, trees>>
      /\ todo' = Append(Rest(todo), t.elems)
  BY DEF EnterList, WritingStays, TextStays, fileVars, Rest
<1>2. Listed(todo) /\ Len(todo) \in Nat
  BY LenProperties DEF OutInv, Listed
<1>3. /\ t \in Trees /\ Listed(Rest(todo)) /\ Len(Rest(todo)) = Len(todo)
      /\ Left(todo) = Flat[t] \o Left(Rest(todo))
  BY <1>1, <1>2, RestFacts DEF Elems
<1> HIDE DEF t
<1>4. t = Arr(t.elems) /\ t.elems \in Seq(Trees)
  <2>1. t \in Leaves \/ (t = Arr(t.elems) /\ t.elems \in Seq(AllTrees))
    BY <1>3, TreeFacts
  <2> QED
    BY <1>1, <2>1, LeafFacts
<1>5. /\ Listed(todo') /\ Len(todo') = Len(todo) + 1
      /\ Flat[Arr(t.elems)] \o Left(Rest(todo)) = <<x>> \o Left(todo')
  BY <1>1, <1>3, <1>4, EnteredFacts
<1>6. x \in Items /\ x.tag = "open"
  BY ItemFacts
<1> HIDE DEF x
<1>7. Left(todo) = <<x>> \o Left(todo')
  BY <1>3, <1>4, <1>5
<1>8. PutsNext(x)
  <2> SUFFICES ASSUME NEW ts, NEW w \in Seq(Items), Printed(ts, w) PROVE Puts(w, x)
    BY DEF PutsNext
  <2>1. LaidOutAs(Append(w, x), Len(w) + 1) = IF oneline THEN <<"open">> ELSE <<"colon">>
    <3>1. Append(w, x)[Len(w) + 1] = x
      BY <1>6, LastTagIs
    <3> QED
      BY <1>6, <3>1, LaidOutIs
  <2>2. out' = out \o LaidOutAs(Append(w, x), Len(w) + 1)
    BY <1>1, <2>1 DEF WriteOpen, Put
  <2>3. depth' = DepthBy(depth, x) /\ oneline' = oneline
    BY <1>1, <1>6 DEF DepthBy, WriteOpen
  <2>4. Spaces(x.tag)'
    <3>1. oneline => ~needsNewline
      BY DEF Printed, Spaces
    <3> QED
      BY <1>1, <1>6, <3>1 DEF Spaces, WriteOpen, LeafTags
  <2> QED
    BY <1>1, <2>2, <2>3, <2>4 DEF Puts
<1>9. Len(todo') = DepthBy(Len(todo), x)
  BY <1>5, <1>6 DEF DepthBy
<1> QED
  BY <1>1, <1>5, <1>6, <1>7, <1>8, <1>9, OutGrows

LEMMA LeaveListOut ==
  ASSUME Trees = AllTrees, ReadInv, OutInv, LeaveList
  PROVE  OutInv'
<1> DEFINE x == Bracket("close")
<1>1. /\ phase = "write" /\ phase' = "write" /\ Elems = <<>> /\ Len(todo) > 1
      /\ WriteClose
      /\ UNCHANGED <<store, parsed, trees>>
      /\ todo' = Front(todo)
  BY DEF LeaveList, WritingStays, TextStays, fileVars
<1>2. Listed(todo) /\ Len(todo) \in Nat
  BY LenProperties DEF OutInv, Listed
<1>3. /\ Front(todo) \in Seq(Seq(Trees)) /\ Len(Front(todo)) = Len(todo) - 1
      /\ Left(todo) = <<x>> \o Left(Front(todo))
  BY <1>1, <1>2, LeftoverFacts DEF Elems
<1>4. x \in Items /\ x.tag = "close"
  BY ItemFacts
<1> HIDE DEF x
<1>5. Listed(todo')
  <2>1. Len(todo') # 0
    BY <1>1, <1>2, <1>3
  <2> QED
    BY <1>1, <1>3, <2>1 DEF Listed
<1>6. PutsNext(x)
  <2> SUFFICES ASSUME NEW ts, NEW w \in Seq(Items), Printed(ts, w) PROVE Puts(w, x)
    BY DEF PutsNext
  <2>1. LaidOutAs(Append(w, x), Len(w) + 1) = IF oneline THEN <<"close">> ELSE <<>>
    <3>1. Append(w, x)[Len(w) + 1] = x
      BY <1>4, LastTagIs
    <3> QED
      BY <1>4, <3>1, LaidOutIs
  <2>2. out' = out \o LaidOutAs(Append(w, x), Len(w) + 1)
    <3>1. CASE oneline
      BY <1>1, <2>1, <3>1 DEF WriteClose, Put
    <3>2. CASE ~oneline
      <4>1. out' = out
        BY <1>1, <3>2 DEF WriteClose
      <4>2. out \in Seq(Lex!Chars)
        BY OutType
      <4>3. out \o <<>> = out
        BY ONLY <4>2, TextGrouped
      <4> QED
        BY <2>1, <3>2, <4>1, <4>3
    <3> QED
      BY <3>1, <3>2
  <2>3. depth' = DepthBy(depth, x) /\ oneline' = oneline
    <3>1. depth \in Int
      BY <1>1, <1>2 DEF OutInv
    <3> QED
      BY <1>1, <1>4, <3>1 DEF DepthBy, WriteClose
  <2>4. Spaces(x.tag)'
    <3>1. oneline => ~needsNewline
      BY DEF Printed, Spaces
    <3> QED
      BY <1>1, <1>4, <3>1 DEF Spaces, WriteClose, LeafTags
  <2> QED
    BY <1>1, <2>2, <2>3, <2>4 DEF Puts
<1>7. Len(todo') = DepthBy(Len(todo), x)
  BY <1>1, <1>2, <1>3, <1>4 DEF DepthBy
<1> QED
  BY <1>1, <1>3, <1>4, <1>5, <1>6, <1>7, OutGrows

(***************************************************************************)
(* When nothing is left to be written, the whole tree is printed.          *)
(***************************************************************************)
LEMMA SameBeforeLast ==
  ASSUME NEW f \in Seq(Items), NEW w \in Seq(Items), NEW x \in Items,
         f \o <<x>> = w \o <<x>>
  PROVE  f = w
<1>1. Append(f, x) = Append(w, x)
  BY AppendIsConcat
<1>2. Front(Append(f, x)) = f /\ Front(Append(w, x)) = w
  BY FrontAppend
<1> QED
  BY <1>1, <1>2

LEMMA EndWriteOut ==
  ASSUME Trees = AllTrees, ReadInv, OutInv, EndWrite
  PROVE  OutInv'
<1>1. /\ phase = "write" /\ phase' = "parse" /\ todo = <<<<>>>> /\ todo' = todo
      /\ out' = out \o <<"newline">> /\ StoreGrows
  BY DEF EndWrite, Put, StoreGrows
<1>2. PICK ts \in Seq(Trees) : ts = trees[Len(trees)] /\ TreesStored(ts)
                               /\ \E w \in Seq(Items) : Going(w, parsed, todo) /\ Printed(ts, w)
  BY <1>1 DEF OutInv
<1>3. PICK w \in Seq(Items) : Going(w, parsed, todo) /\ Printed(ts, w)
  BY <1>2
<1>4. PICK p \in Trees : p = parsed /\ trees' = Append(Front(trees), Append(ts, p))
  BY <1>2, EndWriteReads
<1>5. p # NoTree /\ StoreType /\ Listed(trees)
  BY <1>1, <1>4 DEF ReadInv, TokenInv, StoreInv, PhaseInv, TreesInv
<1>6. Flat[p] \in Seq(Items) /\ AllStored(Flat[p])
  BY <1>4, <1>5, ParsedStored
<1>7. w = Flat[p]
  <2> DEFINE x == Bracket("close")
  <2>1. x \in Items /\ <<x>> \in Seq(Items)
    BY ItemFacts
  <2>2. Left(todo) = <<x>>
    <3>1. Listed(todo) /\ todo[Len(todo)] = <<>> /\ Front(todo) = <<>>
      BY <1>1 DEF Listed, Front
    <3>2. Left(todo) = <<x>> \o Left(<<>>)
      BY <3>1, LeftoverFacts
    <3>3. Left(<<>>) = <<>>
      BY DEF Left, FlattenSeq
    <3> HIDE DEF x
    <3>4. <<x>> \o <<>> = <<x>>
      BY ONLY <2>1, JoinType
    <3> QED
      BY <3>2, <3>3, <3>4
  <2>3. Flat[p] \o <<x>> = w \o <<x>>
    BY <1>3, <1>4, <2>2 DEF Going
  <2> HIDE DEF x
  <2> QED
    BY <1>6, <2>1, <2>3, SameBeforeLast
<1> DEFINE us == Append(ts, p)
<1>8. /\ us \in Seq(Trees) /\ TreesStored(us)
      /\ Renders(us) = Renders(ts) \o (Laid(w) \o <<"newline">>)
      /\ Renders(ts) \in Seq(Lex!Chars)
  BY <1>2, <1>5, <1>6, <1>7, RendersGrows, AppendProperties
<1> HIDE DEF us
<1>9. out' = Renders(us)
  <2>1. out = Renders(ts) \o Laid(w)
    BY <1>3 DEF Printed
  <2>2. Laid(w) \in Seq(Lex!Chars) /\ <<"newline">> \in Seq(Lex!Chars)
    <3>1. AllStored(w)
      BY <1>6, <1>7
    <3> QED
      BY <1>5, <3>1, LaidGrows, CharFacts
  <2>3. (Renders(ts) \o Laid(w)) \o <<"newline">> = Renders(ts) \o (Laid(w) \o <<"newline">>)
    BY ONLY <1>8, <2>2, TextGrouped
  <2> QED
    BY <1>1, <1>8, <2>1, <2>3
<1>10. TreesStored(us)' /\ Renders(us)' = Renders(us)
  BY <1>1, <1>5, <1>8, RendersStay
<1>11. (us = trees[Len(trees)])'
  <2>1. Front(trees) \in Seq(Seq(Trees))
    BY <1>5, LastFacts DEF Listed
  <2>2. /\ Len(trees') = Len(Front(trees)) + 1
        /\ trees'[Len(Front(trees)) + 1] = us
    BY <1>4, <1>8, <2>1, FrontAppend DEF us
  <2> QED
    BY <2>2
<1>12. (Listed(todo))' /\ (phase # "write")'
  BY <1>1 DEF OutInv, Listed
<1>13. (out = Renders(us))'
  BY <1>9, <1>10
<1> QED
  BY <1>8, <1>10, <1>11, <1>12, <1>13 DEF OutInv

-----------------------------------------------------------------------------
(***************************************************************************)
(* The second file: nothing taken and nothing printed yet.                 *)
(***************************************************************************)
LEMMA NextFileReads ==
  ASSUME Trees = AllTrees, ReadInv, OutInv, NextFile
  PROVE  ReadInv' /\ OutInv'
<1>1. PICK data \in {out, Streamed(out)} : Lex!LoadText(data)
  BY DEF NextFile
<1>2. data \in Seq(Lex!Chars)
  BY <1>1, OutType, StreamedType
<1>3. LexInv' /\ tokens' = <<>> /\ status' \in {"run", "error"}
  BY <1>1, <1>2, LexStarts
<1>4. /\ asked' = 1 /\ partial' = <<>> /\ parsed' = NoTree /\ UNCHANGED copyVars
      /\ phase = "parse" /\ phase' = phase /\ store' = store
      /\ trees' = Append(trees, <<>>) /\ out' = <<>> /\ todo' = todo
  BY DEF NextFile, AtEnd, AtToken
<1>5. KeptOf(<<>>) = NoneKept /\ Opened(<<>>) = 0
  <2>1. [kind |-> "int", from |-> 0, to |-> 0] \in TokenType /\ <<>> \in Seq(TokenType)
    BY DEF TokenType, Lex!Kinds
  <2> QED
    BY <2>1, KeptOfFacts, OpenedFacts
<1>6. AskInv' /\ Taken' = <<>>
  BY <1>3, <1>4, <1>5 DEF AskInv, NoneKept, Taken, Kept
<1>7. StoreInv'
  BY <1>4 DEF ReadInv, TokenInv, StoreInv, StoreType
<1>8. Placed(Taken)' /\ Meanings(Taken)' = <<>>
  BY <1>6 DEF Placed, Meanings
<1>9. <<>> \in Seq(Trees) /\ <<>> \in Seq(Seq(Trees)) /\ Listed(trees)
  BY EmptySeq DEF ReadInv, TreesInv
<1>10. Listed(trees') /\ trees'[Len(trees')] = <<>>
  <2>1. /\ trees' \in Seq(Seq(Trees)) /\ trees' # <<>> /\ Len(trees') = Len(trees) + 1
        /\ trees'[Len(trees) + 1] = <<>>
    BY <1>4, <1>9, FrontAppend DEF Listed
  <2> QED
    BY <2>1 DEF Listed
<1>11. (Spelled(trees, parsed, partial))' = <<>>
  <2>1. Flats(<<>>) = <<>> /\ Opens(<<>>) = <<>>
    BY <1>9, FlatsFacts, OpensFacts
  <2>2. <<>> \o <<>> = <<>>
    OBVIOUS
  <2> QED
    BY <1>4, <1>10, <2>1, <2>2 DEF Spelled
<1>12. TreesInv'
  BY <1>4, <1>5, <1>6, <1>8, <1>9, <1>10, <1>11 DEF TreesInv
<1>13. CopyInv' /\ PhaseInv'
  <2>1. CopyInv
    BY DEF ReadInv
  <2>2. CopyInv'
    BY <1>4, <2>1, CopyStays
  <2> QED
    BY <1>4, <2>2 DEF PhaseInv, Phases, RefusesUnbalanced
<1>14. ReadInv'
  BY <1>3, <1>6, <1>7, <1>8, <1>12, <1>13 DEF ReadInv, TokenInv
<1>15. OutInv'
  <2>1. (TreesStored(<<>>) /\ Renders(<<>>) = <<>>)'
    BY DEF TreesStored, Renders, FlattenSeq
  <2>2. (<<>> = trees[Len(trees)])'
    BY <1>10
  <2>3. Listed(todo)' /\ phase' # "write"
    BY <1>4 DEF OutInv, Listed
  <2> QED
    BY <1>4, <1>9, <2>1, <2>2, <2>3 DEF OutInv
<1> QED
  BY <1>14, <1>15

LEMMA LastFileReads ==
  ASSUME ReadInv, LastFile
  PROVE  ReadInv'
<1>1. /\ UNCHANGED <<lexerVars, textVars, store, trees>> /\ UNCHANGED copyVars
      /\ phase' = "printed"
  BY DEF LastFile, fileVars
<1>2. TokenInv' /\ TreesInv' /\ CopyInv'
  BY <1>1, OthersRead, CopyStays DEF ReadInv
<1> QED
  BY <1>1, <1>2 DEF ReadInv, PhaseInv, Phases, RefusesUnbalanced

LEMMA VarsStay ==
  ASSUME Trees = AllTrees, ReadInv, OutInv, UNCHANGED vars
  PROVE  ReadInv' /\ OutInv'
<1>1. /\ UNCHANGED <<lexerVars, textVars, store, trees>> /\ UNCHANGED copyVars
      /\ UNCHANGED <<phase, parsed, out, todo, depth, oneline, needsSpace, needsNewline>>
  BY DEF vars, textVars, copyVars, writeVars, fileVars
<1>2. TokenInv' /\ TreesInv' /\ CopyInv' /\ Opened(Kept)' = Opened(Kept)
  BY <1>1, OthersRead, CopyStays DEF ReadInv
<1>3. PhaseInv'
  BY <1>1, <1>2 DEF ReadInv, PhaseInv, RefusesUnbalanced, lexerVars
<1>4. StoreType /\ StoreGrows
  BY <1>1 DEF ReadInv, TokenInv, StoreInv, StoreGrows
<1>5. CASE phase # "write"
  BY <1>1, <1>2, <1>3, <1>4, <1>5, OutStays DEF ReadInv
<1>6. CASE phase = "write"
  <2>1. PICK ts \in Seq(Trees) : ts = trees[Len(trees)] /\ TreesStored(ts)
                                 /\ \E w \in Seq(Items) : Going(w, parsed, todo) /\ Printed(ts, w)
    BY <1>6 DEF OutInv
  <2>2. PICK w \in Seq(Items) : Going(w, parsed, todo) /\ Printed(ts, w)
    BY <2>1
  <2>3. AllStored(w)' /\ Laid(w)' = Laid(w) /\ TreesStored(ts)' /\ Renders(ts)' = Renders(ts)
    BY <1>4, <2>1, <2>2, LaidStays, RendersStay DEF Printed
  <2>4. Spaces(LastTag(w))'
    BY <1>1, <2>2 DEF Printed, Spaces, LastTag
  <2>5. Printed(ts, w)'
    BY <1>1, <2>2, <2>3, <2>4 DEF Printed, DepthAt
  <2>6. (ts = trees[Len(trees)])' /\ (Going(w, parsed, todo))'
    BY <1>1, <2>1, <2>2 DEF Going
  <2>7. (Listed(todo))' /\ (depth = Len(todo) - 1)'
    BY <1>1, <1>6 DEF OutInv, Listed
  <2>8. OutInv'
    BY <1>1, <1>6, <2>3, <2>5, <2>6, <2>7 DEF OutInv
  <2> QED
    BY <1>2, <1>3, <2>8 DEF ReadInv
<1> QED
  BY <1>2, <1>3, <1>5, <1>6 DEF ReadInv

(***************************************************************************)
(* All of it together is kept by every step.                               *)
(***************************************************************************)
ProgramInv == ReadInv /\ OutInv

LEMMA ProgramBegins ==
  Trees = AllTrees => (Init => ProgramInv)
  BY ReadBegins, OutBegins DEF ProgramInv

LEMMA ReadingSteps ==
  ASSUME Trees = AllTrees, ProgramInv,
         LexerStep \/ ParseOpen \/ ParseClose \/ ParseInt \/ ParseString
           \/ Refuse \/ StartCopy \/ CopyStep \/ LastFile
  PROVE  ProgramInv'
<1>1. ReadInv /\ OutInv
  BY DEF ProgramInv
<1>2. ReadInv'
  BY <1>1, LexerStepReads, OpenReads, CloseReads, IntReads, StringReads, RefuseReads,
     StartCopyReads, CopyStepReads, LastFileReads
<1>3. /\ phase # "write" /\ phase' # "write"
      /\ UNCHANGED <<out, trees, todo, oneline>>
      /\ store' = store \/ ParseString
  <2>1. CASE LexerStep
    BY <2>1 DEF LexerStep, writeVars, fileVars
  <2>2. CASE ParseOpen
    BY <2>2 DEF ParseOpen, AtToken, Others, writeVars, fileVars
  <2>3. CASE ParseClose
    BY <2>3 DEF ParseClose, AtToken, Others, writeVars, fileVars
  <2>4. CASE ParseInt
    BY <2>4 DEF ParseInt, AtToken, Others, writeVars, fileVars
  <2>5. CASE ParseString
    BY <2>5 DEF ParseString, AtToken, Others, writeVars, fileVars
  <2>6. CASE Refuse
    BY <2>6 DEF Refuse, AtToken, writeVars, fileVars
  <2>7. CASE StartCopy
    BY <2>7 DEF StartCopy, Got, TextStays, writeVars, fileVars
  <2>8. CASE CopyStep
    BY <2>8 DEF CopyStep, TextStays, writeVars, fileVars
  <2>9. CASE LastFile
    BY <2>9 DEF LastFile, AtEnd, AtToken, writeVars, fileVars
  <2> QED
    BY <2>1, <2>2, <2>3, <2>4, <2>5, <2>6, <2>7, <2>8, <2>9
<1>4. StoreType
  BY <1>1 DEF ReadInv, TokenInv, StoreInv
<1>5. StoreGrows
  <2>1. CASE store' = store
    BY <1>3, <2>1 DEF StoreGrows
  <2>2. CASE ParseString
    <3>1. AtToken /\ Kind # "done"
      BY <2>2 DEF ParseString
    <3>2. Current \in TokenType /\ Current.to <= pos
      BY <1>1, <3>1, AtKind
    <3>3. StringOf(Current) \in Seq(Lex!Chars)
      BY <1>1, <3>2, StringType DEF ReadInv, TokenInv
    <3>4. Intern(StringOf(Current))
      BY <2>2 DEF ParseString, Current
    <3> QED
      BY <1>3, <3>3, <3>4 DEF StoreGrows
  <2> QED
    BY <1>3, <2>1, <2>2
<1>6. OutInv'
  BY <1>1, <1>3, <1>4, <1>5, OutStays
<1> QED
  BY <1>2, <1>6 DEF ProgramInv

LEMMA WritingSteps ==
  ASSUME Trees = AllTrees, ProgramInv,
         StartWrite \/ WriteLeaf \/ EnterList \/ LeaveList \/ EndWrite \/ NextFile
  PROVE  ProgramInv'
<1>1. ReadInv /\ OutInv
  BY DEF ProgramInv
<1>2. CASE StartWrite
  BY <1>1, <1>2, StartWriteReads, StartWriteOut DEF ProgramInv
<1>3. CASE WriteLeaf
  BY <1>1, <1>3, WritingReads, WriteLeafOut DEF ProgramInv
<1>4. CASE EnterList
  BY <1>1, <1>4, WritingReads, EnterListOut DEF ProgramInv
<1>5. CASE LeaveList
  BY <1>1, <1>5, WritingReads, LeaveListOut DEF ProgramInv
<1>6. CASE EndWrite
  BY <1>1, <1>6, EndWriteReads, EndWriteOut DEF ProgramInv
<1>7. CASE NextFile
  BY <1>1, <1>7, NextFileReads DEF ProgramInv
<1> QED
  BY <1>2, <1>3, <1>4, <1>5, <1>6, <1>7

LEMMA ProgramStep ==
  Trees = AllTrees => (ProgramInv /\ [Next]_vars => ProgramInv')
<1> SUFFICES ASSUME Trees = AllTrees, ProgramInv, [Next]_vars PROVE ProgramInv'
  OBVIOUS
<1>1. CASE Step
  BY <1>1, ReadingSteps, WritingSteps DEF Step
<1>2. CASE Exited \/ UNCHANGED vars
  <2>1. UNCHANGED vars
    BY <1>2 DEF Exited
  <2> QED
    BY <2>1, VarsStay DEF ProgramInv
<1> QED
  BY <1>1, <1>2 DEF Next

LEMMA ProgramAlways ==
  Trees = AllTrees => (Spec => []ProgramInv)
<1>1. CASE Trees = AllTrees
  <2>1. Init => ProgramInv
    BY <1>1, ProgramBegins
  <2>2. ProgramInv /\ [Next]_vars => ProgramInv'
    BY <1>1, ProgramStep
  <2> QED
    BY <2>1, <2>2, PTL DEF Spec
<1> QED
  BY <1>1

(***************************************************************************)
(* The program's own state has its types; the writer is as deep as the     *)
(* lists that are being written, so that it never refuses to close one     *)
(* (the check of writer_write_close).                                      *)
(***************************************************************************)
THEOREM TypeCorrect ==
  ASSUME Trees = AllTrees
  PROVE  Spec => []TypeOK
<1>1. ProgramInv => TypeOK
  <2> SUFFICES ASSUME ProgramInv PROVE TypeOK
    OBVIOUS
  <2>1. ReadInv /\ OutInv
    BY DEF ProgramInv
  <2>2. out \in Seq(Lex!Chars)
    BY <2>1, OutType
  <2>3. \A s \in DOMAIN trees : trees[s] \in Seq(Trees)
    BY <2>1, ElementOfSeq DEF ReadInv, TreesInv, Listed
  <2>4. store \in Seq(Seq(Lex!Chars)) /\ asked \in 0..2 /\ TreeLexTypeOK
    BY <2>1 DEF ReadInv, TokenInv, StoreInv, StoreType, AskInv, CopyInv, Inv
  <2>5. partial \in Seq(Seq(Trees)) /\ (parsed \in Trees \/ parsed = NoTree)
    BY <2>1 DEF ReadInv, TreesInv
  <2>6. /\ todo \in Seq(Seq(Trees)) /\ todo # <<>>
        /\ phase = "write" => depth = Len(todo) - 1
    BY <2>1 DEF OutInv, Listed
  <2> QED
    BY <2>2, <2>3, <2>4, <2>5, <2>6 DEF TypeOK
<1>2. Spec => []ProgramInv
  BY ProgramAlways
<1> QED
  BY <1>1, <1>2, PTL

(***************************************************************************)
(* The trees tokentree_parse has built are the tokens it has taken, in     *)
(* order and each with its value: none is lost or made up but the one      *)
(* after each str (lexer_get_const_str), whatever the files hold.          *)
(***************************************************************************)
THEOREM TokensAlwaysUsed ==
  ASSUME Trees = AllTrees
  PROVE  Spec => []TokensUsed
<1>1. ProgramInv => TokensUsed
  BY TokensUsedIs DEF ProgramInv, ReadInv, TreesInv
<1>2. Spec => []ProgramInv
  BY ProgramAlways
<1> QED
  BY <1>1, <1>2, PTL

(***************************************************************************)
(* A file is refused for an error of the lexer, or because its brackets do *)
(* not pair up, and for nothing else (the errors of tokentree_parse).      *)
(***************************************************************************)
THEOREM RefusedIsUnbalanced ==
  ASSUME Trees = AllTrees
  PROVE  Spec => []RefusesUnbalanced
<1>1. ProgramInv => RefusesUnbalanced
  BY DEF ProgramInv, ReadInv, PhaseInv
<1>2. Spec => []ProgramInv
  BY ProgramAlways
<1> QED
  BY <1>1, <1>2, PTL

(***************************************************************************)
(* What tokentree_write has put out is the layout of the trees, token by   *)
(* token: the writer's depth and its two flags, which it carries from one  *)
(* call to the next, are all it needs to know of what came before.         *)
(***************************************************************************)
THEOREM PrintedIsLaidOut ==
  ASSUME Trees = AllTrees
  PROVE  Spec => []LaidOut
<1>1. ProgramInv => LaidOut
  <2> SUFFICES ASSUME ProgramInv, phase \in {"parse", "printed"}
               PROVE  out = Renders(trees[Len(trees)])
    BY DEF LaidOut, Renders
  <2>1. PICK ts \in Seq(Trees) : ts = trees[Len(trees)] /\ out = Renders(ts)
    BY DEF ProgramInv, OutInv
  <2> QED
    BY <2>1
<1>2. Spec => []ProgramInv
  BY ProgramAlways
<1> QED
  BY <1>1, <1>2, PTL
=============================================================================
