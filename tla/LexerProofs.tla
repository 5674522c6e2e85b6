---------------------------- MODULE LexerProofs ----------------------------
(***************************************************************************)
(* Proofs about Lexer, for every set of texts.                             *)
(***************************************************************************)
EXTENDS Lexer, Loops, SequenceTheorems

(***************************************************************************)
(* What RunEnd is: the first place from p on that has none of the          *)
(* characters, or else the end.                                            *)
(***************************************************************************)
LEMMA RunEndFacts ==
  ASSUME text \in Seq(Chars), NEW S, NEW p \in 0..Len(text)
  PROVE  /\ RunEnd(S, p) \in p..Len(text)
         /\ \A k \in p..(RunEnd(S, p) - 1) : At(k) \in S
         /\ RunEnd(S, p) = Len(text) \/ At(RunEnd(S, p)) \notin S
<1> DEFINE Stops == {q \in p..Len(text) : q = Len(text) \/ At(q) \notin S}
<1>1. Len(text) \in Nat /\ Stops \in SUBSET Nat /\ Len(text) \in Stops
  OBVIOUS
<1>2. PICK m \in Stops : \A k \in Stops : m <= k
  BY <1>1, LeastExists
<1>3. \A k \in p..(m-1) : At(k) \in S
  BY <1>1, <1>2
<1>4. \E q \in p..Len(text) :
        /\ \A k \in p..(q-1) : At(k) \in S
        /\ q = Len(text) \/ At(q) \notin S
  BY <1>2, <1>3
<1> QED
  BY <1>4 DEF RunEnd

LEMMA AtFacts ==
  ASSUME text \in Seq(Chars), NEW p \in Nat
  PROVE  At(p) # "end" <=> p < Len(text)
<1>1. "end" \notin Chars
  BY DEF Chars, Graph, Letters, Space
<1>2. ASSUME p < Len(text) PROVE text[p + 1] \in Chars
  <2>1. p + 1 \in 1..Len(text)
    BY <1>2
  <2> QED
    BY <2>1, ElementOfSeq
<1> QED
  BY <1>1, <1>2 DEF At

LEMMA IndentAtType ==
  ASSUME text \in Seq(Chars), NEW p \in 0..Len(text)
  PROVE  /\ IndentEnd(p) \in p..Len(text)
         /\ IndentAt(p) \in Nat
<1>1. IndentEnd(p) \in p..Len(text)
  BY RunEndFacts DEF IndentEnd
<1>2. IsFiniteSet(p..(IndentEnd(p) - 1))
  BY <1>1, FS_Interval
<1> DEFINE Margin_ == {k \in p..(IndentEnd(p) - 1) : \A j \in k..(IndentEnd(p) - 1) : At(j) = "blank"}
<1>3. Margin_ \in SUBSET (p..(IndentEnd(p) - 1))
  OBVIOUS
<1>4. Cardinality(Margin_) \in Nat
  BY <1>2, <1>3, FS_Subset, FS_CardinalityType
<1> QED
  BY <1>1, <1>4 DEF IndentAt

(***************************************************************************)
(* What Kept is: the indents popped are the longest end of the stack none  *)
(* of which is less than n.                                                *)
(***************************************************************************)
LEMMA KeptFacts ==
  ASSUME indents \in Seq(Nat), NEW n \in Nat
  PROVE  /\ Kept(n) \in 0..Len(indents)
         /\ Kept(n) > 0 => indents[Kept(n)] < n
         /\ \A j \in (Kept(n) + 1)..Len(indents) : indents[j] >= n
<1> DEFINE Pops == {k \in 0..Len(indents) : \A j \in (k+1)..Len(indents) : indents[j] >= n}
<1>1. Len(indents) \in Nat /\ Pops \in SUBSET Nat /\ Len(indents) \in Pops
  OBVIOUS
<1>2. PICK m \in Pops : \A k \in Pops : m <= k
  BY <1>1, LeastExists
<1>3. ASSUME m > 0 PROVE indents[m] < n
  <2>0. m \in Nat /\ m \in 1..Len(indents) /\ m - 1 \in 0..Len(indents)
    BY <1>1, <1>3
  <2>1. m - 1 \notin Pops
    <3> HIDE DEF Pops
    <3> QED
      BY <1>2, <2>0
  <2>2. PICK j \in ((m-1)+1)..Len(indents) : ~(indents[j] >= n)
    BY <2>0, <2>1
  <2>3. j = m
    BY <1>1, <1>2, <2>0, <2>2
  <2>4. indents[m] \in Nat
    BY <2>0, ElementOfSeq
  <2> QED
    BY <2>2, <2>3, <2>4
<1>4. \E k \in 0..Len(indents) :
        /\ k > 0 => indents[k] < n
        /\ \A j \in (k+1)..Len(indents) : indents[j] >= n
  BY <1>2, <1>3
<1> QED
  BY <1>4 DEF Kept

LEMMA StrEndFacts ==
  ASSUME text \in Seq(Chars), pos \in Nat, StrEnd # 0
  PROVE  StrEnd \in (pos + 2)..Len(text)
<1>1. Closings # {} /\ Closings \in SUBSET Nat
  BY DEF StrEnd, Closings
<1>2. \E m \in Closings : \A k \in Closings : m <= k
  BY <1>1, LeastExists
<1>3. Min(Closings) \in Closings
  BY <1>2 DEF Min
<1>4. Closings \subseteq (pos + 1)..(Len(text) - 1)
  BY DEF Closings
<1>5. Min(Closings) \in (pos + 1)..(Len(text) - 1) /\ StrEnd = Min(Closings) + 1
  BY <1>1, <1>3, <1>4 DEF StrEnd
<1>6. Len(text) \in Nat
  OBVIOUS
<1> HIDE DEF StrEnd
<1> QED
  BY <1>5, <1>6

-----------------------------------------------------------------------------
(***************************************************************************)
(* A step goes on in the text, or stays, and returns at most one token: it *)
(* begins where the step does and ends no later.                           *)
(***************************************************************************)
TokenType == [kind : Kinds, from : Nat, to : Nat]

Returns(t) ==
  /\ t \in TokenType
  /\ tokens' = Append(tokens, t)
  /\ t.from = pos /\ t.to \in pos..pos'

LEMMA Progress ==
  ASSUME TypeOK, Step
  PROVE  /\ text' = text /\ pos' \in pos..Len(text)
         /\ tokens' = tokens \/ \E t : Returns(t)
<1> USE DEF TypeOK
<1>0. pos \in Nat /\ pos \in 0..Len(text) /\ Len(text) \in Nat
  OBVIOUS
<1>1. ASSUME At(pos) # "end" PROVE pos + 1 \in 0..Len(text)
  BY <1>0, <1>1, AtFacts
<1>2. ASSUME NEW kind \in Kinds, NEW to \in pos..Len(text), Take(kind, to)
      PROVE  text' = text /\ pos' \in pos..Len(text) /\ Returns(Token(kind, pos, to))
  BY <1>0, <1>2 DEF Take, Token, Returns, TokenType
<1>3. \A S : RunEnd(S, pos) \in pos..Len(text)
  BY <1>0, RunEndFacts
<1>4. At(pos) # "end" => \A S : RunEnd(S, pos + 1) \in pos..Len(text)
  <2> SUFFICES ASSUME At(pos) # "end", NEW S PROVE RunEnd(S, pos + 1) \in pos..Len(text)
    OBVIOUS
  <2>1. RunEnd(S, pos + 1) \in (pos + 1)..Len(text)
    BY <1>1, RunEndFacts
  <2> QED
    BY <1>0, <2>1
<1>5. CASE ReturnClose
  <2>1. Returns(Closed(pos))
    BY <1>0, <1>5 DEF ReturnClose, Closed, Token, Returns, TokenType, Kinds
  <2> QED
    BY <1>0, <1>5, <2>1 DEF ReturnClose
<1>6. CASE Newline
  BY <1>0, <1>4, <1>6 DEF Newline, Looking, IndentEnd
<1>7. CASE EndOfText
  BY <1>0, <1>7 DEF EndOfText
<1>8. CASE Colon
  <2>1. pos' = pos + 1 /\ pos + 1 \in pos..Len(text) /\ text' = text
    BY <1>0, <1>1, <1>8 DEF Colon, Looking
  <2>2. Returns(Opened(pos))
    BY <1>0, <1>8, <2>1 DEF Colon, Opened, Token, Returns, TokenType, Kinds
  <2> QED
    BY <2>1, <2>2
<1>9. CASE Whitespace \/ Comment
  BY <1>3, <1>9 DEF Whitespace, Comment
<1>10. CASE Bracket
  <2>1. At(pos) \in Kinds /\ Take(At(pos), pos + 1) /\ At(pos) # "end"
    BY <1>10 DEF Bracket, Looking, Kinds
  <2>2. pos + 1 \in pos..Len(text)
    BY <1>0, <1>1, <2>1
  <2> QED
    BY <1>2, <2>1, <2>2
<1>11. CASE Name
  BY <1>2, <1>3, <1>11 DEF Name, Kinds
<1>12. CASE Number
  <2>1. At(pos) # "end" /\ Take("int", RunEnd({"digit"}, pos + 1))
    BY <1>12 DEF Number, Looking
  <2> QED
    BY <1>2, <1>4, <2>1 DEF Kinds
<1>13. CASE Blockstr
  <2>1. At(pos + 1) # "end" /\ Take("blockstr", RunEnd(Chars \ {"newline"}, pos + 2))
    BY <1>13 DEF Blockstr, AtBlockstr
  <2>2. pos + 2 \in 0..Len(text)
    BY <1>0, <2>1, AtFacts
  <2>3. RunEnd(Chars \ {"newline"}, pos + 2) \in (pos + 2)..Len(text)
    BY <2>2, RunEndFacts
  <2>4. RunEnd(Chars \ {"newline"}, pos + 2) \in pos..Len(text)
    BY <1>0, <2>3
  <2> QED
    BY <1>2, <2>1, <2>4 DEF Kinds
<1>14. CASE Str
  <2>1. CASE StrEnd # 0 /\ Take("str", StrEnd)
    <3>1. StrEnd \in pos..Len(text)
      BY <1>0, <2>1, StrEndFacts
    <3> QED
      BY <1>2, <2>1, <3>1 DEF Kinds
  <2>2. CASE UNCHANGED <<text, pos, tokens>>
    BY <1>0, <2>2
  <2> QED
    BY <1>14, <2>1, <2>2 DEF Str
<1>15. CASE Op
  <2> DEFINE to == RunEnd(Graph \ (Letters \cup {"colon", "open", "close"}), pos)
  <2>1. UNCHANGED lexVars \/ Take("op", to)
    BY <1>15 DEF Op
  <2>2. to \in pos..Len(text)
    BY <1>3
  <2> HIDE DEF to
  <2> QED
    BY <1>0, <1>2, <2>1, <2>2 DEF Kinds, lexVars
<1> QED
  BY <1>5, <1>6, <1>7, <1>8, <1>9, <1>10, <1>11, <1>12, <1>13, <1>14, <1>15 DEF Step

(***************************************************************************)
(* What a step does with the stack of indents.                             *)
(***************************************************************************)
StackStays == UNCHANGED <<indent, indents, room, forgotten, returning>>

LEMMA StackStep ==
  ASSUME Step
  PROVE  \/ StackStays /\ (status' = status \/ status' = "error")
         \/ ReturnClose
         \/ Newline /\ ~IndentIsBad(pos + 1)
         \/ EndOfText
         \/ Colon
<1>1. CASE Newline /\ IndentIsBad(pos + 1)
  BY <1>1 DEF Newline, StackStays
<1>2. CASE Whitespace \/ Comment \/ Bracket \/ Name \/ Number \/ Blockstr
  BY <1>2 DEF Whitespace, Comment, Bracket, Name, Number, Blockstr, Take, StackStays
<1>3. CASE Str
  BY <1>3 DEF Str, Take, StackStays
<1>4. CASE Op
  BY <1>4 DEF Op, Take, StackStays, lexVars
<1> QED
  BY <1>1, <1>2, <1>3, <1>4 DEF Step

LEMMA StackTypeStep ==
  ASSUME TypeOK, Step
  PROVE  /\ indent' \in Nat
         /\ indents' \in Seq(Nat) /\ room' \in Nat \ {0} /\ Len(indents') <= room'
         /\ forgotten' \subseteq 0..(pos' - 1)
         /\ returning' \in Int /\ returning' <= 0
         /\ status' \in {"run", "done", "error"}
<1>0. /\ indent \in Nat /\ indents \in Seq(Nat) /\ Len(indents) \in Nat
      /\ room \in Nat \ {0} /\ Len(indents) <= room
      /\ forgotten \subseteq 0..(pos - 1) /\ pos \in Nat /\ pos \in 0..Len(text)
      /\ returning \in Int /\ returning <= 0 /\ text \in Seq(Chars)
      /\ status \in {"run", "done", "error"} /\ Len(text) \in Nat
  BY DEF TypeOK
<1>1. pos' \in Nat /\ forgotten \subseteq 0..(pos' - 1)
  <2>1. pos' \in pos..Len(text)
    BY Progress
  <2>2. pos' \in Nat /\ pos <= pos'
    BY <1>0, <2>1
  <2>3. \A p, q \in Nat : p <= q => 0..(p - 1) \subseteq 0..(q - 1)
    OBVIOUS
  <2> QED
    BY <1>0, <2>2, <2>3
<1>2. CASE StackStays /\ (status' = status \/ status' = "error")
  BY <1>0, <1>1, <1>2 DEF StackStays
<1>3. CASE ReturnClose
  BY <1>0, <1>1, <1>3 DEF ReturnClose
<1>4. CASE Newline /\ ~IndentIsBad(pos + 1)
  <2> DEFINE n == IndentAt(pos + 1)
  <2>1. pos + 1 \in 0..Len(text)
    <3>1. At(pos) # "end"
      BY <1>4 DEF Newline, Looking
    <3> QED
      BY <1>0, <3>1, AtFacts
  <2>2. n \in Nat
    BY <1>0, <2>1, IndentAtType
  <2>3. /\ indent' = n /\ indents' = SubSeq(indents, 1, Kept(n))
        /\ returning' = Kept(n) - Len(indents)
        /\ UNCHANGED <<room, forgotten, status>>
    BY <1>4 DEF Newline
  <2> HIDE DEF n
  <2>4. Kept(n) \in 0..Len(indents)
    BY <1>0, <2>2, KeptFacts
  <2>5. indents' \in Seq(Nat) /\ Len(indents') = Kept(n)
    BY <1>0, <2>3, <2>4
  <2>6. Len(indents') <= room /\ returning' \in Int /\ returning' <= 0
    BY <1>0, <2>3, <2>4, <2>5
  <2> QED
    BY <1>0, <1>1, <2>2, <2>3, <2>5, <2>6
<1>5. CASE EndOfText
  BY <1>0, <1>1, <1>5 DEF EndOfText
<1>6. CASE Colon
  <2>1. pos' = pos + 1 /\ UNCHANGED <<indent, returning, status>>
    BY <1>6 DEF Colon
  <2>2. CASE PushIndent
    BY <1>0, <1>1, <2>1, <2>2 DEF PushIndent
  <2>3. CASE ReallocFails
    BY <1>0, <1>1, <2>1, <2>3 DEF ReallocFails
  <2> QED
    BY <1>6, <2>2, <2>3 DEF Colon
<1> QED
  BY <1>2, <1>3, <1>4, <1>5, <1>6, StackStep

LEMMA TypeStep ==
  ASSUME TypeOK, Step
  PROVE  TypeOK'
<1>1. text \in Seq(Chars) /\ pos \in Nat /\ tokens \in Seq(TokenType)
  BY DEF TypeOK, TokenType
<1>2. text' \in Seq(Chars) /\ pos' \in 0..Len(text')
  BY <1>1, Progress
<1>3. tokens' \in Seq(TokenType)
  <2>1. CASE tokens' = tokens
    BY <1>1, <2>1
  <2>2. ASSUME NEW t, Returns(t) PROVE tokens' \in Seq(TokenType)
    BY <1>1, <2>2, AppendProperties DEF Returns
  <2> QED
    BY <2>1, <2>2, Progress
<1> QED
  BY <1>2, <1>3, StackTypeStep DEF TypeOK, TokenType

(***************************************************************************)
(* A text that was just loaded.                                            *)
(***************************************************************************)
Fresh ==
  /\ pos = IndentEnd(0)
  /\ indent = IF IndentIsBad(0) THEN 0 ELSE IndentAt(0)
  /\ indents = <<>> /\ room = InitialIndents /\ forgotten = {}
  /\ returning = 0
  /\ tokens = <<>>
  /\ status = IF IndentIsBad(0) THEN "error" ELSE "run"

LEMMA FreshTypes ==
  text \in Seq(Chars) /\ InitialIndents \in Nat \ {0} /\ Fresh => TypeOK
<1> SUFFICES ASSUME text \in Seq(Chars), InitialIndents \in Nat \ {0}, Fresh PROVE TypeOK
  OBVIOUS
<1>1. Len(text) \in Nat /\ 0 \in 0..Len(text)
  OBVIOUS
<1>2. IndentEnd(0) \in 0..Len(text) /\ IndentAt(0) \in Nat
  BY <1>1, IndentAtType
<1>3. pos \in 0..Len(text) /\ indent \in Nat /\ status \in {"run", "done", "error"}
  BY <1>2 DEF Fresh
<1> QED
  BY <1>1, <1>3 DEF Fresh, TypeOK

LEMMA TypeInit == Init => TypeOK
  BY FreshTypes, TextsAssumption, IndentsAssumption DEF Init, Fresh

(***************************************************************************)
(* The lexer's state keeps its types, for every set of texts: it never     *)
(* leaves the text, and the array of indents is never full when pushed to. *)
(***************************************************************************)
THEOREM TypeCorrect == Spec => []TypeOK
<1>1. TypeOK /\ [Next]_lexVars => TypeOK'
  <2> SUFFICES ASSUME TypeOK, [Next]_lexVars PROVE TypeOK'
    OBVIOUS
  <2>1. CASE Step
    BY <2>1, TypeStep
  <2>2. CASE UNCHANGED lexVars
    BY <2>2 DEF TypeOK, lexVars
  <2> QED
    BY <2>1, <2>2 DEF Next, Stopped
<1> QED
  BY <1>1, TypeInit, PTL DEF Spec

-----------------------------------------------------------------------------
(***************************************************************************)
(* Only ReturnClose and Colon return brackets that stand for no character. *)
(***************************************************************************)
IsMade(t) == t.kind \in {"open", "close"} /\ t.from = t.to

LEMMA OthersSpell ==
  ASSUME TypeOK, Step, ~ReturnClose, ~Colon, NEW t, Returns(t)
  PROVE  ~IsMade(t)
<1>0. /\ tokens \in Seq(TokenType) /\ Len(tokens) \in Nat /\ pos \in Nat
      /\ t \in TokenType /\ tokens' = Append(tokens, t)
  BY DEF TypeOK, TokenType, Returns
<1>1. tokens'[Len(tokens) + 1] = t /\ Len(tokens') = Len(tokens) + 1
  BY <1>0, AppendProperties
<1>2. tokens' # tokens
  BY <1>0, <1>1
<1>3. ASSUME NEW kind, NEW to, Take(kind, to)
      PROVE  t = Token(kind, pos, to)
  <2>1. tokens' = Append(tokens, Token(kind, pos, to))
    BY <1>3 DEF Take
  <2>2. Append(tokens, Token(kind, pos, to))[Len(tokens) + 1] = Token(kind, pos, to)
    BY <1>0
  <2> QED
    BY <1>1, <2>1, <2>2
<1>4. CASE Bracket
  <2>1. Take(At(pos), pos + 1)
    BY <1>4 DEF Bracket
  <2>2. t.from = pos /\ t.to = pos + 1
    BY <1>3, <2>1 DEF Token
  <2> QED
    BY <1>0, <2>2 DEF IsMade
<1>5. ASSUME NEW kind \in {"name", "int", "blockstr", "str", "op"}, NEW to, Take(kind, to)
      PROVE  ~IsMade(t)
  BY <1>3, <1>5 DEF IsMade, Token
<1>6. CASE Name \/ Number \/ Blockstr
  BY <1>5, <1>6 DEF Name, Number, Blockstr
<1>7. CASE Str
  BY <1>2, <1>5, <1>7 DEF Str
<1>8. CASE Op
  BY <1>2, <1>5, <1>8 DEF Op, lexVars
<1>9. CASE Newline \/ EndOfText \/ Whitespace \/ Comment
  BY <1>2, <1>9 DEF Newline, EndOfText, Whitespace, Comment
<1> QED
  BY <1>4, <1>6, <1>7, <1>8, <1>9 DEF Step

(***************************************************************************)
(* How a token changes the number of brackets made.                        *)
(***************************************************************************)
LEMMA MadeType ==
  ASSUME tokens \in Seq(TokenType), NEW kind
  PROVE  /\ IsFiniteSet(Made(kind)) /\ Cardinality(Made(kind)) \in Nat
         /\ Len(tokens) + 1 \notin Made(kind)
<1>1. Len(tokens) \in Nat
  OBVIOUS
<1>2. IsFiniteSet(1..Len(tokens))
  BY <1>1, FS_Interval
<1>3. Made(kind) \in SUBSET (1..Len(tokens))
  BY DEF Made
<1> QED
  BY <1>1, <1>2, <1>3, FS_Subset, FS_CardinalityType

LEMMA MadeStep ==
  ASSUME tokens \in Seq(TokenType), NEW t, Returns(t), NEW kind
  PROVE  Cardinality(Made(kind)') =
           IF t.kind = kind /\ t.from = t.to THEN Cardinality(Made(kind)) + 1
                                             ELSE Cardinality(Made(kind))
<1>1. /\ Len(tokens) \in Nat /\ Len(tokens') = Len(tokens) + 1
      /\ \A i \in 1..Len(tokens) : tokens'[i] = tokens[i]
      /\ tokens'[Len(tokens) + 1] = t
  BY AppendProperties DEF Returns
<1>2. Made(kind)' = IF t.kind = kind /\ t.from = t.to THEN Made(kind) \cup {Len(tokens) + 1}
                                                       ELSE Made(kind)
  BY <1>1 DEF Made
<1> QED
  BY <1>2, MadeType, FS_AddElement

LEMMA BalancedInit == Init => Balanced
<1> SUFFICES ASSUME Init PROVE Balanced
  OBVIOUS
<1>1. tokens = <<>> /\ indents = <<>> /\ returning = 0 /\ forgotten = {} /\ status # "done"
  BY DEF Init
<1>2. \A kind : Made(kind) = {}
  BY <1>1 DEF Made
<1>3. /\ Cardinality(Made("open")) = 0 /\ Cardinality(Made("close")) = 0
      /\ Cardinality(forgotten) = 0 /\ Len(indents) = 0
  BY <1>1, <1>2, FS_EmptySet
<1> QED
  BY <1>1, <1>3 DEF Balanced

LEMMA BalancedStep ==
  ASSUME TypeOK, Balanced, Step
  PROVE  Balanced'
<1> DEFINE opens == Cardinality(Made("open"))
           closes == Cardinality(Made("close"))
           lost == Cardinality(forgotten)
<1>0. /\ tokens \in Seq(TokenType) /\ indents \in Seq(Nat) /\ Len(indents) \in Nat
      /\ returning \in Int /\ pos \in Nat /\ forgotten \subseteq 0..(pos - 1)
  BY DEF TypeOK, TokenType
<1>1. opens \in Nat /\ closes \in Nat
  BY <1>0, MadeType
<1>2. IsFiniteSet(forgotten) /\ lost \in Nat
  <2>1. IsFiniteSet(0..(pos - 1))
    BY <1>0, FS_Interval
  <2> QED
    BY <1>0, <2>1, FS_Subset, FS_CardinalityType
<1>3. opens = closes + Len(indents) - returning + lost
  BY DEF Balanced
<1>4. status = "done" => indents = <<>> /\ returning = 0
  BY DEF Balanced
<1>5. tokens' = tokens => opens' = opens /\ closes' = closes
  BY DEF Made
<1>6. ASSUME NEW t, Returns(t)
      PROVE  /\ opens' = IF t.kind = "open" /\ t.from = t.to THEN opens + 1 ELSE opens
             /\ closes' = IF t.kind = "close" /\ t.from = t.to THEN closes + 1 ELSE closes
  BY <1>0, <1>6, MadeStep
<1>7. forgotten' = forgotten => lost' = lost
  OBVIOUS
<1>8. SUFFICES /\ opens' = closes' + Len(indents') - returning' + lost'
               /\ status' = "done" => indents' = <<>> /\ returning' = 0
  BY DEF Balanced
<1> HIDE DEF opens, closes, lost
<1>9. CASE StackStays /\ (status' = status \/ status' = "error") /\ ~ReturnClose /\ ~Colon
  <2>1. opens' = opens /\ closes' = closes
    <3>1. CASE tokens' = tokens
      BY <1>5, <3>1
    <3>2. ASSUME NEW t, Returns(t) PROVE opens' = opens /\ closes' = closes
      BY <1>6, <1>9, <3>2, OthersSpell DEF IsMade
    <3> QED
      BY <3>1, <3>2, Progress
  <2> QED
    BY <1>3, <1>4, <1>7, <1>9, <2>1 DEF StackStays
<1>10. CASE ReturnClose
  <2>1. /\ returning' = returning + 1 /\ status = "run"
        /\ tokens' = Append(tokens, Closed(pos))
        /\ UNCHANGED <<pos, indents, forgotten, status>>
    BY <1>10 DEF ReturnClose
  <2>2. Returns(Closed(pos))
    BY <1>0, <2>1 DEF Returns, Closed, Token, TokenType, Kinds
  <2>3. opens' = opens /\ closes' = closes + 1
    BY <1>6, <2>2 DEF Closed, Token
  <2> QED
    BY <1>0, <1>1, <1>2, <1>3, <1>7, <2>1, <2>3
<1>11. CASE Newline /\ ~IndentIsBad(pos + 1)
  <2> DEFINE n == IndentAt(pos + 1)
  <2>1. /\ returning = 0 /\ status = "run" /\ tokens' = tokens
        /\ indents' = SubSeq(indents, 1, Kept(n))
        /\ returning' = Kept(n) - Len(indents)
        /\ UNCHANGED <<forgotten, status>>
    BY <1>11 DEF Newline, Looking
  <2>2. n \in Nat
    <3>1. text \in Seq(Chars) /\ pos + 1 \in 0..Len(text)
      BY <1>0, <1>11, AtFacts DEF TypeOK, Newline, Looking
    <3> QED
      BY <3>1, IndentAtType
  <2> HIDE DEF n
  <2>3. Kept(n) \in 0..Len(indents)
    BY <1>0, <2>2, KeptFacts
  <2>4. Len(indents') = Kept(n)
    BY <1>0, <2>1, <2>3
  <2> QED
    BY <1>0, <1>1, <1>2, <1>3, <1>5, <1>7, <2>1, <2>3, <2>4
<1>12. CASE EndOfText
  <2>1. /\ returning = 0 /\ tokens' = tokens /\ indents' = <<>>
        /\ returning' = 0 - Len(indents)
        /\ status' = IF indents = <<>> THEN "done" ELSE "run"
        /\ UNCHANGED forgotten
    BY <1>12 DEF EndOfText, Looking
  <2>2. Len(indents') = 0 /\ (status' = "done" => Len(indents) = 0)
    BY <2>1
  <2> QED
    BY <1>0, <1>1, <1>2, <1>3, <1>5, <1>7, <2>1, <2>2
<1>13. CASE Colon
  <2>1. /\ returning = 0 /\ status = "run" /\ UNCHANGED <<returning, status>>
        /\ pos' = pos + 1 /\ tokens' = Append(tokens, Opened(pos))
    BY <1>13 DEF Colon, Looking
  <2>2. Returns(Opened(pos))
    BY <1>0, <2>1 DEF Returns, Opened, Token, TokenType, Kinds
  <2>3. opens' = opens + 1 /\ closes' = closes
    BY <1>6, <2>2 DEF Opened, Token
  <2>4. CASE PushIndent
    <3>1. Len(indents') = Len(indents) + 1 /\ forgotten' = forgotten
      BY <1>0, <2>4 DEF PushIndent, TypeOK
    <3> QED
      BY <1>0, <1>1, <1>2, <1>3, <1>7, <2>1, <2>3, <3>1
  <2>5. CASE ReallocFails
    <3>1. indents' = indents /\ forgotten' = forgotten \cup {pos} /\ pos \notin forgotten
      BY <1>0, <2>5 DEF ReallocFails
    <3>2. lost' = lost + 1
      BY <1>2, <3>1, FS_AddElement DEF lost
    <3> QED
      BY <1>0, <1>1, <1>2, <1>3, <2>1, <2>3, <3>1, <3>2
  <2> QED
    BY <1>13, <2>4, <2>5 DEF Colon
<1> QED
  BY <1>9, <1>10, <1>11, <1>12, <1>13, StackStep

(***************************************************************************)
(* The brackets made from indentation pair up, for every text, whenever    *)
(* memory runs out: the stack, the brackets due and those returned account *)
(* for each other.                                                         *)
(***************************************************************************)
THEOREM BracketsBalance == Spec => []Balanced
<1>1. TypeOK /\ Balanced /\ [Next]_lexVars => Balanced'
  <2> SUFFICES ASSUME TypeOK, Balanced, [Next]_lexVars PROVE Balanced'
    OBVIOUS
  <2>1. CASE Step
    BY <2>1, BalancedStep
  <2>2. CASE UNCHANGED lexVars
    BY <2>2 DEF Balanced, Made, lexVars
  <2> QED
    BY <2>1, <2>2 DEF Next, Stopped
<1> QED
  BY <1>1, BalancedInit, TypeCorrect, PTL DEF Spec

-----------------------------------------------------------------------------
LEMMA NestStep ==
  ASSUME TypeOK, IndentsNest, Step
  PROVE  IndentsNest'
<1>0. /\ indents \in Seq(Nat) /\ Len(indents) \in Nat /\ indent \in Nat /\ pos \in Nat
      /\ \A i \in 1..Len(indents) : indents[i] \in Nat
  BY ElementOfSeq DEF TypeOK
<1>1. CASE StackStays /\ (status' = status \/ status' = "error")
  BY <1>1 DEF StackStays, IndentsNest
<1>2. CASE ReturnClose
  BY <1>2 DEF ReturnClose, IndentsNest
<1>3. CASE Newline /\ ~IndentIsBad(pos + 1)
  <2> DEFINE n == IndentAt(pos + 1)
  <2>1. n \in Nat
    <3>1. text \in Seq(Chars) /\ pos + 1 \in 0..Len(text)
      BY <1>0, <1>3, AtFacts DEF TypeOK, Newline, Looking
    <3> QED
      BY <3>1, IndentAtType
  <2>2. status = "run" /\ indent' = n /\ indents' = SubSeq(indents, 1, Kept(n))
    BY <1>3 DEF Newline, Looking
  <2> HIDE DEF n
  <2>3. /\ Kept(n) \in 0..Len(indents) /\ (Kept(n) > 0 => indents[Kept(n)] < n)
    BY <1>0, <2>1, KeptFacts
  <2>4. /\ Len(indents') = Kept(n)
        /\ \A i \in 1..Kept(n) : indents'[i] = indents[i] /\ i \in 1..Len(indents)
    BY <1>0, <2>2, <2>3
  <2>5. \A i, j \in 1..Len(indents) : i < j => indents[i] <= indents[j]
    BY <2>2 DEF IndentsNest
  <2>6. ASSUME NEW i \in 1..Kept(n) PROVE indents[i] <= n
    <3>1. Kept(n) \in 1..Len(indents) /\ i \in 1..Len(indents)
      BY <1>0, <2>3
    <3>2. i = Kept(n) \/ indents[i] <= indents[Kept(n)]
      BY <1>0, <2>3, <2>5, <3>1
    <3> QED
      BY <1>0, <2>1, <2>3, <3>1, <3>2
  <2> QED
    BY <2>2, <2>4, <2>5, <2>6 DEF IndentsNest
<1>4. CASE EndOfText
  <2>1. indents' = <<>>
    BY <1>4 DEF EndOfText
  <2>2. 1..Len(indents') = {}
    BY <2>1
  <2> QED
    BY <2>2 DEF IndentsNest
<1>5. CASE Colon
  <2>1. status = "run" /\ status' = status /\ indent' = indent
    BY <1>5 DEF Colon, Looking
  <2>2. CASE ReallocFails
    BY <2>1, <2>2 DEF ReallocFails, IndentsNest
  <2>3. CASE PushIndent
    <3>1. /\ Len(indents') = Len(indents) + 1
          /\ \A i \in 1..Len(indents) : indents'[i] = indents[i]
          /\ indents'[Len(indents) + 1] = indent
      BY <1>0, <2>3, AppendProperties DEF PushIndent
    <3>2. \A i \in 1..Len(indents') : i \in 1..Len(indents) \/ i = Len(indents) + 1
      BY <1>0, <3>1
    <3>3. /\ \A i, j \in 1..Len(indents) : i < j => indents[i] <= indents[j]
          /\ \A i \in 1..Len(indents) : indents[i] <= indent
      BY <2>1 DEF IndentsNest
    <3>4. \A i, j \in 1..Len(indents') : i < j => indents'[i] <= indents'[j]
      BY <1>0, <3>1, <3>2, <3>3
    <3>5. \A i \in 1..Len(indents') : indents'[i] <= indent
      BY <1>0, <3>1, <3>2, <3>3
    <3> QED
      BY <2>1, <3>4, <3>5 DEF IndentsNest
  <2> QED
    BY <1>5, <2>2, <2>3 DEF Colon
<1> QED
  BY <1>1, <1>2, <1>3, <1>4, <1>5, StackStep

(***************************************************************************)
(* Blocks nest by their indentation, for every text: popping the stack     *)
(* from the top finds every block a line closes.                           *)
(***************************************************************************)
THEOREM BlocksNest == Spec => []IndentsNest
<1>1. Init => IndentsNest
  <2> SUFFICES ASSUME Init PROVE IndentsNest
    OBVIOUS
  <2>1. 1..Len(indents) = {}
    BY DEF Init
  <2> QED
    BY <2>1 DEF IndentsNest
<1>2. TypeOK /\ IndentsNest /\ [Next]_lexVars => IndentsNest'
  <2> SUFFICES ASSUME TypeOK, IndentsNest, [Next]_lexVars PROVE IndentsNest'
    OBVIOUS
  <2>1. CASE Step
    BY <2>1, NestStep
  <2>2. CASE UNCHANGED lexVars
    BY <2>2 DEF IndentsNest, lexVars
  <2> QED
    BY <2>1, <2>2 DEF Next, Stopped
<1> QED
  BY <1>1, <1>2, TypeCorrect, PTL DEF Spec

-----------------------------------------------------------------------------
(***************************************************************************)
(* The inductive strengthening of NothingLost: no token reaches past pos.  *)
(***************************************************************************)
Accounted(p) ==
  \/ Covered(p)
  \/ InComment(p)
  \/ At(p) = "colon" /\ Opened(p) \in {tokens[i] : i \in 1..Len(tokens)}

LossInv ==
  /\ NothingLost
  /\ \A i \in 1..Len(tokens) : tokens[i].to <= pos

LEMMA TokenFacts ==
  ASSUME TypeOK
  PROVE  /\ tokens \in Seq(TokenType) /\ Len(tokens) \in Nat /\ pos \in Nat
         /\ \A i \in 1..Len(tokens) : tokens[i].from \in Nat /\ tokens[i].to \in Nat
<1>1. tokens \in Seq(TokenType) /\ Len(tokens) \in Nat /\ pos \in Nat
  BY DEF TypeOK, TokenType
<1>2. \A i \in 1..Len(tokens) : tokens[i] \in TokenType
  BY <1>1, ElementOfSeq
<1> QED
  BY <1>1, <1>2 DEF TokenType

(***************************************************************************)
(* What a step passes over: white space, a comment, a colon, or its token. *)
(***************************************************************************)
LEMMA PassedOver ==
  ASSUME TypeOK, LossInv, Step, NEW p \in pos..(pos' - 1), At(p) \in Graph
  PROVE  Accounted(p)'
<1>0. /\ text \in Seq(Chars) /\ tokens \in Seq(TokenType) /\ Len(tokens) \in Nat
      /\ pos \in Nat /\ pos \in 0..Len(text) /\ Len(text) \in Nat
  BY DEF TypeOK, TokenType
<1>1. text' = text /\ pos' \in Nat /\ p \in Nat /\ pos <= p /\ p < pos' /\ pos' # pos
  BY <1>0, Progress
<1>2. At(p)' = At(p)
  BY <1>1 DEF At
<1>3. "blank" \notin Graph /\ "newline" \notin Graph
  BY DEF Graph, Letters
<1>4. ASSUME NEW kind, NEW to, Take(kind, to) PROVE Covered(p)'
  <2>1. pos' = to /\ tokens' = Append(tokens, Token(kind, pos, to))
    BY <1>4 DEF Take
  <2>2. Len(tokens') = Len(tokens) + 1 /\ tokens'[Len(tokens) + 1] = Token(kind, pos, to)
    BY <1>0, <2>1
  <2>3. Len(tokens) + 1 \in 1..Len(tokens')
    BY <1>0, <2>2
  <2>4. tokens'[Len(tokens) + 1].from <= p /\ p < tokens'[Len(tokens) + 1].to
    BY <1>1, <2>1, <2>2 DEF Token
  <2> QED
    BY <2>3, <2>4 DEF Covered
<1>5. CASE Bracket \/ Name \/ Number \/ Blockstr \/ Str \/ Op
  <2>1. \E kind, to : Take(kind, to)
    BY <1>1, <1>5 DEF Bracket, Name, Number, Blockstr, Str, Op, lexVars
  <2> QED
    BY <1>4, <2>1 DEF Accounted
<1>6. CASE Newline
  <2>1. At(pos) = "newline" /\ pos' = IndentEnd(pos + 1)
    BY <1>6 DEF Newline, Looking
  <2>2. pos + 1 \in 0..Len(text)
    BY <1>0, <2>1, AtFacts
  <2>3. \A k \in (pos + 1)..(pos' - 1) : At(k) \in {"blank", "newline"}
    BY <1>0, <2>1, <2>2, RunEndFacts DEF IndentEnd
  <2>4. p = pos \/ p \in (pos + 1)..(pos' - 1)
    <3>1. \A a, b, c \in Nat : a <= b /\ b < c => b = a \/ b \in (a + 1)..(c - 1)
      OBVIOUS
    <3> QED
      BY <1>0, <1>1, <3>1
  <2> QED
    BY <1>3, <2>1, <2>3, <2>4
<1>7. CASE Whitespace
  <2>1. \A k \in pos..(pos' - 1) : At(k) \in Chars \ Graph
    BY <1>0, <1>7, RunEndFacts DEF Whitespace
  <2> QED
    BY <2>1
<1>8. CASE Comment
  <2>1. At(pos) = "hash" /\ tokens' = tokens
    BY <1>8 DEF Comment, Looking
  <2>2. \A k \in pos..(pos' - 1) : At(k) \in Chars \ {"newline"}
    BY <1>0, <1>8, RunEndFacts DEF Comment
  <2>3. \A k \in pos..p : k \in pos..(pos' - 1)
    <3>1. \A a, b, c \in Nat : b < c => \A k \in a..b : k \in a..(c - 1)
      OBVIOUS
    <3> QED
      BY <1>0, <1>1, <3>1
  <2>4. ~Covered(pos)
    <3>1. \A i \in 1..Len(tokens) : tokens[i].to \in Nat /\ tokens[i].to <= pos
      BY TokenFacts DEF LossInv
    <3> QED
      BY <1>0, <3>1 DEF Covered
  <2>5. \A k : At(k)' = At(k)
    BY <1>1 DEF At
  <2>6. /\ pos \in 0..p /\ At(pos) = "hash" /\ ~Covered(pos)
        /\ \A k \in pos..p : At(k) # "newline"
    <3>1. pos \in 0..p
      BY <1>0, <1>1
    <3> QED
      BY <2>1, <2>2, <2>3, <2>4, <3>1
  <2>7. InComment(p)
    BY <2>6 DEF InComment
  <2>8. InComment(p)'
    BY <1>1, <2>1, <2>7 DEF InComment, Covered, At
  <2> QED
    BY <2>8 DEF Accounted
<1>9. CASE Colon
  <2>1. At(pos) = "colon" /\ pos' = pos + 1 /\ tokens' = Append(tokens, Opened(pos))
    BY <1>9 DEF Colon, Looking
  <2>2. p = pos
    BY <1>0, <1>1, <2>1
  <2>3. /\ Len(tokens') = Len(tokens) + 1 /\ tokens'[Len(tokens) + 1] = Opened(p)
    BY <1>0, <2>1, <2>2
  <2>4. Len(tokens) + 1 \in 1..Len(tokens')
    BY <1>0, <2>3
  <2>5. Opened(p)' = Opened(p)
    BY DEF Opened, Token
  <2> QED
    BY <1>2, <2>1, <2>2, <2>3, <2>4, <2>5 DEF Accounted
<1>10. CASE ReturnClose \/ EndOfText
  BY <1>1, <1>10 DEF ReturnClose, EndOfText
<1> QED
  BY <1>5, <1>6, <1>7, <1>8, <1>9, <1>10 DEF Step

(***************************************************************************)
(* What has been accounted for stays so: tokens are only added, after pos. *)
(***************************************************************************)
LEMMA StaysAccounted ==
  ASSUME TypeOK, LossInv, Step, NEW p \in 0..(pos - 1), Accounted(p)
  PROVE  Accounted(p)'
<1>0. /\ tokens \in Seq(TokenType) /\ Len(tokens) \in Nat /\ pos \in Nat /\ text' = text
      /\ p \in Nat /\ p < pos
  BY Progress DEF TypeOK, TokenType
<1>1. CASE tokens' = tokens
  BY <1>0, <1>1 DEF Accounted, Covered, InComment, At, Opened, Token
<1>2. ASSUME NEW t, Returns(t) PROVE Accounted(p)'
  <2>1. /\ Len(tokens') = Len(tokens) + 1
        /\ \A i \in 1..Len(tokens) : tokens'[i] = tokens[i] /\ i \in 1..Len(tokens')
        /\ tokens'[Len(tokens) + 1] = t /\ t.from = pos
    BY <1>0, <1>2, AppendProperties DEF Returns
  <2>2. \A i \in 1..Len(tokens') : i \in 1..Len(tokens) \/ i = Len(tokens) + 1
    BY <1>0, <2>1
  <2>3. \A h \in 0..p : Covered(h) <=> Covered(h)'
    <3> SUFFICES ASSUME NEW h \in 0..p PROVE Covered(h) <=> Covered(h)'
      OBVIOUS
    <3>1. ~(t.from <= h)
      BY <1>0, <2>1
    <3> QED
      BY <2>1, <2>2, <3>1 DEF Covered
  <2>4. p \in 0..p
    BY <1>0
  <2>5. CASE Covered(p)
    BY <2>3, <2>4, <2>5 DEF Accounted
  <2>6. CASE InComment(p)
    <3>1. PICK h \in 0..p : /\ At(h) = "hash" /\ ~Covered(h)
                            /\ \A k \in h..p : At(k) # "newline"
      BY <2>6 DEF InComment
    <3>2. /\ At(h)' = "hash" /\ ~Covered(h)'
          /\ \A k \in h..p : At(k)' # "newline"
      BY <1>0, <2>3, <3>1 DEF At
    <3>3. InComment(p)'
      BY <3>2 DEF InComment
    <3> QED
      BY <3>3 DEF Accounted
  <2>7. CASE At(p) = "colon" /\ Opened(p) \in {tokens[i] : i \in 1..Len(tokens)}
    <3>1. At(p)' = "colon"
      BY <1>0, <2>7 DEF At
    <3>2. Opened(p)' \in {tokens'[i] : i \in 1..Len(tokens')}
      BY <2>1, <2>7 DEF Opened, Token
    <3> QED
      BY <3>1, <3>2 DEF Accounted
  <2> QED
    BY <2>5, <2>6, <2>7 DEF Accounted
<1> QED
  BY <1>1, <1>2, Progress

LEMMA LossStep ==
  ASSUME TypeOK, LossInv, Step
  PROVE  LossInv'
<1>0. /\ tokens \in Seq(TokenType) /\ Len(tokens) \in Nat /\ pos \in Nat
      /\ \A i \in 1..Len(tokens) : tokens[i].to \in Nat /\ tokens[i].to <= pos
  BY TokenFacts DEF LossInv
<1>1. text' = text /\ pos' \in Nat /\ pos <= pos'
  BY <1>0, Progress DEF TypeOK
<1>2. /\ \A i \in 1..Len(tokens') : tokens'[i].to <= pos'
      /\ \A i, j \in 1..Len(tokens') : i < j => tokens'[i].to <= tokens'[j].from
  <2>0. \A i, j \in 1..Len(tokens) : i < j => tokens[i].to <= tokens[j].from
    BY DEF LossInv, NothingLost
  <2>1. CASE tokens' = tokens
    BY <1>0, <1>1, <2>0, <2>1
  <2>2. ASSUME NEW t, Returns(t)
        PROVE  /\ \A i \in 1..Len(tokens') : tokens'[i].to <= pos'
               /\ \A i, j \in 1..Len(tokens') : i < j => tokens'[i].to <= tokens'[j].from
    <3>1. /\ Len(tokens') = Len(tokens) + 1
          /\ \A i \in 1..Len(tokens) : tokens'[i] = tokens[i]
          /\ tokens'[Len(tokens) + 1] = t /\ t.from = pos /\ t.to <= pos'
      BY <1>0, <1>1, <2>2, AppendProperties DEF Returns
    <3>2. \A i \in 1..Len(tokens') : i \in 1..Len(tokens) \/ i = Len(tokens) + 1
      BY <1>0, <3>1
    <3>3. \A i \in 1..Len(tokens') : tokens'[i].to <= pos'
      BY <1>0, <1>1, <3>1, <3>2
    <3>4. ASSUME NEW i \in 1..Len(tokens'), NEW j \in 1..Len(tokens'), i < j
          PROVE  tokens'[i].to <= tokens'[j].from
      <4>1. i \in 1..Len(tokens)
        BY <1>0, <3>1, <3>2, <3>4
      <4> QED
        BY <1>0, <2>0, <3>1, <3>2, <3>4, <4>1
    <3> QED
      BY <3>3, <3>4
  <2> QED
    BY <2>1, <2>2, Progress
<1>3. ASSUME NEW p \in 0..(pos' - 1), At(p)' \in Graph PROVE Accounted(p)'
  <2>1. At(p) \in Graph
    BY <1>1, <1>3 DEF At
  <2>2. CASE p \in 0..(pos - 1)
    <3>1. Accounted(p)
      BY <2>1, <2>2 DEF LossInv, NothingLost, Accounted
    <3> QED
      BY <2>2, <3>1, StaysAccounted
  <2>3. CASE p \in pos..(pos' - 1)
    BY <2>1, <2>3, PassedOver
  <2>4. p \in 0..(pos - 1) \/ p \in pos..(pos' - 1)
    <3>1. \A a, c \in Nat : \A b \in 0..(c - 1) : b \in 0..(a - 1) \/ b \in a..(c - 1)
      OBVIOUS
    <3> QED
      BY <1>0, <1>1, <3>1
  <2> QED
    BY <2>2, <2>3, <2>4
<1> QED
  BY <1>2, <1>3 DEF LossInv, NothingLost, Accounted

LEMMA LossInit == Init => LossInv
<1> SUFFICES ASSUME Init PROVE LossInv
  OBVIOUS
<1>1. tokens = <<>> /\ pos = IndentEnd(0) /\ text \in Seq(Chars) /\ 0 \in 0..Len(text)
  BY TextsAssumption DEF Init
<1>2. \A k \in 0..(pos - 1) : At(k) \in {"blank", "newline"}
  BY <1>1, RunEndFacts DEF IndentEnd
<1>3. "blank" \notin Graph /\ "newline" \notin Graph
  BY DEF Graph, Letters
<1>4. 1..Len(tokens) = {}
  BY <1>1
<1> QED
  BY <1>2, <1>3, <1>4 DEF LossInv, NothingLost

(***************************************************************************)
(* No part of any text is lost or read twice: the tokens stand in order,   *)
(* and every other glyph is in a comment or is a colon that opened a block.*)
(***************************************************************************)
THEOREM TextAccountedFor == Spec => []NothingLost
<1>1. TypeOK /\ LossInv /\ [Next]_lexVars => LossInv'
  <2> SUFFICES ASSUME TypeOK, LossInv, [Next]_lexVars PROVE LossInv'
    OBVIOUS
  <2>1. CASE Step
    BY <2>1, LossStep
  <2>2. CASE UNCHANGED lexVars
    BY <2>2 DEF LossInv, NothingLost, Covered, InComment, Opened, Token, At, lexVars
  <2> QED
    BY <2>1, <2>2 DEF Next, Stopped
<1>2. LossInv => NothingLost
  BY DEF LossInv
<1> QED
  BY <1>1, <1>2, LossInit, TypeCorrect, PTL DEF Spec

-----------------------------------------------------------------------------
(***************************************************************************)
(* LayoutIsOffside: what it says of the text alone.                        *)
(***************************************************************************)
Laid == \A p \in 0..(Len(text) - 1) :
          At(p) \in {"letter", "colon", "hash", "blank", "newline"}

LaidText == text \in Seq(Chars) /\ Laid

LEMMA LaidAt ==
  ASSUME LaidText, NEW p \in Nat
  PROVE  /\ p < Len(text) => At(p) \in {"letter", "colon", "hash", "blank", "newline"}
         /\ p >= Len(text) => At(p) = "end"
<1>1. Len(text) \in Nat
  BY DEF LaidText
<1> QED
  BY <1>1 DEF LaidText, Laid, At

LEMMA GlyphFacts ==
  /\ {"letter", "colon", "hash"} \subseteq Graph
  /\ "blank" \notin Graph /\ "newline" \notin Graph /\ "end" \notin Graph
  /\ {"letter", "colon", "hash", "blank", "newline"} \subseteq Chars
BY DEF Graph, Letters, Chars, Space

(***************************************************************************)
(* A comment reaches from its hash to the end of the line.                 *)
(***************************************************************************)
LEMMA NotCommented ==
  ASSUME NEW a \in Nat, NEW b \in Nat, a <= b,
         a = 0 \/ ~Commented(a - 1) \/ At(a) = "newline",
         \A k \in a..b : At(k) # "hash"
  PROVE  ~Commented(b)
<1> SUFFICES ASSUME Commented(b) PROVE FALSE
  OBVIOUS
<1>1. PICK h \in 0..b : At(h) = "hash" /\ \A k \in h..b : At(k) # "newline"
  BY DEF Commented
<1>2. h \in Nat /\ h < a
  BY <1>1
<1>3. a - 1 \in Nat /\ h \in 0..(a - 1) /\ a \in h..b /\ \A k \in h..(a - 1) : k \in h..b
  BY <1>2
<1>4. Commented(a - 1)
  BY <1>1, <1>3 DEF Commented
<1> QED
  BY <1>1, <1>2, <1>3, <1>4

LEMMA IsCommented ==
  ASSUME NEW a \in Nat, NEW b \in Nat, a <= b, At(a) = "hash",
         \A k \in a..b : At(k) # "newline"
  PROVE  Commented(b)
<1>1. a \in 0..b
  OBVIOUS
<1> QED
  BY <1>1 DEF Commented

(***************************************************************************)
(* The greatest and the least member of a set, where there is one.         *)
(***************************************************************************)
LEMMA MaxIs ==
  ASSUME NEW S \in SUBSET Nat, NEW m \in S, \A k \in S : m >= k
  PROVE  Max(S) = m
<1>1. \A x \in S : (\A y \in S : x >= y) => x = m
  OBVIOUS
<1> QED
  BY <1>1 DEF Max

LEMMA MinIs ==
  ASSUME NEW S \in SUBSET Nat, S # {}, NEW m
  PROVE  Min(S) = m <=> m \in S /\ \A k \in S : m <= k
<1>1. PICK x \in S : \A k \in S : x <= k
  BY LeastExists
<1>2. Min(S) \in S /\ \A k \in S : Min(S) <= k
  BY <1>1 DEF Min
<1>3. \A a, b \in S : (\A k \in S : a <= k) /\ (\A k \in S : b <= k) => a = b
  OBVIOUS
<1> QED
  BY <1>2, <1>3

(***************************************************************************)
(* Where lines start.                                                      *)
(***************************************************************************)
LEMMA StartFacts ==
  /\ LineStarts \subseteq 0..Len(text) /\ 0 \in LineStarts
  /\ \A p \in LineStarts : p = 0 \/
       /\ p \in 1..Len(text) /\ At(p) \notin {"blank", "newline"}
       /\ \E e \in 1..(p-1) :
            /\ At(e) = "newline"
            /\ At(e-1) \in Graph \/ Commented(e-1)
            /\ \A k \in e..(p-1) : At(k) \in {"blank", "newline"}
BY DEF LineStarts

LEMMA StartIs ==
  ASSUME NEW e \in Nat, e > 0, NEW p \in (e+1)..Len(text), At(e) = "newline",
         At(e-1) \in Graph \/ Commented(e-1),
         \A k \in e..(p-1) : At(k) \in {"blank", "newline"},
         At(p) \notin {"blank", "newline"}
  PROVE  p \in LineStarts
<1>1. p \in 1..Len(text) /\ e \in 1..(p-1)
  OBVIOUS
<1> QED
  BY <1>1 DEF LineStarts

-----------------------------------------------------------------------------
(***************************************************************************)
(* How deep the line of the block c is; where the blocks of L end.         *)
(***************************************************************************)
Depth(c) == Margin(Max({l \in LineStarts : l <= c}))

Reaches(c, p) == c < p /\ \A l \in LineStarts : c < l /\ l < p => ~(Margin(l) <= Depth(c))

Before(L, p) == {c \in L : Reaches(c, p)}

EndsThere(c, p) ==
  p = Len(text) \/ (p \in LineStarts /\ Margin(p) <= Depth(c))

OpenAt(L, p) == {c \in Before(L, p) : p \in LineStarts => ~(Margin(p) <= Depth(c))}

EndsAt(L, p) == {c \in L : Ending(c, LineStarts) = p}

LEMMA BlockFacts ==
  ASSUME NEW L \in SUBSET Blocks, NEW c \in L
  PROVE  c \in Nat /\ c < Len(text) /\ At(c) = "colon" /\ ~Commented(c)
BY DEF Blocks

LEMMA EndsAtFacts ==
  ASSUME LaidText, NEW L \in SUBSET Blocks, NEW p \in 0..Len(text)
  PROVE  EndsAt(L, p) = {c \in Before(L, p) : EndsThere(c, p)}
<1> SUFFICES ASSUME NEW c \in L
             PROVE  Ending(c, LineStarts) = p <=> Reaches(c, p) /\ EndsThere(c, p)
  BY DEF EndsAt, Before
<1>0. Len(text) \in Nat /\ c \in Nat /\ c < Len(text) /\ LineStarts \subseteq 0..Len(text)
  BY BlockFacts, StartFacts DEF LaidText
<1> DEFINE next == {l \in LineStarts : l > c /\ Margin(l) <= Depth(c)}
           ends == next \cup {Len(text)}
<1>1. {FirstGlyph(l) : l \in next} = next
  <2>1. \A l \in next : FirstGlyph(l) = l
    BY <1>0 DEF FirstGlyph
  <2> HIDE DEF next
  <2> QED
    BY <2>1
<1>2. Ending(c, LineStarts) = Min(ends)
  BY <1>1 DEF Ending, Depth
<1>3. ends \in SUBSET Nat /\ ends # {}
  <2>1. LineStarts \subseteq Nat /\ next \subseteq LineStarts
    BY <1>0
  <2> HIDE DEF next
  <2> QED
    BY <1>0, <2>1
<1>4. Ending(c, LineStarts) = p <=> p \in ends /\ \A k \in ends : p <= k
  <2> HIDE DEF ends
  <2> QED
    BY <1>2, <1>3, MinIs
<1>5. p \in Nat /\ p <= Len(text)
  BY <1>0
<1>6. p \in ends <=> p = Len(text) \/ (p \in LineStarts /\ p > c /\ Margin(p) <= Depth(c))
  OBVIOUS
<1>7. (\A k \in ends : p <= k) <=> \A l \in LineStarts : c < l /\ l < p => ~(Margin(l) <= Depth(c))
  BY <1>0, <1>5
<1> HIDE DEF ends
<1> QED
  BY <1>0, <1>4, <1>5, <1>6, <1>7 DEF Reaches, EndsThere

(***************************************************************************)
(* From p to q no line starts and no token is spelled: what is open at p   *)
(* reaches q, and so does the block that p may open.                       *)
(***************************************************************************)
Quiet(p, q) ==
  \A k \in (p + 1)..(q - 1) : k \notin LineStarts /\ Spelled(k) = <<>>

LEMMA AcrossQuiet ==
  ASSUME LaidText, NEW L \in SUBSET Blocks,
         NEW p \in 0..Len(text), NEW q \in (p+1)..Len(text), Quiet(p, q)
  PROVE  /\ Before(L, q) = OpenAt(L, p) \cup (L \cap {p})
         /\ \A k \in (p + 1)..(q - 1) : EndsAt(L, k) = {}
<1>0. Len(text) \in Nat /\ p \in Nat /\ q \in Nat /\ p < q /\ q <= Len(text)
  BY DEF LaidText
<1>1. ASSUME NEW c \in L, c > p, c < q PROVE FALSE
  <2>1. c \in Nat /\ At(c) = "colon" /\ ~Commented(c)
    BY BlockFacts
  <2>2. Spelled(c) = <<Opened(c)>>
    BY <2>1 DEF Spelled
  <2>3. c \in (p+1)..(q-1)
    BY <1>0, <1>1, <2>1
  <2> QED
    BY <2>2, <2>3 DEF Quiet
<1>2. \A l \in LineStarts : l \in Nat /\ (l <= p \/ l >= q)
  <2> SUFFICES ASSUME NEW l \in LineStarts PROVE l \in Nat /\ (l <= p \/ l >= q)
    OBVIOUS
  <2>1. l \in Nat
    BY StartFacts
  <2>2. l <= p \/ l >= q \/ l \in (p+1)..(q-1)
    BY <1>0, <2>1
  <2> QED
    BY <2>1, <2>2 DEF Quiet
<1>3. ASSUME NEW c \in L PROVE c \in Before(L, q) <=> c \in OpenAt(L, p) \/ c = p
  <2>0. c \in Nat
    BY BlockFacts
  <2>1. CASE c < p
    <3>1. \A l \in LineStarts : c < l /\ l < q <=> (c < l /\ l < p) \/ l = p
      BY <1>0, <1>2, <2>0, <2>1
    <3>2. (\A l \in LineStarts : c < l /\ l < q => ~(Margin(l) <= Depth(c)))
            <=> /\ \A l \in LineStarts : c < l /\ l < p => ~(Margin(l) <= Depth(c))
                /\ p \in LineStarts => ~(Margin(p) <= Depth(c))
      BY <3>1
    <3> QED
      BY <1>0, <2>0, <2>1, <3>2 DEF Before, OpenAt, Reaches
  <2>2. CASE c = p
    BY <1>0, <1>2, <2>2 DEF Before, Reaches
  <2>3. CASE c > p
    <3>1. c >= q
      BY <1>0, <1>1, <2>0, <2>3
    <3> QED
      BY <1>0, <2>0, <2>3, <3>1 DEF Before, OpenAt, Reaches
  <2> QED
    BY <1>0, <2>0, <2>1, <2>2, <2>3
<1>4. ASSUME NEW k \in (p + 1)..(q - 1) PROVE EndsAt(L, k) = {}
  <2>1. k \in 0..Len(text) /\ k # Len(text) /\ k \notin LineStarts
    BY <1>0 DEF Quiet
  <2> QED
    BY <2>1, EndsAtFacts DEF EndsThere
<1>5. Before(L, q) \subseteq L /\ OpenAt(L, p) \subseteq L
  BY DEF Before, OpenAt
<1> QED
  BY <1>3, <1>4, <1>5

(***************************************************************************)
(* The line of q is the line of p, or starts there.                        *)
(***************************************************************************)
LEMMA DepthAcrossQuiet ==
  ASSUME LaidText, NEW p \in 0..Len(text), NEW q \in (p+1)..Len(text), Quiet(p, q)
  PROVE  Depth(q) = IF q \in LineStarts THEN Margin(q) ELSE Depth(p)
<1>0. Len(text) \in Nat /\ p \in Nat /\ q \in Nat /\ p < q
  BY DEF LaidText
<1>1. CASE q \in LineStarts
  <2> DEFINE S == {l \in LineStarts : l <= q}
  <2>1. LineStarts \subseteq Nat
    BY <1>0, StartFacts
  <2>2. S \subseteq Nat /\ q \in S
    <3>1. S \subseteq LineStarts
      OBVIOUS
    <3>2. q \in S
      BY <1>0, <1>1
    <3> HIDE DEF S
    <3> QED
      BY <2>1, <3>1, <3>2
  <2>3. \A k \in S : q >= k
    BY <1>0, <2>1
  <2> HIDE DEF S
  <2>4. Max(S) = q
    BY <2>2, <2>3, MaxIs
  <2> QED
    BY <1>1, <2>4 DEF S, Depth
<1>2. CASE q \notin LineStarts
  <2>1. ASSUME NEW l \in LineStarts PROVE l <= q <=> l <= p
    <3>1. l \in Nat
      BY StartFacts
    <3>2. l <= p \/ l = q \/ l > q \/ l \in (p+1)..(q-1)
      BY <1>0, <3>1
    <3> QED
      BY <1>0, <1>2, <3>1, <3>2 DEF Quiet
  <2>2. {l \in LineStarts : l <= q} = {l \in LineStarts : l <= p}
    BY <2>1
  <2> QED
    BY <1>2, <2>2 DEF Depth
<1> QED
  BY <1>1, <1>2

-----------------------------------------------------------------------------
(***************************************************************************)
(* Where a turn of the loop may begin in such a text.                      *)
(***************************************************************************)
PlaceOK(p) ==
  /\ p = 0 \/ ~Commented(p - 1) \/ At(p) \in {"newline", "end"}
  /\ At(p) \in {"blank", "newline"} => p > 0 /\ (At(p-1) \in Graph \/ Commented(p-1))
  /\ At(p) = "letter" => p = 0 \/ At(p-1) # "letter"

Moves(p, q) == q \in (p+1)..Len(text) /\ Quiet(p, q) /\ PlaceOK(q)

LEMMA RunMoves ==
  ASSUME LaidText, NEW p \in Nat, p < Len(text), NEW S, At(p) \in S
  PROVE  /\ RunEnd(S, p) \in (p+1)..Len(text)
         /\ \A k \in p..(RunEnd(S, p) - 1) : At(k) \in S
         /\ RunEnd(S, p) = Len(text) \/ At(RunEnd(S, p)) \notin S
<1> DEFINE q == RunEnd(S, p)
<1>1. p \in 0..Len(text) /\ text \in Seq(Chars) /\ Len(text) \in Nat
  BY DEF LaidText
<1>2. /\ q \in p..Len(text)
      /\ \A k \in p..(q - 1) : At(k) \in S
      /\ q = Len(text) \/ At(q) \notin S
  BY <1>1, RunEndFacts
<1>3. q # p
  BY <1>1, <1>2
<1> QED
  BY <1>1, <1>2, <1>3

LEMMA NothingSpelled ==
  ASSUME NEW p, Commented(p) \/ At(p) \notin {"letter", "colon"}
  PROVE  Spelled(p) = <<>>
BY DEF Spelled

LEMMA WhitespaceMoves ==
  ASSUME LaidText, NEW p \in Nat, p < Len(text), PlaceOK(p), At(p) = "blank"
  PROVE  /\ Moves(p, RunEnd(Chars \ Graph, p)) /\ RunEnd(Chars \ Graph, p) \notin LineStarts
         /\ Spelled(p) = <<>>
<1> DEFINE q == RunEnd(Chars \ Graph, p)
<1>0. Len(text) \in Nat /\ text \in Seq(Chars)
  BY DEF LaidText
<1>1. /\ q \in (p+1)..Len(text)
      /\ \A k \in p..(q - 1) : At(k) \in Chars \ Graph
      /\ q = Len(text) \/ At(q) \notin Chars \ Graph
  BY RunMoves, GlyphFacts
<1> HIDE DEF q
<1>2. q \in Nat /\ p < q /\ q <= Len(text)
  BY <1>0, <1>1
<1>3. ASSUME NEW k \in p..(q - 1) PROVE At(k) \in {"blank", "newline"}
  <2>1. k \in Nat /\ k < Len(text)
    BY <1>2
  <2>2. At(k) \in {"letter", "colon", "hash", "blank", "newline"}
    BY <2>1, LaidAt
  <2> QED
    BY <1>1, <2>2, GlyphFacts
<1>4. ~Commented(p - 1) /\ p > 0 /\ At(p - 1) \in Graph
  BY DEF PlaceOK
<1>5. ASSUME NEW k \in p..(q - 1) PROVE ~Commented(k)
  <2>1. k \in Nat /\ p <= k /\ \A j \in p..k : j \in p..(q - 1)
    BY <1>2
  <2>2. \A j \in p..k : At(j) # "hash"
    BY <1>3, <2>1
  <2> QED
    BY <1>4, <2>1, <2>2, NotCommented
<1>6. ASSUME NEW s \in LineStarts, s > p, s <= q PROVE FALSE
  <2>0. s \in Nat /\ s # 0
    BY <1>2, <1>6, StartFacts
  <2>1. PICK e \in 1..(s-1) : /\ At(e) = "newline"
                              /\ At(e-1) \in Graph \/ Commented(e-1)
                              /\ \A k \in e..(s-1) : At(k) \in {"blank", "newline"}
    BY <2>0, StartFacts
  <2>2. CASE e > p
    <3>1. e - 1 \in p..(q - 1)
      BY <1>2, <1>6, <2>0, <2>2
    <3> QED
      BY <1>3, <1>5, <2>1, <3>1, GlyphFacts
  <2>3. CASE e <= p
    <3>1. e # p
      BY <2>1
    <3>2. p - 1 \in e..(s - 1)
      BY <1>6, <2>0, <2>3, <3>1
    <3> QED
      BY <1>4, <2>1, <3>2, GlyphFacts
  <2> QED
    BY <1>2, <2>0, <2>2, <2>3
<1>7. \A k \in p..(q - 1) : Spelled(k) = <<>>
  BY <1>3, NothingSpelled
<1>8. p \in p..(q-1) /\ q - 1 \in p..(q-1) /\ \A k \in (p+1)..(q-1) : k \in p..(q-1) /\ k > p /\ k <= q
  BY <1>2
<1>9. Quiet(p, q)
  BY <1>6, <1>7, <1>8 DEF Quiet
<1>10. PlaceOK(q)
  <2>1. ~Commented(q - 1)
    BY <1>5, <1>8
  <2>2. At(q) \notin {"blank", "newline"}
    <3>1. CASE q = Len(text)
      BY <1>2, <3>1, LaidAt
    <3>2. CASE At(q) \notin Chars \ Graph
      BY <3>2, GlyphFacts
    <3> QED
      BY <1>1, <3>1, <3>2
  <2>3. At(q - 1) # "letter"
    BY <1>3, <1>8
  <2> QED
    BY <2>1, <2>2, <2>3 DEF PlaceOK
<1>11. q \notin LineStarts
  BY <1>2, <1>6
<1> QED
  BY <1>1, <1>7, <1>8, <1>9, <1>10, <1>11 DEF Moves, q

LEMMA CommentMoves ==
  ASSUME LaidText, NEW p \in Nat, p < Len(text), At(p) = "hash"
  PROVE  /\ Moves(p, RunEnd(Chars \ {"newline"}, p))
         /\ RunEnd(Chars \ {"newline"}, p) \notin LineStarts
         /\ Spelled(p) = <<>>
<1> DEFINE q == RunEnd(Chars \ {"newline"}, p)
<1>0. Len(text) \in Nat /\ text \in Seq(Chars)
  BY DEF LaidText
<1>1. /\ q \in (p+1)..Len(text)
      /\ \A k \in p..(q - 1) : At(k) \in Chars \ {"newline"}
      /\ q = Len(text) \/ At(q) \notin Chars \ {"newline"}
  BY RunMoves, GlyphFacts
<1> HIDE DEF q
<1>2. q \in Nat /\ p < q /\ q <= Len(text)
  BY <1>0, <1>1
<1>3. ASSUME NEW k \in p..(q - 1) PROVE Commented(k)
  <2>1. k \in Nat /\ p <= k /\ \A j \in p..k : j \in p..(q - 1)
    BY <1>2
  <2>2. \A j \in p..k : At(j) # "newline"
    BY <1>1, <2>1
  <2> QED
    BY <2>1, <2>2, IsCommented
<1>4. ASSUME NEW s \in LineStarts, s > p, s <= q PROVE FALSE
  <2>0. s \in Nat /\ s # 0
    BY <1>2, <1>4, StartFacts
  <2>1. PICK e \in 1..(s-1) : /\ At(e) = "newline"
                              /\ \A k \in e..(s-1) : At(k) \in {"blank", "newline"}
    BY <2>0, StartFacts
  <2>2. CASE e > p
    <3>1. e \in p..(q - 1)
      BY <1>2, <1>4, <2>0, <2>2
    <3> QED
      BY <1>1, <2>1, <3>1
  <2>3. CASE e <= p
    <3>1. p \in e..(s - 1)
      BY <1>4, <2>0, <2>3
    <3> QED
      BY <2>1, <3>1
  <2> QED
    BY <1>2, <2>0, <2>2, <2>3
<1>5. \A k \in p..(q - 1) : Spelled(k) = <<>>
  BY <1>3, NothingSpelled
<1>6. p \in p..(q-1) /\ q - 1 \in p..(q-1) /\ \A k \in (p+1)..(q-1) : k \in p..(q-1) /\ k > p /\ k <= q
  BY <1>2
<1>7. Quiet(p, q)
  BY <1>4, <1>5, <1>6 DEF Quiet
<1>8. At(q) \in {"newline", "end"}
  <2>1. CASE q = Len(text)
    BY <1>2, <2>1, LaidAt
  <2>2. CASE q # Len(text)
    BY <1>1, <1>2, <2>2, LaidAt, GlyphFacts
  <2> QED
    BY <2>1, <2>2
<1>9. PlaceOK(q)
  BY <1>2, <1>3, <1>6, <1>8 DEF PlaceOK
<1>10. q \notin LineStarts
  BY <1>2, <1>4
<1> QED
  BY <1>1, <1>5, <1>6, <1>7, <1>9, <1>10 DEF Moves, q

LEMMA RunIs ==
  ASSUME text \in Seq(Chars), NEW S, NEW p \in 0..Len(text), NEW q \in p..Len(text),
         \A k \in p..(q - 1) : At(k) \in S,
         q = Len(text) \/ At(q) \notin S
  PROVE  RunEnd(S, p) = q
<1> DEFINE r == RunEnd(S, p)
<1>0. Len(text) \in Nat /\ p \in Nat /\ q \in Nat
  OBVIOUS
<1>1. /\ r \in p..Len(text)
      /\ \A k \in p..(r - 1) : At(k) \in S
      /\ r = Len(text) \/ At(r) \notin S
  BY RunEndFacts
<1> HIDE DEF r
<1>2. r \in Nat /\ ~(r < q) /\ ~(q < r)
  BY <1>0, <1>1
<1> QED
  BY <1>0, <1>2 DEF r

LEMMA NameMoves ==
  ASSUME LaidText, NEW p \in Nat, p < Len(text), PlaceOK(p), At(p) = "letter"
  PROVE  LET q == RunEnd(Letters \cup {"under"}, p)
         IN  Moves(p, q) /\ q \notin LineStarts /\ Spelled(p) = <<Token("name", p, q)>>
<1> DEFINE S == Letters \cup {"under"}
           q == RunEnd(S, p)
<1>0. Len(text) \in Nat /\ text \in Seq(Chars)
  BY DEF LaidText
<1>1. /\ q \in (p+1)..Len(text)
      /\ \A k \in p..(q - 1) : At(k) \in S
      /\ q = Len(text) \/ At(q) \notin S
  BY RunMoves DEF Letters
<1> HIDE DEF q
<1>2. q \in Nat /\ p < q /\ q <= Len(text)
  BY <1>0, <1>1
<1>3. ASSUME NEW k \in p..(q - 1) PROVE At(k) = "letter"
  <2>1. k \in Nat /\ k < Len(text)
    BY <1>2
  <2>2. At(k) \in {"letter", "colon", "hash", "blank", "newline"}
    BY <2>1, LaidAt
  <2> QED
    BY <1>1, <2>2 DEF Letters
<1>4. ASSUME NEW k \in p..(q - 1) PROVE ~Commented(k)
  <2>1. k \in Nat /\ p <= k /\ \A j \in p..k : j \in p..(q - 1)
    BY <1>2
  <2>2. \A j \in p..k : At(j) # "hash"
    BY <1>3, <2>1
  <2>3. p = 0 \/ ~Commented(p - 1)
    BY DEF PlaceOK
  <2> QED
    BY <2>1, <2>2, <2>3, NotCommented
<1>5. ASSUME NEW s \in LineStarts, s > p, s <= q PROVE FALSE
  <2>0. s \in Nat /\ s # 0
    BY <1>2, <1>5, StartFacts
  <2>1. PICK e \in 1..(s-1) : \A k \in e..(s-1) : At(k) \in {"blank", "newline"}
    BY <2>0, StartFacts
  <2>2. s - 1 \in e..(s - 1) /\ s - 1 \in p..(q - 1)
    BY <1>2, <1>5, <2>0
  <2> QED
    BY <1>3, <2>1, <2>2
<1>6. p \in p..(q-1) /\ q - 1 \in p..(q-1)
  BY <1>2
<1>7. At(q) # "letter" /\ At(q - 1) = "letter" /\ ~Commented(q - 1)
  <2>1. At(q) # "letter"
    <3>1. CASE q = Len(text)
      BY <1>2, <3>1, LaidAt
    <3>2. CASE q # Len(text)
      BY <1>1, <3>2 DEF Letters
    <3> QED
      BY <3>1, <3>2
  <2> QED
    BY <1>3, <1>4, <1>6, <2>1
<1>8. Quiet(p, q)
  <2> SUFFICES ASSUME NEW k \in (p+1)..(q-1)
               PROVE  k \notin LineStarts /\ Spelled(k) = <<>>
    BY DEF Quiet
  <2>1. k \in p..(q-1) /\ k - 1 \in p..(q-1) /\ k > p /\ k <= q /\ k # 0
    BY <1>2
  <2>2. At(k) = "letter" /\ At(k - 1) = "letter"
    BY <1>3, <2>1
  <2>3. Spelled(k) = <<>>
    BY <2>1, <2>2 DEF Spelled
  <2> QED
    BY <1>5, <2>1, <2>3
<1>9. PlaceOK(q)
  BY <1>2, <1>7, GlyphFacts DEF PlaceOK
<1>10. RunEnd({"letter"}, p) = q
  <2>1. p \in 0..Len(text) /\ q \in p..Len(text) /\ \A k \in p..(q-1) : At(k) \in {"letter"}
    BY <1>0, <1>2, <1>3
  <2> QED
    BY <1>0, <1>7, <2>1, RunIs
<1>11. Spelled(p) = <<Token("name", p, q)>>
  <2>1. ~Commented(p) /\ (p = 0 \/ At(p-1) # "letter")
    BY <1>4, <1>6 DEF PlaceOK
  <2> QED
    BY <1>10, <2>1 DEF Spelled
<1>12. q \notin LineStarts
  BY <1>2, <1>5
<1> QED
  BY <1>1, <1>8, <1>9, <1>11, <1>12 DEF Moves, q

LEMMA ColonMoves ==
  ASSUME LaidText, NEW p \in Nat, p < Len(text), PlaceOK(p), At(p) = "colon"
  PROVE  /\ Moves(p, p + 1) /\ p + 1 \notin LineStarts
         /\ Spelled(p) = <<Opened(p)>> /\ p \in Blocks
<1>0. Len(text) \in Nat
  BY DEF LaidText
<1>1. ~Commented(p)
  <2>1. \A k \in p..p : k = p
    OBVIOUS
  <2>2. p <= p /\ \A k \in p..p : At(k) # "hash"
    BY <2>1
  <2>3. p = 0 \/ ~Commented(p - 1)
    BY DEF PlaceOK
  <2> QED
    BY <2>2, <2>3, NotCommented
<1>2. ASSUME p + 1 \in LineStarts PROVE FALSE
  <2>1. PICK e \in 1..p : \A k \in e..p : At(k) \in {"blank", "newline"}
    BY <1>2, StartFacts
  <2>2. p \in e..p
    OBVIOUS
  <2> QED
    BY <2>1, <2>2
<1>3. Quiet(p, p + 1)
  BY DEF Quiet
<1>4. PlaceOK(p + 1)
  <2>1. (p + 1) - 1 = p /\ p + 1 > 0
    OBVIOUS
  <2> QED
    BY <1>1, <2>1, GlyphFacts DEF PlaceOK
<1>5. p + 1 \in (p+1)..Len(text)
  BY <1>0
<1>6. p \in Blocks
  BY <1>0, <1>1 DEF Blocks
<1>7. Spelled(p) = <<Opened(p)>>
  BY <1>1 DEF Spelled
<1> QED
  BY <1>2, <1>3, <1>4, <1>5, <1>6, <1>7 DEF Moves

LEMMA NewlineMoves ==
  ASSUME LaidText, NEW p \in Nat, p < Len(text), PlaceOK(p), At(p) = "newline"
  PROVE  LET q == IndentEnd(p + 1)
         IN  /\ Moves(p, q) /\ Spelled(p) = <<>>
             /\ q \in LineStarts /\ Margin(q) = IndentAt(p + 1)
<1> DEFINE B == {"blank", "newline"}
           q == IndentEnd(p + 1)
<1>0. Len(text) \in Nat /\ text \in Seq(Chars) /\ p + 1 \in 0..Len(text)
  BY DEF LaidText
<1>1. /\ q \in (p+1)..Len(text)
      /\ \A k \in (p+1)..(q - 1) : At(k) \in B
      /\ q = Len(text) \/ At(q) \notin B
  BY <1>0, RunEndFacts DEF IndentEnd
<1> HIDE DEF q
<1>2. q \in Nat /\ p < q /\ q <= Len(text) /\ p > 0 /\ (At(p-1) \in Graph \/ Commented(p-1))
  BY <1>0, <1>1 DEF PlaceOK
<1>3. ASSUME NEW k \in p..(q - 1) PROVE At(k) \in B
  <2>1. k = p \/ k \in (p+1)..(q-1)
    BY <1>2
  <2> QED
    BY <1>1, <2>1
<1>4. ASSUME NEW k \in p..(q - 1) PROVE ~Commented(k)
  <2>1. k \in Nat /\ p <= k /\ \A j \in p..k : j \in p..(q - 1)
    BY <1>2
  <2>2. \A j \in p..k : At(j) # "hash"
    BY <1>3, <2>1
  <2> QED
    BY <2>1, <2>2, NotCommented
<1>5. At(q) \notin B
  BY <1>1, <1>2, LaidAt
<1>6. q \in LineStarts
  <2>1. q \in (p+1)..Len(text)
    BY <1>1
  <2> QED
    BY <1>2, <1>3, <1>5, <2>1, StartIs
<1>7. Quiet(p, q)
  <2> SUFFICES ASSUME NEW k \in (p+1)..(q-1)
               PROVE  k \notin LineStarts /\ Spelled(k) = <<>>
    BY DEF Quiet
  <2>1. At(k) \in B /\ k # 0
    BY <1>1, <1>2
  <2> QED
    BY <2>1, StartFacts, NothingSpelled
<1>8. PlaceOK(q)
  <2>1. q - 1 \in p..(q - 1)
    BY <1>2
  <2>2. ~Commented(q - 1) /\ At(q - 1) # "letter"
    BY <1>3, <1>4, <2>1
  <2> QED
    BY <1>5, <2>2 DEF PlaceOK
<1>9. Margin(q) = IndentAt(p + 1)
  <2>1. FirstGlyph(q) = q
    BY <1>2 DEF FirstGlyph
  <2>2. ASSUME NEW k \in 0..(q - 1), \A j \in k..(q - 1) : At(j) = "blank"
        PROVE  k \in (p+1)..(q-1)
    <3>1. p \notin k..(q - 1)
      BY <2>2
    <3> QED
      BY <1>2, <3>1
  <2>3. \A k \in (p+1)..(q-1) : k \in 0..(q-1)
    BY <1>2
  <2>4. {k \in 0..(q - 1) : \A j \in k..(q - 1) : At(j) = "blank"} =
        {k \in (p+1)..(q - 1) : \A j \in k..(q - 1) : At(j) = "blank"}
    BY <2>2, <2>3
  <2> QED
    BY <2>1, <2>4 DEF Margin, IndentAt, q
<1>10. Spelled(p) = <<>>
  BY NothingSpelled
<1> QED
  BY <1>1, <1>6, <1>7, <1>8, <1>9, <1>10 DEF Moves, q

-----------------------------------------------------------------------------
(***************************************************************************)
(* The stack holds how deep the blocks of S are, each of them once.        *)
(***************************************************************************)
MatchedBy(ob, inds, S) ==
  /\ ob \in [1..Len(inds) -> S]
  /\ \A i, j \in 1..Len(inds) : ob[i] = ob[j] => i = j
  /\ \A c \in S : \E i \in 1..Len(inds) : ob[i] = c
  /\ \A i \in 1..Len(inds) : inds[i] = Depth(ob[i])

Matches(inds, S) == \E ob : MatchedBy(ob, inds, S)

LEMMA NoneMatched == Matches(<<>>, {})
<1> DEFINE ob == [i \in 1..0 |-> 0]
<1>1. 1..0 = {} /\ Len(<<>>) = 0
  OBVIOUS
<1>2. MatchedBy(ob, <<>>, {})
  BY <1>1 DEF MatchedBy
<1> QED
  BY <1>2 DEF Matches

LEMMA MatchCount ==
  ASSUME NEW inds \in Seq(Nat), NEW S, Matches(inds, S)
  PROVE  IsFiniteSet(S) /\ Cardinality(S) = Len(inds)
<1>1. PICK ob : MatchedBy(ob, inds, S)
  BY DEF Matches
<1>2. Len(inds) \in Nat
  OBVIOUS
<1>3. ob \in Bijection(1..Len(inds), S)
  BY <1>1 DEF MatchedBy, Bijection, Injection, IsInjective, Surjection
<1>4. ExistsBijection(1..Len(inds), S)
  BY <1>3 DEF ExistsBijection
<1> QED
  BY <1>2, <1>4, FS_NatBijection, FS_CountingElements

LEMMA MatchPush ==
  ASSUME NEW inds \in Seq(Nat), NEW S, Matches(inds, S), NEW c, c \notin S,
         Depth(c) \in Nat
  PROVE  Matches(Append(inds, Depth(c)), S \cup {c})
<1>1. PICK ob : MatchedBy(ob, inds, S)
  BY DEF Matches
<1> DEFINE n == Len(inds)
           more == Append(inds, Depth(c))
           obs == [i \in 1..(n + 1) |-> IF i = n + 1 THEN c ELSE ob[i]]
<1>2. n \in Nat /\ Len(more) = n + 1 /\ more[n + 1] = Depth(c)
      /\ \A i \in 1..n : more[i] = inds[i]
  BY AppendProperties
<1>3. \A i \in 1..(n+1) : i \in 1..n \/ i = n + 1
  BY <1>2
<1>4. /\ ob \in [1..n -> S]
      /\ \A i, j \in 1..n : ob[i] = ob[j] => i = j
      /\ \A b \in S : \E i \in 1..n : ob[i] = b
      /\ \A i \in 1..n : inds[i] = Depth(ob[i])
  BY <1>1 DEF MatchedBy
<1> HIDE DEF n, more
<1>5. n + 1 \in 1..(n+1) /\ n + 1 \notin 1..n /\ \A i \in 1..n : i \in 1..(n+1)
  BY <1>2
<1>6. obs[n+1] = c /\ \A i \in 1..n : obs[i] = ob[i] /\ obs[i] \in S
  BY <1>4, <1>5
<1>7. obs \in [1..(n+1) -> S \cup {c}]
  BY <1>3, <1>4
<1> HIDE DEF obs
<1>8. \A i, j \in 1..(n+1) : obs[i] = obs[j] => i = j
  BY <1>3, <1>4, <1>6
<1>9. \A b \in S \cup {c} : \E i \in 1..(n+1) : obs[i] = b
  BY <1>4, <1>5, <1>6
<1>10. \A i \in 1..(n+1) : more[i] = Depth(obs[i])
  BY <1>2, <1>3, <1>4, <1>6
<1>11. MatchedBy(obs, more, S \cup {c})
  BY <1>2, <1>7, <1>8, <1>9, <1>10 DEF MatchedBy
<1> QED
  BY <1>11 DEF Matches, more

LEMMA MatchPop ==
  ASSUME NEW inds \in Seq(Nat), NEW S, Matches(inds, S),
         NEW n \in Nat, NEW kept \in 0..Len(inds),
         \A i \in 1..kept : inds[i] < n,
         \A i \in (kept+1)..Len(inds) : inds[i] >= n
  PROVE  /\ Matches(SubSeq(inds, 1, kept), {c \in S : ~(n <= Depth(c))})
         /\ IsFiniteSet({c \in S : n <= Depth(c)})
         /\ Cardinality({c \in S : n <= Depth(c)}) = Len(inds) - kept
<1> DEFINE len == Len(inds)
           left == SubSeq(inds, 1, kept)
           Shallow == {c \in S : ~(n <= Depth(c))}
           Deep == {c \in S : n <= Depth(c)}
<1>1. PICK ob : MatchedBy(ob, inds, S)
  BY DEF Matches
<1>2. /\ len \in Nat /\ kept \in Nat /\ kept <= len /\ Len(left) = kept
      /\ \A i \in 1..kept : left[i] = inds[i]
  OBVIOUS
<1>3. \A i \in 1..len : inds[i] \in Nat /\ (i \in 1..kept \/ i \in (kept+1)..len)
  BY <1>2, ElementOfSeq
<1>4. /\ \A i \in 1..kept : i \in 1..len
      /\ \A i \in (kept+1)..len : i \in 1..len
  BY <1>2
<1>5. /\ ob \in [1..len -> S]
      /\ \A i, j \in 1..len : ob[i] = ob[j] => i = j
      /\ \A c \in S : \E i \in 1..len : ob[i] = c
      /\ \A i \in 1..len : inds[i] = Depth(ob[i])
  BY <1>1 DEF MatchedBy
<1>6. /\ \A i \in 1..kept : inds[i] < n
      /\ \A i \in (kept+1)..len : inds[i] >= n
  OBVIOUS
<1> HIDE DEF len, left
<1>7. \A i \in 1..kept : ob[i] \in Shallow
  <2> SUFFICES ASSUME NEW i \in 1..kept PROVE ob[i] \in Shallow
    OBVIOUS
  <2>1. i \in 1..len /\ inds[i] < n /\ inds[i] \in Nat
    BY <1>3, <1>4, <1>6
  <2>2. ob[i] \in S /\ Depth(ob[i]) = inds[i]
    BY <1>5, <2>1
  <2> QED
    BY <2>1, <2>2
<1>8. \A i \in (kept+1)..len : ob[i] \in Deep
  <2> SUFFICES ASSUME NEW i \in (kept+1)..len PROVE ob[i] \in Deep
    OBVIOUS
  <2>1. i \in 1..len /\ inds[i] >= n /\ inds[i] \in Nat
    BY <1>3, <1>4, <1>6
  <2>2. ob[i] \in S /\ Depth(ob[i]) = inds[i]
    BY <1>5, <2>1
  <2> QED
    BY <2>1, <2>2
<1>9. Shallow \subseteq S /\ Deep \subseteq S /\ Shallow \cap Deep = {}
  OBVIOUS
<1> HIDE DEF Shallow, Deep
<1>10. \A c \in Shallow : \E i \in 1..kept : ob[i] = c
  BY <1>3, <1>5, <1>8, <1>9
<1>11. \A c \in Deep : \E i \in (kept+1)..len : ob[i] = c
  BY <1>3, <1>5, <1>7, <1>9
<1>12. Matches(left, Shallow)
  <2> DEFINE lower == [i \in 1..kept |-> ob[i]]
  <2>1. lower \in [1..kept -> Shallow] /\ \A i \in 1..kept : lower[i] = ob[i]
    BY <1>7
  <2> HIDE DEF lower
  <2>2. MatchedBy(lower, left, Shallow)
    BY <1>2, <1>4, <1>5, <1>10, <2>1 DEF MatchedBy
  <2> QED
    BY <2>2 DEF Matches
<1>13. IsFiniteSet(Deep) /\ Cardinality(Deep) = len - kept
  <2> DEFINE I == (kept+1)..len
             upper == [i \in I |-> ob[i]]
  <2>1. IsFiniteSet(I) /\ Cardinality(I) = len - kept
    <3>1. kept + 1 \in Int /\ len \in Int
      BY <1>2
    <3>2. IsFiniteSet(I) /\ Cardinality(I) = IF kept + 1 > len THEN 0 ELSE len - (kept+1) + 1
      BY <3>1, FS_Interval
    <3> HIDE DEF I
    <3> QED
      BY <1>2, <3>2
  <2>2. upper \in [I -> Deep] /\ \A i \in I : upper[i] = ob[i]
    BY <1>8
  <2>3. \A i \in I : i \in 1..len
    BY <1>4
  <2>4. \A c \in Deep : \E i \in I : upper[i] = c
    BY <1>11, <2>2
  <2> HIDE DEF upper, I
  <2>5. upper \in Bijection(I, Deep)
    BY <1>5, <2>2, <2>3, <2>4 DEF Bijection, Injection, IsInjective, Surjection
  <2>6. ExistsBijection(I, Deep)
    BY <2>5 DEF ExistsBijection
  <2> QED
    BY <2>1, <2>6, FS_Bijection
<1> QED
  BY <1>12, <1>13 DEF len, left, Shallow, Deep

-----------------------------------------------------------------------------
(***************************************************************************)
(* What Offside has for one place in the text, and for all before p.       *)
(***************************************************************************)
Copies(k, p) == [i \in 1..k |-> Closed(p)]

Piece(L, p) == Copies(Cardinality(EndsAt(L, p)), p) \o Spelled(p)

WrittenBy(g, L, p) ==
  /\ g \in [0..p -> Seq(TokenType)]
  /\ g[0] = <<>>
  /\ \A i \in 1..p : g[i] = g[i-1] \o Piece(L, i-1)

(***************************************************************************)
(* The tokens are those of all places before p and k brackets that close.  *)
(***************************************************************************)
Written(L, p, toks, k) ==
  \E g : WrittenBy(g, L, p) /\ toks = g[p] \o Copies(k, p)

LEMMA Regroup ==
  \A a, b, c \in Seq(TokenType) : (a \o b) \o c = a \o (b \o c)
BY ConcatAssociative

LEMMA CopiesFacts ==
  ASSUME NEW k \in Nat, NEW p \in Nat
  PROVE  /\ Copies(k, p) \in Seq(TokenType) /\ Copies(0, p) = <<>>
         /\ Append(Copies(k, p), Closed(p)) = Copies(k + 1, p)
         /\ Closed(p) \in TokenType
<1>1. Closed(p) \in TokenType
  BY DEF Closed, Token, TokenType, Kinds
<1>2. Copies(k, p) \in Seq(TokenType) /\ Copies(k + 1, p) \in Seq(TokenType)
  BY <1>1 DEF Copies
<1>3. Len(Copies(k, p)) = k /\ \A i \in 1..k : Copies(k, p)[i] = Closed(p)
  BY DEF Copies
<1>4. Len(Copies(k + 1, p)) = k + 1 /\ \A i \in 1..(k+1) : Copies(k + 1, p)[i] = Closed(p)
  BY DEF Copies
<1> DEFINE more == Append(Copies(k, p), Closed(p))
<1>5. /\ more \in Seq(TokenType) /\ Len(more) = k + 1
      /\ \A i \in 1..(k+1) : more[i] = Closed(p)
  BY <1>1, <1>2, <1>3, AppendProperties
<1> HIDE DEF more
<1>6. more = Copies(k + 1, p)
  BY <1>2, <1>4, <1>5, SeqEqual
<1>7. Copies(0, p) = <<>>
  BY DEF Copies
<1> QED
  BY <1>1, <1>2, <1>6, <1>7 DEF more

LEMMA SpelledType ==
  ASSUME LaidText, NEW p \in 0..Len(text)
  PROVE  /\ Spelled(p) \in Seq(TokenType)
         /\ p = Len(text) => Spelled(p) = <<>>
<1>0. Len(text) \in Nat /\ p \in Nat /\ text \in Seq(Chars)
  BY DEF LaidText
<1>1. p = Len(text) => Spelled(p) = <<>>
  <2>1. p = Len(text) => At(p) = "end"
    BY <1>0, LaidAt
  <2> QED
    BY <2>1, NothingSpelled
<1>2. RunEnd({"letter"}, p) \in Nat
  BY <1>0, RunEndFacts
<1>3. Opened(p) \in TokenType /\ Token("name", p, RunEnd({"letter"}, p)) \in TokenType
  BY <1>0, <1>2 DEF Opened, Token, TokenType, Kinds
<1>4. \A t \in TokenType : <<t>> \in Seq(TokenType)
  OBVIOUS
<1>5. <<>> \in Seq(TokenType)
  OBVIOUS
<1>6. Spelled(p) \in Seq(TokenType)
  BY <1>3, <1>4, <1>5 DEF Spelled
<1> QED
  BY <1>1, <1>6

LEMMA EndsAtCount ==
  ASSUME LaidText, NEW L \in SUBSET Blocks, NEW p
  PROVE  IsFiniteSet(EndsAt(L, p)) /\ Cardinality(EndsAt(L, p)) \in Nat
<1>1. Len(text) \in Nat
  BY DEF LaidText
<1>2. IsFiniteSet(0..(Len(text) - 1))
  BY <1>1, FS_Interval
<1>3. EndsAt(L, p) \in SUBSET (0..(Len(text) - 1))
  BY DEF EndsAt, Blocks
<1> QED
  BY <1>2, <1>3, FS_Subset, FS_CardinalityType

LEMMA PieceType ==
  ASSUME LaidText, NEW L \in SUBSET Blocks, NEW p \in 0..Len(text)
  PROVE  Piece(L, p) \in Seq(TokenType)
<1>1. p \in Nat
  BY DEF LaidText
<1>2. Copies(Cardinality(EndsAt(L, p)), p) \in Seq(TokenType)
  BY <1>1, EndsAtCount, CopiesFacts
<1> QED
  BY <1>2, SpelledType, ConcatProperties DEF Piece

(***************************************************************************)
(* One more bracket; and on to the next place where something may be.      *)
(***************************************************************************)
LEMMA WriteClose ==
  ASSUME NEW L, NEW p \in Nat, NEW toks, NEW k \in Nat, Written(L, p, toks, k)
  PROVE  Written(L, p, Append(toks, Closed(p)), k + 1)
<1>1. PICK g : WrittenBy(g, L, p) /\ toks = g[p] \o Copies(k, p)
  BY DEF Written
<1> DEFINE c == Copies(k, p)
<1>2. g[p] \in Seq(TokenType)
  BY <1>1 DEF WrittenBy
<1>3. c \in Seq(TokenType) /\ Append(c, Closed(p)) = Copies(k + 1, p) /\ Closed(p) \in TokenType
  BY CopiesFacts
<1> HIDE DEF c
<1>4. Append(g[p] \o c, Closed(p)) = g[p] \o Append(c, Closed(p))
  <2>1. <<Closed(p)>> \in Seq(TokenType)
    BY <1>3
  <2>2. Append(c, Closed(p)) = c \o <<Closed(p)>>
    BY <1>3, AppendIsConcat
  <2>3. g[p] \o c \in Seq(TokenType)
    BY <1>2, <1>3, ConcatProperties
  <2>4. Append(g[p] \o c, Closed(p)) = (g[p] \o c) \o <<Closed(p)>>
    BY <1>3, <2>3, AppendIsConcat
  <2>5. (g[p] \o c) \o <<Closed(p)>> = g[p] \o (c \o <<Closed(p)>>)
    BY <1>2, <1>3, <2>1, Regroup
  <2> QED
    BY <2>2, <2>4, <2>5
<1> QED
  BY <1>1, <1>3, <1>4 DEF Written, c

LEMMA WriteOn ==
  ASSUME LaidText, NEW L \in SUBSET Blocks, NEW M \in SUBSET Blocks,
         NEW p \in 0..Len(text), NEW q \in (p+1)..Len(text), Quiet(p, q),
         L \ {p} = M \ {p},
         NEW toks, Written(L, p, toks, Cardinality(EndsAt(L, p)))
  PROVE  Written(M, q, toks \o Spelled(p), 0)
<1> DEFINE k == Cardinality(EndsAt(L, p))
           done == toks \o Spelled(p)
<1>0. Len(text) \in Nat /\ p \in Nat /\ q \in Nat /\ p < q /\ q <= Len(text) /\ k \in Nat
  BY EndsAtCount DEF LaidText
<1>1. PICK g : WrittenBy(g, L, p) /\ toks = g[p] \o Copies(k, p)
  BY DEF Written
<1>2. /\ g \in [0..p -> Seq(TokenType)] /\ g[0] = <<>>
      /\ \A i \in 1..p : g[i] = g[i-1] \o Piece(L, i-1)
  BY <1>1 DEF WrittenBy
<1>3. /\ g[p] \in Seq(TokenType) /\ Copies(k, p) \in Seq(TokenType)
      /\ Spelled(p) \in Seq(TokenType)
  <2>1. p \in 0..p
    BY <1>0
  <2>2. g[p] \in Seq(TokenType)
    BY <1>2, <2>1
  <2>3. Copies(k, p) \in Seq(TokenType)
    BY <1>0, CopiesFacts
  <2> QED
    BY <2>2, <2>3, SpelledType
<1>4. done \in Seq(TokenType) /\ done = g[p] \o Piece(L, p)
  <2>1. toks \in Seq(TokenType)
    BY <1>1, <1>3, ConcatProperties
  <2>2. done \in Seq(TokenType)
    BY <1>3, <2>1, ConcatProperties
  <2>3. (g[p] \o Copies(k, p)) \o Spelled(p) = g[p] \o (Copies(k, p) \o Spelled(p))
    BY <1>3, Regroup
  <2> QED
    BY <1>1, <2>2, <2>3 DEF Piece
<1>5. ASSUME NEW j \in 0..p PROVE Piece(L, j) = Piece(M, j)
  <2>1. j \in 0..Len(text) /\ j <= p
    BY <1>0
  <2>2. ASSUME NEW c \in Blocks, Ending(c, LineStarts) = j PROVE c # p
    <3>1. c \in EndsAt(Blocks, j)
      BY <2>2 DEF EndsAt
    <3>2. c \in Before(Blocks, j)
      BY <2>1, <3>1, EndsAtFacts
    <3>3. c \in Nat /\ c < j
      BY <3>2, BlockFacts DEF Before, Reaches
    <3> QED
      BY <1>0, <2>1, <3>3
  <2>3. EndsAt(L, j) = EndsAt(M, j)
    BY <2>2 DEF EndsAt
  <2> QED
    BY <2>3 DEF Piece
<1>6. ASSUME NEW j \in (p+1)..(q-1) PROVE Piece(M, j) = <<>>
  <2>1. EndsAt(M, j) = {} /\ Spelled(j) = <<>>
    BY <1>6, AcrossQuiet DEF Quiet
  <2>2. Copies(0, j) = <<>>
    BY <1>0, CopiesFacts
  <2> QED
    BY <2>1, <2>2, FS_EmptySet DEF Piece
<1> DEFINE h == [i \in 0..q |-> IF i <= p THEN g[i] ELSE done]
<1> HIDE DEF done, k
<1>7. h \in [0..q -> Seq(TokenType)]
  <2>1. \A i \in 0..q : i <= p => i \in 0..p
    BY <1>0
  <2> QED
    BY <1>2, <1>4, <2>1
<1>8. h[0] = <<>> /\ h[q] = done
  BY <1>0, <1>2
<1>9. ASSUME NEW i \in 1..q PROVE h[i] = h[i-1] \o Piece(M, i-1)
  <2>0. i \in Nat /\ i - 1 \in 0..q /\ i \in 0..q
    BY <1>0
  <2>1. CASE i <= p
    <3>1. i \in 1..p /\ i - 1 \in 0..p
      BY <1>0, <2>0, <2>1
    <3>2. h[i] = g[i] /\ h[i-1] = g[i-1]
      BY <2>0, <2>1, <3>1
    <3> QED
      BY <1>2, <1>5, <3>1, <3>2
  <2>2. CASE i = p + 1
    <3>1. h[i] = done /\ h[i-1] = g[p] /\ i - 1 = p /\ p \in 0..p
      BY <1>0, <2>0, <2>2
    <3> QED
      BY <1>4, <1>5, <3>1
  <2>3. CASE i > p + 1
    <3>1. h[i] = done /\ h[i-1] = done /\ i - 1 \in (p+1)..(q-1)
      BY <1>0, <2>0, <2>3
    <3>2. done \o <<>> = done
      BY <1>4, ConcatEmptySeq
    <3> QED
      BY <1>6, <3>1, <3>2
  <2>4. i <= p \/ i = p + 1 \/ i > p + 1
    BY <1>0, <2>0
  <2> QED
    BY <2>1, <2>2, <2>3, <2>4
<1> HIDE DEF h
<1>10. WrittenBy(h, M, q)
  BY <1>7, <1>8, <1>9 DEF WrittenBy
<1>11. done = h[q] \o Copies(0, q)
  BY <1>0, <1>4, <1>8, CopiesFacts, ConcatEmptySeq
<1> QED
  BY <1>10, <1>11 DEF Written, done

(***************************************************************************)
(* At the end of the text it is all of Offside.                            *)
(***************************************************************************)
LEMMA WrittenOut ==
  ASSUME LaidText, NEW toks,
         Written(Blocks \ forgotten, Len(text), toks,
                 Cardinality(EndsAt(Blocks \ forgotten, Len(text))))
  PROVE  toks = Offside
<1> DEFINE L == Blocks \ forgotten
           n == Len(text)
           s == [i \in 1..(n + 1) |-> Piece(L, i-1)]
<1>0. n \in Nat /\ L \in SUBSET Blocks
  BY DEF LaidText
<1>1. Offside = FlattenSeq(s)
  <2> DEFINE ending == [c \in L |-> Ending(c, LineStarts)]
             closes(p) == [i \in 1..Cardinality({c \in DOMAIN ending : ending[c] = p}) |-> Closed(p)]
  <2>1. \A p : {c \in DOMAIN ending : ending[c] = p} = EndsAt(L, p)
    BY DEF EndsAt
  <2>2. \A p : closes(p) = Copies(Cardinality(EndsAt(L, p)), p)
    BY <2>1 DEF Copies
  <2>3. Offside = FlattenSeq([i \in 1..(n + 1) |-> closes(i-1) \o Spelled(i-1)])
    BY DEF Offside
  <2> HIDE DEF closes, L, n
  <2>4. [i \in 1..(n + 1) |-> closes(i-1) \o Spelled(i-1)] = s
    BY <2>2 DEF Piece
  <2> QED
    BY <2>3, <2>4
<1> HIDE DEF L, n
<1>2. PICK g : WrittenBy(g, L, n) /\ toks = g[n] \o Copies(Cardinality(EndsAt(L, n)), n)
  BY DEF Written, L, n
<1>3. /\ g \in [0..n -> Seq(TokenType)] /\ g[0] = <<>>
      /\ \A i \in 1..n : g[i] = g[i-1] \o Piece(L, i-1)
  BY <1>2 DEF WrittenBy
<1>4. Piece(L, n) = Copies(Cardinality(EndsAt(L, n)), n) /\ toks = g[n] \o Piece(L, n)
  <2>1. Copies(Cardinality(EndsAt(L, n)), n) \in Seq(TokenType)
    BY <1>0, EndsAtCount, CopiesFacts
  <2>2. Spelled(n) = <<>>
    BY <1>0, SpelledType DEF n
  <2> QED
    BY <1>2, <2>1, <2>2, ConcatEmptySeq DEF Piece
<1> DEFINE h == [i \in 0..(n + 1) |-> IF i <= n THEN g[i] ELSE toks]
<1>5. h[0] = <<>> /\ \A i \in 1..(n + 1) : h[i] = h[i-1] \o Piece(L, i-1)
  <2>1. h[0] = <<>>
    BY <1>0, <1>3
  <2>2. ASSUME NEW i \in 1..(n + 1) PROVE h[i] = h[i-1] \o Piece(L, i-1)
    <3>1. CASE i = n + 1
      <4>1. i \in 0..(n+1) /\ i - 1 = n /\ n \in 0..(n+1) /\ ~(i <= n)
        BY <1>0, <3>1
      <4>2. h[i] = toks /\ h[n] = g[n]
        BY <1>0, <4>1
      <4> QED
        BY <1>4, <4>1, <4>2
    <3>2. CASE i # n + 1
      <4>1. i \in 1..n /\ i \in 0..(n+1) /\ i - 1 \in 0..(n+1) /\ i <= n /\ i - 1 <= n
        BY <1>0, <3>2
      <4>2. h[i] = g[i] /\ h[i-1] = g[i-1]
        BY <4>1
      <4> QED
        BY <1>3, <4>1, <4>2
    <3> QED
      BY <3>1, <3>2
  <2> QED
    BY <2>1, <2>2
<1>6. h[n + 1] = toks
  BY <1>0
<1> HIDE DEF h
<1> DEFINE Flattens(f) == f = [i \in 1..Len(s) |-> IF i = 1 THEN s[i] ELSE f[i-1] \o s[i]]
<1>7. Len(s) = n + 1 /\ \A i \in 1..(n+1) : s[i] = Piece(L, i-1)
  BY <1>0
<1> HIDE DEF s
<1>8. h[1] = s[1]
  <2>1. 1 \in 1..(n+1) /\ 1 - 1 = 0 /\ 0 \in 0..Len(text)
    BY <1>0 DEF n
  <2>2. Piece(L, 0) \in Seq(TokenType)
    BY <1>0, <2>1, PieceType
  <2>3. h[1] = <<>> \o Piece(L, 0)
    BY <1>5, <2>1
  <2> QED
    BY <1>7, <2>1, <2>2, <2>3, ConcatEmptySeq
<1>9. \E f : Flattens(f)
  <2> DEFINE f == [i \in 1..(n+1) |-> h[i]]
  <2>1. \A i \in 1..(n+1) : i # 1 => i - 1 \in 1..(n+1)
    BY <1>0
  <2>2. \A i \in 1..(n+1) : f[i] = IF i = 1 THEN s[i] ELSE f[i-1] \o s[i]
    BY <1>5, <1>7, <1>8, <2>1
  <2>3. f = [i \in 1..(n+1) |-> f[i]]
    OBVIOUS
  <2> HIDE DEF f
  <2>4. f = [i \in 1..(n+1) |-> IF i = 1 THEN s[i] ELSE f[i-1] \o s[i]]
    BY <2>2, <2>3
  <2> QED
    BY <1>7, <2>4
<1> DEFINE flatten == CHOOSE f : Flattens(f)
<1>10. Flattens(flatten)
  BY <1>9
<1>11. FlattenSeq(s) = flatten[n + 1]
  <2>1. Len(s) # 0
    BY <1>0, <1>7
  <2> QED
    BY <1>7, <2>1 DEF FlattenSeq
<1> HIDE DEF flatten
<1>12. \A i \in 1..(n+1) : flatten[i] = IF i = 1 THEN s[i] ELSE flatten[i-1] \o s[i]
  BY <1>7, <1>10
<1>13. flatten[n + 1] = h[n + 1]
  <2> DEFINE a == [i \in 0..n |-> flatten[i+1]]
             b == [i \in 0..n |-> h[i+1]]
  <2>1. a[0] = b[0]
    BY <1>0, <1>8, <1>12
  <2>2. ASSUME NEW i \in 1..n, a[i-1] = b[i-1] PROVE a[i] = b[i]
    <3>1. i + 1 \in 1..(n+1) /\ i + 1 # 1 /\ (i+1) - 1 = i /\ i - 1 \in 0..n /\ (i-1) + 1 = i /\ i \in 0..n
      BY <1>0
    <3>2. flatten[i] = h[i]
      BY <2>2, <3>1
    <3>3. flatten[i+1] = flatten[i] \o s[i+1]
      BY <1>12, <3>1
    <3>4. h[i+1] = h[i] \o s[i+1]
      BY <1>5, <1>7, <3>1
    <3> QED
      BY <3>1, <3>2, <3>3, <3>4
  <2>3. a[n] = flatten[n+1] /\ b[n] = h[n+1] /\ n \in 0..n
    BY <1>0
  <2> HIDE DEF a, b
  <2>4. \A i \in 0..n : a[i] = b[i]
    BY <1>0, <2>1, <2>2, RunUnique
  <2> QED
    BY <2>3, <2>4
<1> QED
  BY <1>1, <1>6, <1>11, <1>13

-----------------------------------------------------------------------------
(***************************************************************************)
(* The inductive strengthening of LayoutIsOffside.  Between two turns the  *)
(* indent is that of the line, the stack matches the blocks of L that are  *)
(* open, and what Offside has up to pos has been returned, but for the     *)
(* brackets that are due or, when the text has ended, still on the stack.  *)
(***************************************************************************)
DueAt(p, inds, ret) == (IF p = Len(text) THEN Len(inds) ELSE 0) - ret

LayAt(L, p, ind, inds, ret, toks, st) ==
  /\ PlaceOK(p)
  /\ p < Len(text) => ind = Depth(p) /\ Matches(inds, OpenAt(L, p))
  /\ \E k \in Nat : /\ Written(L, p, toks, k)
                    /\ k + DueAt(p, inds, ret) = Cardinality(EndsAt(L, p))
  /\ st = "done" => p = Len(text) /\ inds = <<>> /\ ret = 0

LayInv ==
  Laid /\ status # "error" =>
    LayAt(Blocks \ forgotten, pos, indent, indents, returning, tokens, status)

LEMMA LayOffside ==
  ASSUME TypeOK, LayInv
  PROVE  LayoutIsOffside
<1> SUFFICES ASSUME status = "done", Laid PROVE tokens = Offside
  BY DEF LayoutIsOffside, Laid
<1> DEFINE L == Blocks \ forgotten
<1>1. LaidText
  BY DEF LaidText, TypeOK
<1>2. LayAt(L, pos, indent, indents, returning, tokens, status)
  BY DEF LayInv
<1>3. pos = Len(text) /\ indents = <<>> /\ returning = 0
  BY <1>2 DEF LayAt
<1>4. PICK k \in Nat : /\ Written(L, pos, tokens, k)
                       /\ k + DueAt(pos, indents, returning) = Cardinality(EndsAt(L, pos))
  BY <1>2 DEF LayAt
<1>5. DueAt(pos, indents, returning) = 0
  BY <1>3 DEF DueAt
<1>6. Written(L, Len(text), tokens, Cardinality(EndsAt(L, Len(text))))
  BY <1>3, <1>4, <1>5
<1> QED
  BY <1>1, <1>6, WrittenOut

(***************************************************************************)
(* On along the line: the stack changes only by the block that p opens.    *)
(***************************************************************************)
LEMMA OnAlongLine ==
  ASSUME LaidText, NEW L \in SUBSET Blocks, NEW M \in SUBSET Blocks,
         NEW p \in Nat, p < Len(text), NEW q, Moves(p, q), q \notin LineStarts,
         L \ {p} = M \ {p},
         NEW ind, NEW inds, NEW ons \in Seq(Nat), NEW toks,
         LayAt(L, p, ind, inds, 0, toks, "run"),
         Matches(ons, OpenAt(L, p) \cup (M \cap {p}))
  PROVE  LayAt(M, q, ind, ons, 0, toks \o Spelled(p), "run")
<1>0. /\ Len(text) \in Nat /\ p \in 0..Len(text) /\ p # Len(text)
      /\ q \in (p+1)..Len(text) /\ q \in 0..Len(text) /\ q \in Nat /\ Quiet(p, q) /\ PlaceOK(q)
  BY DEF LaidText, Moves
<1>1. Written(M, q, toks \o Spelled(p), 0)
  <2>1. PICK k \in Nat : /\ Written(L, p, toks, k)
                         /\ k + DueAt(p, inds, 0) = Cardinality(EndsAt(L, p))
    BY DEF LayAt
  <2>2. k = Cardinality(EndsAt(L, p))
    BY <1>0, <2>1 DEF DueAt
  <2> QED
    BY <1>0, <2>1, <2>2, WriteOn
<1>2. OpenAt(M, p) = OpenAt(L, p)
  <2>1. \A c : Reaches(c, p) => c # p
    BY <1>0 DEF Reaches
  <2>2. \A c \in L : c # p => c \in M
    OBVIOUS
  <2>3. \A c \in M : c # p => c \in L
    OBVIOUS
  <2>4. Before(M, p) = Before(L, p)
    BY <2>1, <2>2, <2>3 DEF Before
  <2> QED
    BY <2>4 DEF OpenAt
<1>3. Before(M, q) = OpenAt(L, p) \cup (M \cap {p})
  BY <1>0, <1>2, AcrossQuiet
<1>4. Matches(ons, Before(M, q))
  BY <1>3
<1>5. q < Len(text) => ind = Depth(q) /\ Matches(ons, OpenAt(M, q))
  <2>1. ind = Depth(p)
    BY DEF LayAt
  <2>2. ind = Depth(q)
    BY <1>0, <2>1, DepthAcrossQuiet
  <2>3. OpenAt(M, q) = Before(M, q)
    BY DEF OpenAt
  <2> QED
    BY <1>4, <2>2, <2>3
<1>6. 0 + DueAt(q, ons, 0) = Cardinality(EndsAt(M, q))
  <2>0. Len(ons) \in Nat
    OBVIOUS
  <2>1. CASE q = Len(text)
    <3>1. EndsAt(M, q) = Before(M, q)
      <4>1. EndsAt(M, q) = {c \in Before(M, q) : EndsThere(c, q)}
        BY <1>0, EndsAtFacts
      <4>2. \A c : EndsThere(c, q)
        BY <2>1 DEF EndsThere
      <4> QED
        BY <4>1, <4>2
    <3>2. Cardinality(Before(M, q)) = Len(ons)
      BY <1>4, MatchCount
    <3> QED
      BY <2>0, <2>1, <3>1, <3>2 DEF DueAt
  <2>2. CASE q # Len(text)
    <3>1. EndsAt(M, q) = {}
      BY <1>0, <2>2, EndsAtFacts DEF EndsThere
    <3> QED
      BY <2>2, <3>1, FS_EmptySet DEF DueAt
  <2> QED
    BY <2>1, <2>2
<1> QED
  BY <1>0, <1>1, <1>5, <1>6 DEF LayAt

(***************************************************************************)
(* On to a line: what is popped are the blocks it ends.                    *)
(***************************************************************************)
LEMMA OnToLine ==
  ASSUME LaidText, NEW L \in SUBSET Blocks,
         NEW p \in Nat, p < Len(text), NEW q, Moves(p, q), q \in LineStarts,
         p \notin L, Spelled(p) = <<>>,
         NEW ind, NEW inds \in Seq(Nat), NEW toks \in Seq(TokenType),
         LayAt(L, p, ind, inds, 0, toks, "run"),
         Margin(q) \in Nat, NEW kept \in 0..Len(inds),
         \A i \in 1..kept : inds[i] < Margin(q),
         \A i \in (kept+1)..Len(inds) : inds[i] >= Margin(q)
  PROVE  LayAt(L, q, Margin(q), SubSeq(inds, 1, kept), kept - Len(inds), toks, "run")
<1> DEFINE n == Margin(q)
           S == OpenAt(L, p)
           left == SubSeq(inds, 1, kept)
<1>0. /\ Len(text) \in Nat /\ p \in 0..Len(text) /\ p # Len(text)
      /\ q \in (p+1)..Len(text) /\ q \in 0..Len(text) /\ q \in Nat /\ Quiet(p, q) /\ PlaceOK(q)
  BY DEF LaidText, Moves
<1>1. Written(L, q, toks, 0)
  <2>1. PICK k \in Nat : /\ Written(L, p, toks, k)
                         /\ k + DueAt(p, inds, 0) = Cardinality(EndsAt(L, p))
    BY DEF LayAt
  <2>2. k = Cardinality(EndsAt(L, p))
    BY <1>0, <2>1 DEF DueAt
  <2>3. toks \o Spelled(p) = toks
    BY ConcatEmptySeq
  <2>4. Written(L, q, toks \o Spelled(p), 0)
    BY <1>0, <2>1, <2>2, WriteOn
  <2> QED
    BY <2>3, <2>4
<1>2. Before(L, q) = S
  <2>1. Before(L, q) = OpenAt(L, p) \cup (L \cap {p})
    BY <1>0, AcrossQuiet
  <2>2. L \cap {p} = {}
    OBVIOUS
  <2> QED
    BY <2>1, <2>2
<1>3. Matches(inds, S)
  BY DEF LayAt
<1>4. /\ Len(inds) \in Nat /\ kept \in Nat /\ kept <= Len(inds) /\ Len(left) = kept /\ n \in Nat
      /\ \A i \in 1..kept : inds[i] < n
      /\ \A i \in (kept+1)..Len(inds) : inds[i] >= n
  OBVIOUS
<1> HIDE DEF n, S, left
<1>5. /\ Matches(left, {c \in S : ~(n <= Depth(c))})
      /\ Cardinality({c \in S : n <= Depth(c)}) = Len(inds) - kept
  BY <1>3, <1>4, MatchPop DEF left
<1>6. q < Len(text) => n = Depth(q) /\ Matches(left, OpenAt(L, q))
  <2>1. n = Depth(q)
    BY <1>0, DepthAcrossQuiet DEF n
  <2>2. OpenAt(L, q) = {c \in S : ~(n <= Depth(c))}
    BY <1>2 DEF OpenAt, n
  <2> QED
    BY <1>5, <2>1, <2>2
<1>7. 0 + DueAt(q, left, kept - Len(inds)) = Cardinality(EndsAt(L, q))
  <2>1. CASE q = Len(text)
    <3>1. EndsAt(L, q) = S
      <4>1. EndsAt(L, q) = {c \in Before(L, q) : EndsThere(c, q)}
        BY <1>0, EndsAtFacts
      <4>2. \A c : EndsThere(c, q)
        BY <2>1 DEF EndsThere
      <4> QED
        BY <1>2, <4>1, <4>2
    <3>2. Cardinality(S) = Len(inds)
      BY <1>3, MatchCount
    <3> QED
      BY <1>4, <2>1, <3>1, <3>2 DEF DueAt
  <2>2. CASE q # Len(text)
    <3>1. EndsAt(L, q) = {c \in S : n <= Depth(c)}
      BY <1>0, <1>2, <2>2, EndsAtFacts DEF EndsThere, n
    <3> QED
      BY <1>4, <1>5, <2>2, <3>1 DEF DueAt
  <2> QED
    BY <2>1, <2>2
<1> QED
  BY <1>0, <1>1, <1>6, <1>7 DEF LayAt, n, left

-----------------------------------------------------------------------------
(***************************************************************************)
(* Each step of the lexer.                                                 *)
(***************************************************************************)
LayNext ==
  LayAt(Blocks \ forgotten', pos', indent', indents', returning', tokens', status')

LEMMA LayTypes ==
  ASSUME TypeOK, Laid
  PROVE  /\ LaidText /\ Len(text) \in Nat /\ pos \in Nat /\ pos <= Len(text)
         /\ pos \in 0..Len(text) /\ pos \notin forgotten
         /\ indents \in Seq(Nat) /\ Len(indents) \in Nat /\ indent \in Nat
         /\ returning \in Int /\ tokens \in Seq(TokenType)
         /\ (At(pos) # "end" <=> pos < Len(text))
<1>1. text \in Seq(Chars) /\ pos \in Nat
  BY DEF TypeOK
<1> QED
  BY <1>1, AtFacts DEF TypeOK, LaidText, TokenType

LEMMA LayReturnClose ==
  ASSUME TypeOK, LayInv, Laid, ReturnClose
  PROVE  LayNext
<1> DEFINE L == Blocks \ forgotten
<1>1. /\ status = "run" /\ returning < 0 /\ returning' = returning + 1
      /\ tokens' = Append(tokens, Closed(pos))
      /\ UNCHANGED <<pos, indent, indents, forgotten, status>>
  BY DEF ReturnClose
<1>2. LayAt(L, pos, indent, indents, returning, tokens, "run")
  BY <1>1 DEF LayInv
<1>3. PICK k \in Nat : /\ Written(L, pos, tokens, k)
                       /\ k + DueAt(pos, indents, returning) = Cardinality(EndsAt(L, pos))
  BY <1>2 DEF LayAt
<1>4. Written(L, pos, Append(tokens, Closed(pos)), k + 1)
  BY <1>3, LayTypes, WriteClose
<1>5. (k + 1) + DueAt(pos, indents, returning + 1) = Cardinality(EndsAt(L, pos))
  BY <1>3, LayTypes DEF DueAt
<1>6. PlaceOK(pos) /\ (pos < Len(text) => indent = Depth(pos) /\ Matches(indents, OpenAt(L, pos)))
  BY <1>2 DEF LayAt
<1>7. k + 1 \in Nat
  OBVIOUS
<1>8. LayAt(L, pos, indent, indents, returning + 1, Append(tokens, Closed(pos)), "run")
  BY <1>4, <1>5, <1>6, <1>7 DEF LayAt
<1> QED
  BY <1>1, <1>8 DEF LayNext

LEMMA LayEndOfText ==
  ASSUME TypeOK, LayInv, Laid, EndOfText
  PROVE  LayNext
<1> DEFINE L == Blocks \ forgotten
<1>1. /\ status = "run" /\ returning = 0 /\ At(pos) = "end"
      /\ indents' = <<>> /\ returning' = 0 - Len(indents)
      /\ status' = IF indents = <<>> THEN "done" ELSE "run"
      /\ UNCHANGED <<pos, tokens, forgotten>>
  BY DEF EndOfText, Looking
<1>2. LayAt(L, pos, indent, indents, 0, tokens, "run")
  BY <1>1 DEF LayInv
<1>3. PICK k \in Nat : /\ Written(L, pos, tokens, k)
                       /\ k + DueAt(pos, indents, 0) = Cardinality(EndsAt(L, pos))
  BY <1>2 DEF LayAt
<1>4. pos = Len(text)
  BY <1>1, LayTypes
<1>5. Len(<<>>) = 0
  OBVIOUS
<1>6. DueAt(pos, <<>>, 0 - Len(indents)) = DueAt(pos, indents, 0)
  BY <1>4, <1>5, LayTypes DEF DueAt
<1>7. status' = "done" => returning' = 0
  BY <1>1, <1>5
<1>8. PlaceOK(pos) /\ ~(pos < Len(text))
  BY <1>2, <1>4, LayTypes DEF LayAt
<1>9. LayAt(L, pos, indent', <<>>, 0 - Len(indents), tokens, status')
  BY <1>1, <1>3, <1>4, <1>6, <1>7, <1>8 DEF LayAt
<1> QED
  BY <1>1, <1>9 DEF LayNext

LEMMA LaySameStack ==
  ASSUME TypeOK, LayInv, Laid, Whitespace \/ Comment \/ Name
  PROVE  LayNext
<1> DEFINE L == Blocks \ forgotten
<1>1. /\ status = "run" /\ returning = 0 /\ pos < Len(text)
      /\ At(pos) \in {"blank", "tab", "hash", "letter", "under"}
      /\ UNCHANGED <<indent, indents, returning, forgotten, status>>
  BY LayTypes DEF Whitespace, Comment, Name, Looking, Take
<1>2. LayAt(L, pos, indent, indents, 0, tokens, "run")
  BY <1>1 DEF LayInv
<1>3. PlaceOK(pos) /\ Matches(indents, OpenAt(L, pos))
  BY <1>1, <1>2 DEF LayAt
<1>4. At(pos) \in {"letter", "colon", "hash", "blank", "newline"}
  BY <1>1, LayTypes, LaidAt
<1>5. Moves(pos, pos') /\ pos' \notin LineStarts /\ tokens' = tokens \o Spelled(pos)
  <2>1. CASE Whitespace
    <3>1. At(pos) = "blank" /\ pos' = RunEnd(Chars \ Graph, pos) /\ tokens' = tokens
      BY <1>4, <2>1 DEF Whitespace, Looking
    <3>2. Moves(pos, pos') /\ pos' \notin LineStarts /\ Spelled(pos) = <<>>
      BY <1>1, <1>3, <3>1, LayTypes, WhitespaceMoves
    <3> QED
      BY <3>1, <3>2, LayTypes, ConcatEmptySeq
  <2>2. CASE Comment
    <3>1. At(pos) = "hash" /\ pos' = RunEnd(Chars \ {"newline"}, pos) /\ tokens' = tokens
      BY <2>2 DEF Comment, Looking
    <3>2. Moves(pos, pos') /\ pos' \notin LineStarts /\ Spelled(pos) = <<>>
      BY <1>1, <3>1, LayTypes, CommentMoves
    <3> QED
      BY <3>1, <3>2, LayTypes, ConcatEmptySeq
  <2>3. CASE Name
    <3>1. /\ At(pos) = "letter" /\ pos' = RunEnd(Letters \cup {"under"}, pos)
          /\ tokens' = Append(tokens, Token("name", pos, pos'))
      BY <1>4, <2>3 DEF Name, Looking, Take
    <3>2. /\ Moves(pos, pos') /\ pos' \notin LineStarts
          /\ Spelled(pos) = <<Token("name", pos, pos')>>
      BY <1>1, <1>3, <3>1, LayTypes, NameMoves
    <3>3. Token("name", pos, pos') \in TokenType
      <4>1. pos' \in Nat
        BY <3>2, LayTypes DEF Moves
      <4> QED
        BY <4>1, LayTypes DEF Token, TokenType, Kinds
    <3> QED
      BY <3>1, <3>2, <3>3, LayTypes, AppendIsConcat
  <2> QED
    BY <2>1, <2>2, <2>3
<1>6. L \cap {pos} = {}
  <2>1. At(pos) # "colon"
    BY <1>1
  <2> QED
    BY <2>1 DEF Blocks
<1>7. Matches(indents, OpenAt(L, pos) \cup (L \cap {pos}))
  BY <1>3, <1>6
<1>8. LayAt(L, pos', indent, indents, 0, tokens \o Spelled(pos), "run")
  <2>1. L \in SUBSET Blocks
    OBVIOUS
  <2> HIDE DEF L
  <2> QED
    BY <1>1, <1>2, <1>5, <1>7, <2>1, LayTypes, OnAlongLine
<1> QED
  BY <1>1, <1>5, <1>8 DEF LayNext

LEMMA LayColon ==
  ASSUME TypeOK, LayInv, Laid, Colon
  PROVE  LayNext
<1> DEFINE L == Blocks \ forgotten
           M == Blocks \ forgotten'
<1>1. /\ status = "run" /\ returning = 0 /\ At(pos) = "colon" /\ pos < Len(text)
      /\ pos' = pos + 1 /\ tokens' = Append(tokens, Opened(pos))
      /\ UNCHANGED <<indent, returning, status>>
  BY LayTypes DEF Colon, Looking
<1>2. LayAt(L, pos, indent, indents, 0, tokens, "run")
  BY <1>1 DEF LayInv
<1>3. PlaceOK(pos) /\ Matches(indents, OpenAt(L, pos)) /\ indent = Depth(pos)
  BY <1>1, <1>2 DEF LayAt
<1>4. /\ Moves(pos, pos') /\ pos' \notin LineStarts
      /\ Spelled(pos) = <<Opened(pos)>> /\ pos \in Blocks
  BY <1>1, <1>3, LayTypes, ColonMoves
<1>5. tokens' = tokens \o Spelled(pos)
  <2>1. Opened(pos) \in TokenType
    BY LayTypes DEF Opened, Token, TokenType, Kinds
  <2> QED
    BY <1>1, <1>4, <2>1, LayTypes, AppendIsConcat
<1>6. /\ indents' \in Seq(Nat) /\ L \ {pos} = M \ {pos}
      /\ Matches(indents', OpenAt(L, pos) \cup (M \cap {pos}))
  <2>1. CASE PushIndent
    <3>1. indents' = Append(indents, indent) /\ forgotten' = forgotten
      BY <2>1 DEF PushIndent
    <3>2. M \cap {pos} = {pos} /\ M = L
      BY <1>4, <3>1, LayTypes
    <3>3. pos \notin OpenAt(L, pos)
      BY LayTypes DEF OpenAt, Before, Reaches
    <3>4. indents' \in Seq(Nat)
      BY <3>1, LayTypes, AppendProperties
    <3> HIDE DEF L, M
    <3>5. Matches(Append(indents, Depth(pos)), OpenAt(L, pos) \cup {pos})
      BY <1>3, <3>3, LayTypes, MatchPush
    <3> QED
      BY <1>3, <3>1, <3>2, <3>4, <3>5
  <2>2. CASE ReallocFails
    <3>1. indents' = indents /\ forgotten' = forgotten \cup {pos}
      BY <2>2 DEF ReallocFails
    <3>2. M \cap {pos} = {} /\ L \ {pos} = M \ {pos}
      BY <3>1
    <3> HIDE DEF L, M
    <3> QED
      BY <1>3, <3>1, <3>2, LayTypes
  <2> QED
    BY <2>1, <2>2 DEF Colon
<1>7. LayAt(M, pos', indent, indents', 0, tokens \o Spelled(pos), "run")
  <2>1. L \in SUBSET Blocks /\ M \in SUBSET Blocks
    OBVIOUS
  <2> HIDE DEF L, M
  <2> QED
    BY <1>1, <1>2, <1>4, <1>6, <2>1, LayTypes, OnAlongLine
<1> QED
  BY <1>1, <1>5, <1>7 DEF LayNext

LEMMA LayNewline ==
  ASSUME TypeOK, IndentsNest, LayInv, Laid, Newline, status' # "error"
  PROVE  LayNext
<1> DEFINE L == Blocks \ forgotten
           n == IndentAt(pos + 1)
<1>1. /\ status = "run" /\ returning = 0 /\ At(pos) = "newline" /\ pos < Len(text)
      /\ pos' = IndentEnd(pos + 1)
      /\ indent' = n /\ indents' = SubSeq(indents, 1, Kept(n))
      /\ returning' = Kept(n) - Len(indents)
      /\ UNCHANGED <<tokens, forgotten, status>>
  BY LayTypes DEF Newline, Looking
<1>2. LayAt(L, pos, indent, indents, 0, tokens, "run")
  BY <1>1 DEF LayInv
<1>3. PlaceOK(pos)
  BY <1>2 DEF LayAt
<1>4. /\ Moves(pos, pos') /\ Spelled(pos) = <<>>
      /\ pos' \in LineStarts /\ Margin(pos') = n
  BY <1>1, <1>3, LayTypes, NewlineMoves
<1>5. n \in Nat
  <2>1. text \in Seq(Chars) /\ pos + 1 \in 0..Len(text)
    BY <1>1, LayTypes DEF LaidText
  <2> QED
    BY <2>1, IndentAtType
<1> HIDE DEF n
<1>6. /\ Kept(n) \in 0..Len(indents)
      /\ Kept(n) > 0 => indents[Kept(n)] < n
      /\ \A i \in (Kept(n) + 1)..Len(indents) : indents[i] >= n
  BY <1>5, LayTypes, KeptFacts
<1>7. \A i \in 1..Kept(n) : indents[i] < n
  <2> SUFFICES ASSUME NEW i \in 1..Kept(n) PROVE indents[i] < n
    OBVIOUS
  <2>1. /\ Kept(n) \in 1..Len(indents) /\ i \in 1..Len(indents) /\ i \in Nat
        /\ Kept(n) \in Nat /\ i <= Kept(n) /\ Kept(n) > 0
    BY <1>6, LayTypes
  <2>2. i < Kept(n) => indents[i] <= indents[Kept(n)]
    BY <1>1, <2>1 DEF IndentsNest
  <2>3. indents[i] \in Nat /\ indents[Kept(n)] \in Nat
    BY <2>1, LayTypes, ElementOfSeq
  <2> QED
    BY <1>5, <1>6, <2>1, <2>2, <2>3
<1>8. pos \notin L
  <2>1. At(pos) # "colon"
    BY <1>1
  <2> QED
    BY <2>1 DEF Blocks
<1>9. LayAt(L, pos', n, SubSeq(indents, 1, Kept(n)), Kept(n) - Len(indents), tokens, "run")
  <2>1. L \in SUBSET Blocks
    OBVIOUS
  <2> HIDE DEF L
  <2> QED
    BY <1>1, <1>2, <1>4, <1>5, <1>6, <1>7, <1>8, <2>1, LayTypes, OnToLine
<1> QED
  BY <1>1, <1>9 DEF LayNext

(***************************************************************************)
(* What is said of a text does not change while the text does not.         *)
(***************************************************************************)
LEMMA SameText ==
  ASSUME text' = text
  PROVE  /\ Laid' <=> Laid
         /\ Blocks' = Blocks
         /\ \A L, p, ind, inds, ret, toks, st :
              LayAt(L, p, ind, inds, ret, toks, st)' <=> LayAt(L, p, ind, inds, ret, toks, st)
<1>1. \A p : At(p)' = At(p)
  BY DEF At
<1>2. Laid' <=> Laid
  BY <1>1 DEF Laid
<1>3. Blocks' = Blocks
  BY Zenon DEF Blocks, Commented, At
<1>4. LineStarts' = LineStarts
  BY ZenonT(60) DEF LineStarts, Commented, At
<1>5. ASSUME NEW c, NEW S PROVE Ending(c, S)' = Ending(c, S)
  BY ZenonT(60) DEF Ending, Margin, FirstGlyph, At
<1>6. ASSUME NEW c PROVE Margin(c)' = Margin(c)
  BY ZenonT(60) DEF Margin, FirstGlyph, At
<1>7. \A p : Commented(p)' <=> Commented(p)
  BY <1>1 DEF Commented
<1>8. ASSUME NEW p PROVE Spelled(p)' = Spelled(p)
  <2>1. RunEnd({"letter"}, p)' = RunEnd({"letter"}, p)
    BY Zenon DEF RunEnd, At
  <2> QED
    BY <1>1, <1>7, <2>1 DEF Spelled, Opened, Token
<1>9. \A p : PlaceOK(p)' <=> PlaceOK(p)
  BY <1>1, <1>7 DEF PlaceOK
<1>10. \A c : Depth(c)' = Depth(c)
  BY Zenon, <1>4, <1>6 DEF Depth
<1>11. \A L, p : OpenAt(L, p)' = OpenAt(L, p)
  BY Zenon, <1>4, <1>6, <1>10 DEF OpenAt, Before, Reaches
<1>12. \A L, p : EndsAt(L, p)' = EndsAt(L, p)
  BY Zenon, <1>4, <1>5 DEF EndsAt
<1>13. \A inds, S : Matches(inds, S)' <=> Matches(inds, S)
  BY Zenon, <1>10 DEF Matches, MatchedBy
<1>14. \A L, p : Piece(L, p)' = Piece(L, p)
  BY Zenon, <1>8, <1>12 DEF Piece, Copies, Closed, Token
<1>15. \A L, p, toks, k : Written(L, p, toks, k)' <=> Written(L, p, toks, k)
  BY Zenon, <1>14 DEF Written, WrittenBy, Copies, Closed, Token
<1>16. \A p, inds, ret : DueAt(p, inds, ret)' = DueAt(p, inds, ret)
  BY DEF DueAt
<1>17. ASSUME NEW L, NEW p, NEW ind, NEW inds, NEW ret, NEW toks, NEW st
       PROVE  LayAt(L, p, ind, inds, ret, toks, st)' <=> LayAt(L, p, ind, inds, ret, toks, st)
  <2>1. /\ Len(text)' = Len(text) /\ PlaceOK(p)' <=> PlaceOK(p)
        /\ Depth(p)' = Depth(p)
    BY <1>9, <1>10
  <2>2. Matches(inds, OpenAt(L, p))' <=> Matches(inds, OpenAt(L, p))
    BY <1>11, <1>13
  <2>3. (\E k \in Nat : /\ Written(L, p, toks, k)
                        /\ k + DueAt(p, inds, ret) = Cardinality(EndsAt(L, p)))' <=>
        (\E k \in Nat : /\ Written(L, p, toks, k)
                        /\ k + DueAt(p, inds, ret) = Cardinality(EndsAt(L, p)))
    BY <1>12, <1>15, <1>16
  <2> QED
    BY <2>1, <2>2, <2>3 DEF LayAt
<1> QED
  BY <1>2, <1>3, <1>17

LEMMA LayStep ==
  ASSUME TypeOK, IndentsNest, LayInv, Step
  PROVE  LayInv'
<1>1. text' = text
  BY Progress
<1>2. SUFFICES ASSUME Laid, status' # "error" PROVE LayNext
  <2>1. Laid' <=> Laid
    BY <1>1, SameText
  <2>2. LayAt(Blocks \ forgotten, pos, indent, indents, returning, tokens, status)' <=> LayNext
    BY <1>1, SameText DEF LayNext
  <2> QED
    BY <2>1, <2>2 DEF LayInv
<1>3. CASE Bracket \/ Number \/ Blockstr \/ Str \/ Op
  <2>1. At(pos) \in {"open", "close", "digit", "minus", "semi", "quote", "punct", "escape", "control"}
    BY <1>3 DEF Bracket, Number, Blockstr, Str, Op, Looking
  <2>2. pos < Len(text)
    BY <1>2, <2>1, LayTypes
  <2>3. At(pos) \in {"letter", "colon", "hash", "blank", "newline"}
    BY <1>2, <2>2, LayTypes, LaidAt
  <2> QED
    BY <2>1, <2>3
<1> QED
  BY <1>2, <1>3, LayReturnClose, LayEndOfText, LaySameStack, LayColon, LayNewline DEF Step

LEMMA LayInit == Init => LayInv
<1> SUFFICES ASSUME Init, Laid, status # "error"
             PROVE  LayAt(Blocks \ forgotten, pos, indent, indents, returning, tokens, status)
  BY DEF LayInv
<1> DEFINE L == Blocks \ forgotten
<1>0. /\ LaidText /\ text \in Seq(Chars) /\ Len(text) \in Nat /\ 0 \in 0..Len(text)
      /\ pos = IndentEnd(0) /\ indent = IndentAt(0)
      /\ indents = <<>> /\ returning = 0 /\ tokens = <<>> /\ status = "run"
  BY TextsAssumption DEF Init, LaidText
<1>1. /\ pos \in 0..Len(text)
      /\ \A k \in 0..(pos - 1) : At(k) \in {"blank", "newline"}
      /\ pos = Len(text) \/ At(pos) \notin {"blank", "newline"}
  BY <1>0, RunEndFacts DEF IndentEnd
<1>2. pos \in Nat /\ pos <= Len(text)
  BY <1>0, <1>1
<1>3. At(pos) \notin {"blank", "newline"}
  BY <1>0, <1>1, <1>2, LaidAt
<1>4. ASSUME NEW k \in 0..(pos - 1) PROVE ~Commented(k)
  <2>1. k \in Nat /\ 0 <= k /\ \A j \in 0..k : j \in 0..(pos - 1)
    BY <1>2
  <2>2. \A j \in 0..k : At(j) # "hash"
    BY <1>1, <2>1
  <2> QED
    BY <2>1, <2>2, NotCommented
<1>5. PlaceOK(pos)
  <2>1. pos = 0 \/ pos - 1 \in 0..(pos - 1)
    BY <1>2
  <2>2. pos = 0 \/ (~Commented(pos - 1) /\ At(pos - 1) # "letter")
    BY <1>1, <1>4, <2>1
  <2> QED
    BY <1>3, <2>2 DEF PlaceOK
<1>6. ASSUME NEW l \in LineStarts, l <= pos PROVE l = 0
  <2> SUFFICES ASSUME l # 0 PROVE FALSE
    OBVIOUS
  <2>0. l \in Nat
    BY StartFacts
  <2>1. PICK e \in 1..(l-1) : At(e-1) \in Graph \/ Commented(e-1)
    BY StartFacts
  <2>2. e - 1 \in 0..(pos - 1)
    BY <1>2, <1>6, <2>0
  <2> QED
    BY <1>1, <1>4, <2>1, <2>2, GlyphFacts
<1>7. ASSUME NEW k \in 0..(pos - 1) PROVE k \notin Blocks /\ Spelled(k) = <<>>
  BY <1>1, NothingSpelled DEF Blocks
<1>8. Before(L, pos) = {}
  <2> SUFFICES ASSUME NEW c \in Before(L, pos) PROVE FALSE
    OBVIOUS
  <2>1. c \in Blocks /\ c \in Nat /\ c < pos
    BY BlockFacts DEF Before, Reaches
  <2>2. c \in 0..(pos - 1)
    BY <1>2, <2>1
  <2> QED
    BY <1>7, <2>1, <2>2
<1>9. indent = Depth(pos)
  <2>1. {l \in LineStarts : l <= pos} = {0}
    <3>1. 0 \in LineStarts /\ 0 <= pos
      BY <1>2, StartFacts
    <3> QED
      BY <1>6, <3>1
  <2>2. Max({0}) = 0
    <3>1. {0} \in SUBSET Nat /\ 0 \in {0} /\ \A k \in {0} : 0 >= k
      OBVIOUS
    <3> QED
      BY <3>1, MaxIs
  <2>3. FirstGlyph(0) = pos
    <3> DEFINE First(p) == /\ At(p) \notin {"blank", "newline"}
                           /\ \A k \in 0..(p-1) : At(k) \in {"blank", "newline"}
    <3>1. First(pos)
      BY <1>1, <1>3
    <3>2. ASSUME NEW p \in 0..Len(text), First(p) PROVE p = pos
      <4>1. p \in Nat
        BY <1>0
      <4>2. p < pos => p \in 0..(pos - 1)
        BY <1>2, <4>1
      <4>3. pos < p => pos \in 0..(p - 1)
        BY <1>2, <4>1
      <4> QED
        BY <1>1, <1>2, <1>3, <3>2, <4>1, <4>2, <4>3
    <3>3. FirstGlyph(0) = CHOOSE p \in 0..Len(text) : First(p)
      BY DEF FirstGlyph
    <3> HIDE DEF First
    <3> QED
      BY <1>1, <3>1, <3>2, <3>3
  <2>4. Margin(0) = IndentAt(0)
    BY <1>0, <2>3 DEF Margin, IndentAt
  <2> QED
    BY <1>0, <2>1, <2>2, <2>4 DEF Depth
<1>10. OpenAt(L, pos) = {} /\ EndsAt(L, pos) = {}
  <2>1. EndsAt(L, pos) = {c \in Before(L, pos) : EndsThere(c, pos)}
    BY <1>0, <1>1, EndsAtFacts
  <2> QED
    BY <1>8, <2>1 DEF OpenAt
<1>11. Written(L, pos, <<>>, 0)
  <2> DEFINE g == [i \in 0..pos |-> <<>>]
  <2>0. <<>> \o <<>> = <<>>
    BY ConcatEmptySeq, EmptySeq
  <2>1. ASSUME NEW i \in 1..pos PROVE Piece(L, i - 1) = <<>>
    <3>1. i - 1 \in 0..(pos - 1) /\ i - 1 \in 0..Len(text) /\ i - 1 \in Nat
      BY <1>2
    <3>2. EndsAt(L, i - 1) = {}
      <4> SUFFICES ASSUME NEW c \in EndsAt(L, i - 1) PROVE FALSE
        OBVIOUS
      <4>1. c \in Before(L, i - 1)
        BY <1>0, <3>1, EndsAtFacts
      <4>2. c \in Blocks /\ c \in Nat /\ c < i - 1
        BY <4>1, BlockFacts DEF Before, Reaches
      <4>3. c \in 0..(pos - 1)
        BY <1>2, <3>1, <4>2
      <4> QED
        BY <1>7, <4>2, <4>3
    <3>3. Copies(0, i - 1) = <<>> /\ Spelled(i - 1) = <<>>
      BY <1>7, <3>1, CopiesFacts
    <3> QED
      BY <2>0, <3>2, <3>3, FS_EmptySet DEF Piece
  <2>2. g \in [0..pos -> Seq(TokenType)]
    OBVIOUS
  <2>3. \A i \in 0..pos : g[i] = <<>>
    OBVIOUS
  <2>4. 0 \in 0..pos /\ pos \in 0..pos /\ \A i \in 1..pos : i \in 0..pos /\ i - 1 \in 0..pos
    BY <1>2
  <2> HIDE DEF g
  <2>5. WrittenBy(g, L, pos)
    BY <2>0, <2>1, <2>2, <2>3, <2>4 DEF WrittenBy
  <2>6. <<>> = g[pos] \o Copies(0, pos)
    BY <1>2, <2>0, <2>3, <2>4, CopiesFacts
  <2> QED
    BY <2>5, <2>6 DEF Written
<1>12. 0 + DueAt(pos, <<>>, 0) = Cardinality(EndsAt(L, pos))
  <2>1. Len(<<>>) = 0 /\ Cardinality(EndsAt(L, pos)) = 0
    BY <1>10, FS_EmptySet
  <2> QED
    BY <2>1 DEF DueAt
<1>13. Matches(<<>>, OpenAt(L, pos))
  BY <1>10, NoneMatched
<1>14. LayAt(L, pos, indent, <<>>, 0, <<>>, "run")
  <2>1. 0 \in Nat /\ "run" # "done"
    OBVIOUS
  <2> QED
    BY <1>5, <1>9, <1>11, <1>12, <1>13, <2>1 DEF LayAt
<1> QED
  BY <1>0, <1>14

(***************************************************************************)
(* What the stack of indents computes is the offside rule, for every text  *)
(* of names, colons, comments and white space: each block the text gives   *)
(* by indentation is closed where the rule ends it, whatever else is open, *)
(* and a block that could not be remembered disturbs no other.             *)
(***************************************************************************)
THEOREM OffsideRule == Spec => []LayoutIsOffside
<1>1. TypeOK /\ IndentsNest /\ LayInv /\ [Next]_lexVars => LayInv'
  <2> SUFFICES ASSUME TypeOK, IndentsNest, LayInv, [Next]_lexVars PROVE LayInv'
    OBVIOUS
  <2>1. CASE Step
    BY <2>1, LayStep
  <2>2. CASE UNCHANGED lexVars
    <3>1. /\ text' = text
          /\ UNCHANGED <<pos, indent, indents, returning, tokens, status, forgotten>>
      BY <2>2 DEF lexVars
    <3>2. Laid' <=> Laid
      BY <3>1, SameText
    <3>3. LayAt(Blocks \ forgotten, pos, indent, indents, returning, tokens, status)' <=>
            LayAt(Blocks \ forgotten, pos, indent, indents, returning, tokens, status)
      BY <3>1, SameText
    <3> QED
      BY <3>1, <3>2, <3>3 DEF LayInv
  <2> QED
    BY <2>1, <2>2 DEF Next, Stopped
<1> QED
  BY <1>1, LayInit, LayOffside, TypeCorrect, BlocksNest, PTL DEF Spec
=============================================================================
