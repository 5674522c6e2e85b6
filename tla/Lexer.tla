------------------------------- MODULE Lexer -------------------------------
(***************************************************************************)
(* The lexer over a text (lexer.c): lexer_load, and then lexer_next until  *)
(* it reports the end.  Each action is one turn of the loop in lexer_next. *)
(* A character is the class the code tests it for.  Blocks may be given by *)
(* indentation: ":" returns an "open" and remembers the indentation of its *)
(* line; a line that is indented no deeper returns the "close".            *)
(***************************************************************************)
EXTENDS Integers, SequencesExt, FiniteSets

CONSTANTS Texts,           \* the texts to lex
          InitialIndents   \* INITIAL_INDENTS_SIZE

Letters == {"letter", "digit"}                            \* isalnum
Graph == Letters \cup {"under", "minus", "semi", "quote", "escape", "colon",
                       "open", "close", "hash", "punct"}  \* isgraph
Space == {"blank", "tab", "newline"}                      \* isspace
Chars == Graph \cup Space \cup {"control"}                \* and neither

ASSUME TextsAssumption == Texts \subseteq Seq(Chars)
ASSUME IndentsAssumption == InitialIndents \in Nat \ {0}

VARIABLES text,       \* lexer->text
          pos,        \* lexer->pos
          indent,     \* lexer->indent: that of the line pos is in
          indents,    \* lexer->indents[0..indents_len-1]
          room,       \* lexer->indents_size
          forgotten,  \* the colons whose blocks lexer_push_indent did not remember
          returning,  \* lexer->returning_indents
          tokens,     \* the tokens returned so far, in order
          status      \* "run", "done", or "error"

lexVars == <<text, pos, indent, indents, room, forgotten, returning, tokens, status>>

(***************************************************************************)
(* text[p], with the '\0' after it; and the end of a run of characters.    *)
(***************************************************************************)
At(p) == IF p < Len(text) THEN text[p + 1] ELSE "end"

RunEnd(S, p) ==
  CHOOSE q \in p..Len(text) :
    /\ \A k \in p..(q-1) : At(k) \in S
    /\ q = Len(text) \/ At(q) \notin S

(***************************************************************************)
(* A token and where it stands.  The brackets made from indentation stand  *)
(* for no character.                                                       *)
(***************************************************************************)
Token(kind, from, to) == [kind |-> kind, from |-> from, to |-> to]
Opened(p) == Token("open", p, p)
Closed(p) == Token("close", p, p)

-----------------------------------------------------------------------------
(***************************************************************************)
(* lexer_get_indent from p on: skip blanks and empty lines; the blanks of  *)
(* the last line count.                                                    *)
(***************************************************************************)
IndentEnd(p) == RunEnd({"blank", "newline"}, p)

IndentAt(p) ==
  LET q == IndentEnd(p)
  IN  Cardinality({k \in p..(q-1) : \A j \in k..(q-1) : At(j) = "blank"})

IndentIsBad(p) == At(IndentEnd(p)) = "tab"

(* Seeded bug: one indent is popped, not all that are due. *)
KeptButOne(n) ==
  IF indents # <<>> /\ indents[Len(indents)] >= n THEN Len(indents) - 1 ELSE Len(indents)

(* Seeded bug: a line closes the blocks indented deeper, not its equals. *)
KeptEqual(n) ==
  CHOOSE k \in 0..Len(indents) :
    /\ k > 0 => indents[k] <= n
    /\ \A j \in (k+1)..Len(indents) : indents[j] > n

(***************************************************************************)
(* How many indents are left when those not less than n have been popped.  *)
(***************************************************************************)
Kept(n) ==
  CHOOSE k \in 0..Len(indents) :
    /\ k > 0 => indents[k] < n
    /\ \A j \in (k+1)..Len(indents) : indents[j] >= n

-----------------------------------------------------------------------------
(***************************************************************************)
(* lexer_load.                                                             *)
(***************************************************************************)
Init ==
  /\ text \in Texts
  /\ pos = IndentEnd(0)
  /\ indent = IF IndentIsBad(0) THEN 0 ELSE IndentAt(0)
  /\ indents = <<>> /\ room = InitialIndents /\ forgotten = {}
  /\ returning = 0
  /\ tokens = <<>>
  /\ status = IF IndentIsBad(0) THEN "error" ELSE "run"

(* lexer_load of another text, into a lexer of its own. *)
LoadText(t) ==
  /\ text' = t
  /\ pos' = IndentEnd(0)'
  /\ indent' = IF IndentIsBad(0)' THEN 0 ELSE IndentAt(0)'
  /\ indents' = <<>> /\ room' = InitialIndents /\ forgotten' = {}
  /\ returning' = 0
  /\ tokens' = <<>>
  /\ status' = IF IndentIsBad(0)' THEN "error" ELSE "run"

Looking(chars) == status = "run" /\ returning = 0 /\ At(pos) \in chars

(***************************************************************************)
(* A bracket that is due because of indentation.                           *)
(***************************************************************************)
ReturnClose ==
  /\ status = "run"
  /\ returning < 0
  /\ returning' = returning + 1
  /\ tokens' = Append(tokens, Closed(pos))
  /\ UNCHANGED <<text, pos, indent, indents, room, forgotten, status>>

Newline ==
  /\ Looking({"newline"})
  /\ pos' = IndentEnd(pos + 1)
  /\ \/ /\ IndentIsBad(pos + 1)
        /\ status' = "error"
        /\ UNCHANGED <<indent, indents, returning>>
     \/ /\ ~IndentIsBad(pos + 1)
        /\ LET n == IndentAt(pos + 1)
           IN  /\ indent' = n
               /\ indents' = SubSeq(indents, 1, Kept(n))
               /\ returning' = Kept(n) - Len(indents)
        /\ UNCHANGED status
  /\ UNCHANGED <<text, room, forgotten, tokens>>

(* Seeded bug: the end of the text is reported at once. *)
EndOfTextAtOnce ==
  /\ Looking({"end"})
  /\ status' = "done"
  /\ UNCHANGED <<text, pos, indent, indents, room, forgotten, returning, tokens>>

(***************************************************************************)
(* The end of the text closes every block; only then is it the end.        *)
(***************************************************************************)
EndOfText ==
  /\ Looking({"end"})
  /\ indent' = 0
  /\ indents' = <<>>
  /\ returning' = 0 - Len(indents)
  /\ status' = IF indents = <<>> THEN "done" ELSE "run"
  /\ UNCHANGED <<text, pos, room, forgotten, tokens>>

(***************************************************************************)
(* lexer_push_indent: a full array is made twice as large first.  lexer_   *)
(* next does not look whether that failed.                                 *)
(***************************************************************************)
PushIndent ==
  /\ indents' = Append(indents, indent)
  /\ room' = IF Len(indents) < room THEN room ELSE 2 * room
  /\ UNCHANGED forgotten

ReallocFails ==
  /\ Len(indents) >= room
  /\ forgotten' = forgotten \cup {pos}
  /\ UNCHANGED <<indents, room>>

Colon ==
  /\ Looking({"colon"})
  /\ PushIndent \/ ReallocFails
  /\ pos' = pos + 1
  /\ tokens' = Append(tokens, Opened(pos))
  /\ UNCHANGED <<text, indent, returning, status>>

(* Seeded bug: eats all that is not alphanumeric. *)
WhitespaceAndGlyphs ==
  /\ Looking({"blank", "tab"})
  /\ pos' = RunEnd(Chars \ Letters, pos)
  /\ UNCHANGED <<text, indent, indents, room, forgotten, returning, tokens, status>>

(* Seeded bug: eats blanks only, though any space brought it here. *)
WhitespaceBlanks ==
  /\ Looking({"blank", "tab"})
  /\ pos' = RunEnd({"blank"}, pos)
  /\ UNCHANGED <<text, indent, indents, room, forgotten, returning, tokens, status>>

(***************************************************************************)
(* lexer_eat_whitespace: everything that has no glyph, newlines included.  *)
(***************************************************************************)
Whitespace ==
  /\ Looking({"blank", "tab"})
  /\ pos' = RunEnd(Chars \ Graph, pos)
  /\ UNCHANGED <<text, indent, indents, room, forgotten, returning, tokens, status>>

(* Seeded bug: a comment ends before a hash, even its own. *)
CommentToHash ==
  /\ Looking({"hash"})
  /\ pos' = RunEnd(Chars \ {"newline", "hash"}, pos)
  /\ UNCHANGED <<text, indent, indents, room, forgotten, returning, tokens, status>>

Comment ==
  /\ Looking({"hash"})
  /\ pos' = RunEnd(Chars \ {"newline"}, pos)
  /\ UNCHANGED <<text, indent, indents, room, forgotten, returning, tokens, status>>

-----------------------------------------------------------------------------
(***************************************************************************)
(* The tokens the text spells.                                             *)
(***************************************************************************)
Take(kind, to) ==
  /\ tokens' = Append(tokens, Token(kind, pos, to))
  /\ pos' = to
  /\ UNCHANGED <<text, indent, indents, room, forgotten, returning, status>>

Bracket == Looking({"open", "close"}) /\ Take(At(pos), pos + 1)

Name ==
  /\ Looking({"letter", "under"})
  /\ Take("name", RunEnd(Letters \cup {"under"}, pos))

AtInt == At(pos) = "digit" \/ (At(pos) = "minus" /\ At(pos + 1) = "digit")
AtBlockstr == At(pos) = "semi" /\ At(pos + 1) = "semi"

Number ==
  /\ Looking({"digit", "minus"}) /\ AtInt
  /\ Take("int", RunEnd({"digit"}, pos + 1))

(* Seeded bug: eats the end of the line, also when the text ends. *)
BlockstrAndNewline ==
  /\ Looking({"semi"}) /\ AtBlockstr
  /\ Take("blockstr", RunEnd(Chars \ {"newline"}, pos + 2) + 1)

Blockstr ==
  /\ Looking({"semi"}) /\ AtBlockstr
  /\ Take("blockstr", RunEnd(Chars \ {"newline"}, pos + 2))

(***************************************************************************)
(* A str ends at the first quote that is not escaped; the line may not end *)
(* before it.  A backslash takes the next character with it: of several in *)
(* a row every second one does.                                            *)
(***************************************************************************)
Escaped(q) ==
  Cardinality({k \in (pos + 1)..(q - 1) : \A j \in k..(q - 1) : At(j) = "escape"}) % 2 = 1

Closings == {q \in (pos + 1)..(Len(text) - 1) :
               /\ At(q) = "quote" /\ ~Escaped(q)
               /\ \A k \in pos..q : At(k) # "newline"}

StrEnd == IF Closings = {} THEN 0 ELSE Min(Closings) + 1

Str ==
  /\ Looking({"quote"})
  /\ \/ /\ StrEnd # 0
        /\ Take("str", StrEnd)
     \/ /\ StrEnd = 0
        /\ status' = "error"
        /\ UNCHANGED <<text, pos, indent, indents, room, forgotten, returning, tokens>>

(***************************************************************************)
(* Anything else is an op: of no length, if it is not even a glyph.  Those *)
(* are returned for ever, and not recorded.                                *)
(***************************************************************************)
Op ==
  /\ Looking({"minus", "semi", "punct", "escape", "control"})
  /\ ~AtInt /\ ~AtBlockstr
  /\ LET to == RunEnd(Graph \ (Letters \cup {"colon", "open", "close"}), pos)
     IN  IF to = pos THEN UNCHANGED lexVars ELSE Take("op", to)

Step ==
  \/ ReturnClose \/ Newline \/ EndOfText \/ Colon \/ Whitespace \/ Comment
  \/ Bracket \/ Name \/ Number \/ Blockstr \/ Str \/ Op

Stopped == status # "run" /\ UNCHANGED lexVars

Next == Step \/ Stopped

(***************************************************************************)
(* The lexer is driven by a parser that asks for tokens until the end.     *)
(***************************************************************************)
Spec == Init /\ [][Next]_lexVars

FairSpec == Spec /\ WF_lexVars(Step)
-----------------------------------------------------------------------------
Kinds == {"open", "close", "name", "int", "str", "blockstr", "op"}

(***************************************************************************)
(* Types of the lexer's state.                                             *)
(***************************************************************************)
TypeOK ==
  /\ text \in Seq(Chars)
  /\ pos \in 0..Len(text)
  /\ indent \in Nat
  /\ indents \in Seq(Nat) /\ room \in Nat \ {0} /\ Len(indents) <= room
  /\ forgotten \subseteq 0..(pos - 1)
  /\ returning \in Int /\ returning <= 0
  /\ tokens \in Seq([kind : Kinds, from : Nat, to : Nat])
  /\ status \in {"run", "done", "error"}

(***************************************************************************)
(* Brackets made from indentation pair up: every one that was opened has   *)
(* been closed, or is due to be, or is on the stack, or was opened with no *)
(* memory for the stack and will never be closed; none of the others is    *)
(* left when the end of the text is reported.                              *)
(***************************************************************************)
Made(kind) ==
  {i \in 1..Len(tokens) : tokens[i].kind = kind /\ tokens[i].from = tokens[i].to}

Balanced ==
  /\ Cardinality(Made("open")) =
       Cardinality(Made("close")) + Len(indents) - returning + Cardinality(forgotten)
  /\ status = "done" => indents = <<>> /\ returning = 0

(***************************************************************************)
(* No block encloses one that is indented less, or the line being lexed if *)
(* that is: what lets a line pop from the top only.                        *)
(***************************************************************************)
IndentsNest ==
  status = "run" =>
    /\ \A i, j \in 1..Len(indents) : i < j => indents[i] <= indents[j]
    /\ \A i \in 1..Len(indents) : indents[i] <= indent

(***************************************************************************)
(* Tokens come in the order of the text and do not overlap, and what lies  *)
(* between two of them is white space, a comment or a colon.               *)
(***************************************************************************)
Covered(p) == \E i \in 1..Len(tokens) : tokens[i].from <= p /\ p < tokens[i].to
InComment(p) ==
  \E h \in 0..p : /\ At(h) = "hash" /\ ~Covered(h)
                  /\ \A k \in h..p : At(k) # "newline"

NothingLost ==
  /\ \A i, j \in 1..Len(tokens) : i < j => tokens[i].to <= tokens[j].from
  /\ \A p \in 0..(pos - 1) : At(p) \in Graph =>
       \/ Covered(p)
       \/ InComment(p)
       \/ At(p) = "colon" /\ Opened(p) \in {tokens[i] : i \in 1..Len(tokens)}

(***************************************************************************)
(* The offside rule, for a text of names, colons, comments and white space *)
(* only: a second reading of the same code, with neither a stack nor a     *)
(* position.  A line starts where the white space after a newline ends,    *)
(* unless blanks came before that newline: then the two lines are one.     *)
(* The block a colon opens ends before the first later line indented no    *)
(* deeper than its own, or else with the text.  A block that could not be  *)
(* remembered does not end, and no other is any the worse for it.          *)
(***************************************************************************)
Commented(p) == \E h \in 0..p : /\ At(h) = "hash"
                               /\ \A k \in h..p : At(k) # "newline"

LineStarts ==
  {0} \cup {p \in 1..Len(text) :
            \E e \in 1..(p-1) :
              /\ At(e) = "newline"
              /\ At(e-1) \in Graph \/ Commented(e-1)
              /\ \A k \in e..(p-1) : At(k) \in {"blank", "newline"}
              /\ At(p) \notin {"blank", "newline"}}

FirstGlyph(l) ==
  IF l > 0 THEN l
  ELSE CHOOSE p \in 0..Len(text) : /\ At(p) \notin {"blank", "newline"}
                                   /\ \A k \in 0..(p-1) : At(k) \in {"blank", "newline"}

Margin(l) ==
  Cardinality({k \in 0..(FirstGlyph(l) - 1) :
                 \A j \in k..(FirstGlyph(l) - 1) : At(j) = "blank"})

Blocks == {c \in 0..(Len(text) - 1) : At(c) = "colon" /\ ~Commented(c)}

Ending(c, starts) ==
  LET line == Max({l \in starts : l <= c})
      next == {l \in starts : l > c /\ Margin(l) <= Margin(line)}
  IN  Min({FirstGlyph(l) : l \in next} \cup {Len(text)})

Spelled(p) ==
  IF Commented(p) THEN <<>>
  ELSE IF At(p) = "colon" THEN <<Opened(p)>>
  ELSE IF At(p) = "letter" /\ (p = 0 \/ At(p-1) # "letter")
       THEN <<Token("name", p, RunEnd({"letter"}, p))>>
  ELSE <<>>

Offside ==
  LET starts == LineStarts
      ending == [c \in Blocks \ forgotten |-> Ending(c, starts)]
      closes(p) == [i \in 1..Cardinality({c \in DOMAIN ending : ending[c] = p}) |-> Closed(p)]
  IN  FlattenSeq([i \in 1..(Len(text) + 1) |-> closes(i-1) \o Spelled(i-1)])

(***************************************************************************)
(* What the stack of indents computes is the offside rule.                 *)
(***************************************************************************)
LayoutIsOffside ==
  (/\ status = "done"
   /\ \A p \in 0..(Len(text) - 1) :
        At(p) \in {"letter", "colon", "hash", "blank", "newline"})
  => tokens = Offside

(***************************************************************************)
(* A parser that asks for tokens until there are no more (the loop at the  *)
(* head of lexer.h) gets to the end, or to an error.                       *)
(***************************************************************************)
Ends == <>(status # "run")
=============================================================================
