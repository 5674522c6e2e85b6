------------------------------- MODULE Writer -------------------------------
(***************************************************************************)
(* The writer (writer.c): puts tokens into a file, on one line or one line *)
(* for every list, and decides what goes between two of them.  What is due *)
(* before the next token is remembered in needsSpace and needsNewline, and *)
(* is written by the tokens that have a spelling: brackets do not.         *)
(***************************************************************************)
EXTENDS Integers, SequencesExt

VARIABLES oneline,       \* writer->oneline
          depth,         \* writer->depth
          needsSpace,    \* writer->needs_space
          needsNewline,  \* writer->needs_newline
          out            \* what has been put into writer->file

writeVars == <<oneline, depth, needsSpace, needsNewline, out>>

(***************************************************************************)
(* The spellings of an int, whose every digit is a 1, and of a str.        *)
(***************************************************************************)
Digits(i) ==
  LET digits[n \in 0..i] ==
        IF n < 10 THEN <<"digit">> ELSE Append(digits[n \div 10], "digit")
  IN  digits[i]

Numeral(i) == IF i < 0 THEN <<"minus">> \o Digits(-i) ELSE Digits(i)

\* Seeded bug: an escape character in the string is not escaped itself.
QuotedQuotes(s) ==
  LET spelled(c) == IF c = "quote" THEN <<"escape", c>> ELSE <<c>>
  IN  <<"quote">> \o FlattenSeq([i \in DOMAIN s |-> spelled(s[i])]) \o <<"quote">>

Quoted(s) ==
  LET spelled(c) == CASE c = "newline" -> <<"escape", "letter">>
                      [] c \in {"quote", "escape"} -> <<"escape", c>>
                      [] OTHER -> <<c>>
  IN  <<"quote">> \o FlattenSeq([i \in DOMAIN s |-> spelled(s[i])]) \o <<"quote">>

Put(s) == out' = out \o s

-----------------------------------------------------------------------------
(***************************************************************************)
(* writer_reset.                                                           *)
(***************************************************************************)
WriterReset ==
  /\ depth' = 0
  /\ needsSpace' = FALSE /\ needsNewline' = FALSE
  /\ UNCHANGED <<oneline, out>>

Indent(n) == [b \in 1..(4 * n) |-> "blank"]

(***************************************************************************)
(* writer_write_separator.                                                 *)
(***************************************************************************)
Separator ==
  CASE needsNewline -> <<"newline">> \o Indent(depth)
    [] ~needsNewline /\ needsSpace -> <<"blank">>
    [] OTHER -> <<>>

(***************************************************************************)
(* writer_write_name, writer_write_op, writer_write_int, writer_write_str. *)
(***************************************************************************)
WriteText(s) ==
  /\ Put(Separator \o s)
  /\ needsNewline' = FALSE
  /\ needsSpace' = TRUE
  /\ UNCHANGED <<oneline, depth>>

\* Seeded bug: only an indented list counts as depth.
WriteOpenShallow ==
  /\ IF oneline
     THEN Put(<<"open">>) /\ needsSpace' = FALSE /\ UNCHANGED <<needsNewline, depth>>
     ELSE Put(<<"colon">>) /\ needsNewline' = TRUE /\ depth' = depth + 1 /\ UNCHANGED needsSpace
  /\ UNCHANGED oneline

WriteOpen ==
  /\ depth' = depth + 1
  /\ IF oneline
     THEN Put(<<"open">>) /\ needsSpace' = FALSE /\ UNCHANGED needsNewline
     ELSE Put(<<"colon">>) /\ needsNewline' = TRUE /\ UNCHANGED needsSpace
  /\ UNCHANGED oneline

\* Seeded bug: a block that is closed leaves no newline due.
WriteCloseQuietly ==
  /\ depth > 0
  /\ depth' = depth - 1
  /\ IF oneline
     THEN Put(<<"close">>) /\ needsSpace' = TRUE
     ELSE UNCHANGED <<out, needsSpace>>
  /\ UNCHANGED <<oneline, needsNewline>>

WriteClose ==
  /\ depth > 0
  /\ depth' = depth - 1
  /\ IF oneline
     THEN Put(<<"close">>) /\ needsSpace' = TRUE /\ UNCHANGED needsNewline
     ELSE needsNewline' = TRUE /\ UNCHANGED <<out, needsSpace>>
  /\ UNCHANGED oneline
=============================================================================
