------------------------------ MODULE MCLexer ------------------------------
(***************************************************************************)
(* Small texts for the lexer: every short text over some characters, and   *)
(* every text of a few lines that are indented by 0, 1 or 2 blanks.        *)
(***************************************************************************)
EXTENDS Lexer

CONSTANTS Alphabet,   \* the characters of the short texts
          MaxChars,   \* how many a text may have
          MaxLines    \* how many lines a text of lines may have

ShortTexts == SeqOf(Alphabet, MaxChars)

Margins == {<<>>, <<"blank">>, <<"blank", "blank">>}
Lines == {<<"letter">>, <<"letter", "colon">>, <<"colon", "blank">>,
          <<"colon", "colon">>, <<"hash">>}

LinedTexts ==
  {FlattenSeq([i \in DOMAIN ls |-> ls[i][1] \o ls[i][2] \o <<"newline">>]) :
     ls \in SeqOf(Margins \X Lines, MaxLines)}

AllTexts == ShortTexts \cup LinedTexts
=============================================================================
