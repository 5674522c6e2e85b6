---------------------------- MODULE MCTokentree ----------------------------
EXTENDS Tokentree

CONSTANTS Alphabet, MaxChars, MaxWords, MaxBrackets, MaxStrings

(***************************************************************************)
(* What the first file may hold: any few characters; any few words with a  *)
(* blank or a newline after each; and any names in brackets.               *)
(***************************************************************************)
Words == {<<"letter">>, <<"minus", "digit">>, <<"punct">>, <<"quote", "escape", "quote", "quote">>,
          <<"open">>, <<"close">>, <<"semi", "semi", "escape">>}

Spaced(ws) == FlattenSeq([i \in DOMAIN ws |-> ws[i] \o
  IF ws[i][1] = "semi" THEN <<"newline">> ELSE <<"blank">>])

SomeTexts ==
  SeqOf(Alphabet, MaxChars)
  \cup {Spaced(ws) : ws \in SeqOf(Words, MaxWords)}
  \cup {Spaced(ws) : ws \in SeqOf({<<"letter">>, <<"open">>, <<"close">>}, MaxBrackets)}

(***************************************************************************)
(* Every tree such a text may spell.                                       *)
(***************************************************************************)
TreesOf(leaves, n) ==
  LET forests[k \in 0..n] ==
        {<<>>} \cup UNION {{<<t>> \o ts : t \in leaves \cup {Arr(f) : f \in forests[m-1]},
                                      ts \in forests[k-m]} : m \in 1..k}
  IN  leaves \cup {Arr(f) : f \in forests[n-1]}

Ints == {IntLeaf(i) : i \in {1, 11, 111, 1111, -1, -11, -111}}
Strings == {StringLeaf(kd, i) : kd \in {"name", "op", "str"}, i \in 1..MaxStrings}
OneName == {StringLeaf("name", 1)}

TreesSpelled == TreesOf(Ints \cup Strings, MaxWords) \cup TreesOf(OneName, MaxBrackets)

\* By another name, so that TLC computes the set once.
SomeTrees == TreesSpelled
=============================================================================
