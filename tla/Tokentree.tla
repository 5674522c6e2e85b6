----------------------------- MODULE Tokentree -----------------------------
(***************************************************************************)
(* The program tokentree (main/tokentree.c): reads its files, parses trees *)
(* of tokens out of them, copies each through the lexer's other mode if    *)
(* asked to (--reparse), and prints it, on one line if asked to            *)
(* (--oneline).  It composes the lexer, tokentree_parse, the stringstore   *)
(* and the writer.                                                         *)
(* It is run on two files: the second holds what it prints for the first,  *)
(* saved to a file by an earlier run or piped into this one.               *)
(***************************************************************************)
EXTENDS TreeLexer, Writer

CONSTANTS Texts,            \* what the first file may hold
          InitialIndents,   \* INITIAL_INDENTS_SIZE of lexer.c
          ChunkSize         \* CHUNK_SIZE of file_utils.c

ASSUME ChunkSizeAssumption == ChunkSize \in Nat \ {0}

VARIABLES text, pos, indent, indents, room, forgotten, returning,
          tokens, status,   \* of lexer
          asked,      \* calls of lexer_next that have not returned yet
          partial,    \* the elements of the lists tokentree_parse is in
          parsed,     \* tokentree
          store,      \* the strings in store->entries
          reparse,    \* the option --reparse
          todo,       \* of each list tokentree_write is in, what it must still write
          phase,      \* "parse", "copy", "write"; then "printed" or "refused"
          trees,      \* what has been printed, file by file
          whole       \* the current file was read to its end

Lex == INSTANCE Lexer
ASSUME LexerAssumption == Texts \subseteq Seq(Lex!Chars) /\ InitialIndents \in Nat \ {0}

Text == INSTANCE TreeParse WITH building <- partial, tree <- parsed

lexerVars == <<text, pos, indent, indents, room, forgotten, returning, tokens, status>>
fileVars == <<trees, whole>>
textVars == <<partial, parsed, asked>>
copyVars == <<treeLexVars, parseVars>>
vars == <<lexerVars, textVars, copyVars, writeVars, todo, store, reparse, phase, fileVars>>

-----------------------------------------------------------------------------
(***************************************************************************)
(* The lexer works when it is asked to.  At the end of the text, whatever  *)
(* else is asked for is the end again.                                     *)
(***************************************************************************)
Ask(n) == asked' = IF status = "done" THEN 0 ELSE n

LexerStep ==
  /\ phase = "parse" /\ asked > 0
  /\ Lex!Step
  /\ asked' = CASE status' = "done" -> 0
                [] status' # "done" /\ tokens' # tokens -> asked - 1
                [] OTHER -> asked
  /\ UNCHANGED <<partial, parsed, copyVars, writeVars, todo, store, reparse, phase, fileVars>>

Kind ==
  CASE status = "done" -> "done"
    [] status = "run" -> IF tokens[Len(tokens)].kind = "blockstr" THEN "str"
                         ELSE tokens[Len(tokens)].kind

Spelling(token) == SubSeq(text, token.from + 1, token.to)

(***************************************************************************)
(* atoi, and the escapes of a str: a backslash stands for what follows it. *)
(***************************************************************************)
IntOf(s) ==
  LET value == FoldLeft(LAMBDA v, c : IF c = "digit" THEN 10 * v + 1 ELSE v, 0, s)
  IN  IF s[1] = "minus" THEN -value ELSE value

Unescaped(s) ==
  FoldLeft(LAMBDA r, c : IF c = "escape" /\ ~r.escaped
                         THEN [r EXCEPT !.escaped = TRUE]
                         ELSE [read |-> Append(r.read, c), escaped |-> FALSE],
           [read |-> <<>>, escaped |-> FALSE], s).read

StringOf(token) ==
  CASE token.kind = "str" -> Unescaped(SubSeq(text, token.from + 2, token.to - 1))
    [] token.kind = "blockstr" -> SubSeq(text, token.from + 3, token.to)
    [] OTHER -> Spelling(token)

-----------------------------------------------------------------------------
(***************************************************************************)
(* stringstore_get_donate: a string is in the store once, and is known by  *)
(* its place there.                                                        *)
(***************************************************************************)
Intern(s) == store' = IF s \in Range(store) THEN store ELSE Append(store, s)

Place(s, strings) == CHOOSE i \in DOMAIN strings : strings[i] = s

StringLeaf(kd, i) == [tag |-> kd, str |-> i]
IntLeaf(i) == [tag |-> "int", int |-> i]

-----------------------------------------------------------------------------
(***************************************************************************)
(* tokentree_parse over the text.                                          *)
(***************************************************************************)
AtToken == phase = "parse" /\ asked = 0 /\ parsed = NoTree /\ status # "error"

Others == <<lexerVars, copyVars, writeVars, todo, reparse, phase, fileVars>>

ParseOpen ==
  /\ AtToken /\ Kind = "open"
  /\ Text!TakeOpen
  /\ Ask(1)
  /\ UNCHANGED <<store, Others>>

ParseClose ==
  /\ AtToken /\ Kind = "close"
  /\ Text!TakeClose
  /\ Ask(1)
  /\ UNCHANGED <<store, Others>>

ParseInt ==
  /\ AtToken /\ Kind = "int"
  /\ Text!TakeLeaf(IntLeaf(IntOf(Spelling(tokens[Len(tokens)]))))
  /\ Ask(1)
  /\ UNCHANGED <<store, Others>>

\* Seeded bug: a name is taken as a str is, with the token after it.
ParseStringTwice ==
  /\ AtToken /\ Kind \in {"name", "op", "str"}
  /\ LET s == StringOf(tokens[Len(tokens)])
     IN  Intern(s) /\ Text!TakeLeaf(StringLeaf(Kind, Place(s, store')))
  /\ Ask(2)
  /\ UNCHANGED <<Others>>

(***************************************************************************)
(* lexer_get_const_str gets the next token twice: by lexer_get_str, and by *)
(* itself.                                                                 *)
(***************************************************************************)
ParseString ==
  /\ AtToken /\ Kind \in {"name", "op", "str"}
  /\ LET s == StringOf(tokens[Len(tokens)])
     IN  Intern(s) /\ Text!TakeLeaf(StringLeaf(Kind, Place(s, store')))
  /\ Ask(IF Kind = "str" THEN 2 ELSE 1)
  /\ UNCHANGED <<Others>>

(***************************************************************************)
(* An error of the parser or the lexer ends the program.                   *)
(***************************************************************************)
AtEnd == AtToken /\ partial = <<>> /\ Kind = "done"

Refuse ==
  /\ \/ phase = "parse" /\ status = "error"
     \/ AtToken /\ ~AtEnd /\ Text!Unexpected(Kind)
  /\ phase' = "refused"
  /\ UNCHANGED <<lexerVars, textVars, copyVars, writeVars, todo, store, reparse, fileVars>>

-----------------------------------------------------------------------------
(***************************************************************************)
(* What parse_buffer does with a tree: copies it if asked to, writes it,   *)
(* and goes on with the next.                                              *)
(***************************************************************************)
Got == phase = "parse" /\ asked = 0 /\ parsed # NoTree /\ status # "error"

TextStays == UNCHANGED <<lexerVars, asked, store, reparse, fileVars>>

StartCopy ==
  /\ Got /\ reparse
  /\ StartReading(parsed)
  /\ phase' = "copy"
  /\ TextStays /\ UNCHANGED <<partial, parsed, writeVars, todo>>

CopyStep ==
  /\ phase = "copy"
  /\ Read
  /\ TextStays /\ UNCHANGED <<partial, parsed, writeVars, todo, phase>>

StartWrite ==
  /\ \/ Got /\ ~reparse /\ UNCHANGED <<parsed, copyVars>>
     \/ phase = "copy" /\ tree # NoTree /\ parsed' = tree /\ StopReading
  /\ WriterReset
  /\ todo' = <<<<parsed'>>>>
  /\ phase' = "write"
  /\ TextStays /\ UNCHANGED partial

-----------------------------------------------------------------------------
(***************************************************************************)
(* tokentree_write: what is left of the innermost list is written next.    *)
(***************************************************************************)
Elems == todo[Len(todo)]
SpellingOf(leaf) ==
  CASE leaf.tag = "int" -> Numeral(leaf.int)
    [] leaf.tag = "str" -> Quoted(store[leaf.str])
    [] OTHER -> store[leaf.str]

WritingStays == TextStays /\ UNCHANGED <<partial, copyVars>>

WriteLeaf ==
  /\ phase = "write" /\ Elems # <<>> /\ Head(Elems).tag \in LeafTags
  /\ WriteText(SpellingOf(Head(Elems)))
  /\ todo' = [todo EXCEPT ![Len(todo)] = Tail(@)]
  /\ WritingStays /\ UNCHANGED <<parsed, phase>>

EnterList ==
  /\ phase = "write" /\ Elems # <<>> /\ Head(Elems).tag = "arr"
  /\ WriteOpen
  /\ todo' = Append([todo EXCEPT ![Len(todo)] = Tail(@)], Head(Elems).elems)
  /\ WritingStays /\ UNCHANGED <<parsed, phase>>

LeaveList ==
  /\ phase = "write" /\ Elems = <<>> /\ Len(todo) > 1
  /\ WriteClose
  /\ todo' = Front(todo)
  /\ WritingStays /\ UNCHANGED <<parsed, phase>>

EndWrite ==
  /\ phase = "write" /\ todo = <<<<>>>>
  /\ Put(<<"newline">>)
  /\ trees' = [trees EXCEPT ![Len(trees)] = Append(@, parsed)]
  /\ Text!ParseBegin
  /\ phase' = "parse"
  /\ UNCHANGED <<lexerVars, asked, copyVars, oneline, depth, needsSpace, needsNewline,
                 todo, store, reparse, whole>>

-----------------------------------------------------------------------------
(***************************************************************************)
(* read_stream: the end is marked at the length of the last chunk, counted *)
(* from the start of the buffer.                                           *)
(***************************************************************************)
Streamed(data) == SubSeq(data, 1, Len(data) % ChunkSize)

(***************************************************************************)
(* The loop over the files in main: load_file or read_stream, and          *)
(* parse_buffer, whose lexer and writer are new.  `out` starts again with  *)
(* the file, so as to hold what is printed for it.                         *)
(***************************************************************************)
NextFile ==
  /\ AtEnd /\ Len(trees) = 1
  /\ \E data \in {out, Streamed(out)} :
       /\ Lex!LoadText(data)
       /\ whole' = (data = out)
  /\ asked' = 1
  /\ out' = <<>>
  /\ depth' = 0 /\ needsSpace' = FALSE /\ needsNewline' = FALSE
  /\ trees' = Append(trees, <<>>)
  /\ UNCHANGED <<partial, parsed, copyVars, oneline, todo, store, reparse, phase>>

LastFile ==
  /\ AtEnd /\ Len(trees) = 2
  /\ phase' = "printed"
  /\ UNCHANGED <<lexerVars, textVars, copyVars, writeVars, todo, store, reparse, fileVars>>

Exited == phase \in {"printed", "refused"} /\ UNCHANGED vars

Init ==
  /\ Lex!Init /\ asked = 1
  /\ Text!ParseIdle /\ ReadInit
  /\ oneline \in BOOLEAN /\ reparse \in BOOLEAN
  /\ depth = 0 /\ needsSpace = FALSE /\ needsNewline = FALSE /\ out = <<>>
  /\ todo = <<<<>>>>
  /\ store = <<>>
  /\ phase = "parse"
  /\ trees = <<<<>>>> /\ whole = TRUE

Step ==
  \/ LexerStep \/ ParseOpen \/ ParseClose \/ ParseInt \/ ParseString \/ Refuse
  \/ StartCopy \/ CopyStep \/ StartWrite
  \/ WriteLeaf \/ EnterList \/ LeaveList \/ EndWrite \/ NextFile \/ LastFile

Next == Step \/ Exited

(***************************************************************************)
(* One thread, which nothing makes wait.                                   *)
(***************************************************************************)
Spec == Init /\ [][Next]_vars /\ WF_vars(Step)
-----------------------------------------------------------------------------
(***************************************************************************)
(* Types of the program's own state.  The writer is as deep as the lists   *)
(* being written, so that it never refuses to close one (writer.c:128).    *)
(***************************************************************************)
TypeOK ==
  /\ TreeLexTypeOK
  /\ asked \in 0..2
  /\ partial \in Seq(Seq(Trees)) /\ (parsed \in Trees \/ parsed = NoTree)
  /\ todo \in Seq(Seq(Trees)) /\ todo # <<>>
  /\ phase = "write" => depth = Len(todo) - 1
  /\ store \in Seq(Seq(Lex!Chars)) /\ out \in Seq(Lex!Chars)
  /\ \A s \in DOMAIN trees : trees[s] \in Seq(Trees)

Bracket(kd) == [tag |-> kd]
Flat[t \in Trees] ==
  IF t.tag = "arr"
  THEN <<Bracket("open")>> \o FlattenSeq([i \in DOMAIN t.elems |-> Flat[t.elems[i]]])
                          \o <<Bracket("close")>>
  ELSE <<t>>

Flats(ts) == FlattenSeq([i \in DOMAIN ts |-> Flat[ts[i]]])

(***************************************************************************)
(* The tokens tokentree_parse has taken: of those the lexer has returned,  *)
(* all but the one after each str or blockstr, and the current one.        *)
(***************************************************************************)
KeptOf(ts) ==
  FoldLeft(LAMBDA r, t : IF r.skip THEN [r EXCEPT !.skip = FALSE]
                         ELSE [kept |-> Append(r.kept, t), skip |-> t.kind \in {"str", "blockstr"}],
           [kept |-> <<>>, skip |-> FALSE], ts)

Kept == KeptOf(tokens).kept

Taken == IF asked = 0 /\ status = "run" THEN Front(Kept) ELSE Kept

Meaning(token) ==
  CASE token.kind \in {"open", "close"} -> Bracket(token.kind)
    [] token.kind = "int" -> IntLeaf(IntOf(Spelling(token)))
    [] token.kind \in {"name", "op"} -> StringLeaf(token.kind, Place(StringOf(token), store))
    [] OTHER -> StringLeaf("str", Place(StringOf(token), store))

(***************************************************************************)
(* The trees are the tokens: those printed, the one at hand and the lists  *)
(* still open, flattened, are the tokens taken from the file, in order,    *)
(* each with its value.                                                    *)
(***************************************************************************)
TokensUsed ==
  LET done == Flats(trees[Len(trees)])
      got == IF parsed = NoTree THEN <<>> ELSE Flat[parsed]
      open == FlattenSeq([k \in DOMAIN partial |-> <<Bracket("open")>> \o Flats(partial[k])])
  IN  done \o got \o open = [i \in DOMAIN Taken |-> Meaning(Taken[i])]

(***************************************************************************)
(* A file is refused only if it cannot be lexed, or the brackets among the *)
(* tokens taken do not pair up: as one closing more than was opened, or as *)
(* an end with some still open.                                            *)
(***************************************************************************)
Opened(ts) ==
  FoldLeft(LAMBDA n, t : CASE t.kind = "open" -> n + 1
                           [] t.kind = "close" -> n - 1
                           [] OTHER -> n,
           0, ts)

RefusesUnbalanced ==
  phase = "refused" => status = "error" \/ Opened(Kept) # 0

(***************************************************************************)
(* What is printed: a tree on a line of its own; the tokens of it, with    *)
(* what the token before calls for.  This is the writer's layout without   *)
(* its state: indented, a leaf next to a bracket starts a line at the      *)
(* depth of its list; on one line, nothing stands after "(" or before a    *)
(* bracket.                                                                *)
(***************************************************************************)
DepthAt(items, i) ==
  Cardinality({j \in 1..i : items[j].tag = "open"})
    - Cardinality({j \in 1..i : items[j].tag = "close"})

LaidOutAs(items, i) ==
  LET before == IF i = 1 THEN "none" ELSE items[i-1].tag
  IN  CASE items[i].tag = "open" -> IF oneline THEN <<"open">> ELSE <<"colon">>
        [] items[i].tag = "close" -> IF oneline THEN <<"close">> ELSE <<>>
        [] items[i].tag \in LeafTags ->
             (CASE before \in LeafTags -> <<"blank">>
                [] before = "close" /\ oneline -> <<"blank">>
                [] before \in {"open", "close"} /\ ~oneline ->
                     <<"newline">> \o Indent(DepthAt(items, i))
                [] OTHER -> <<>>)
             \o SpellingOf(items[i])

Rendered(t) ==
  LET items == Flat[t]
  IN  FlattenSeq([i \in DOMAIN items |-> LaidOutAs(items, i)]) \o <<"newline">>

LaidOut ==
  phase \in {"parse", "printed"} =>
    LET ts == trees[Len(trees)]
    IN  out = FlattenSeq([i \in DOMAIN ts |-> Rendered(ts[i])])

(***************************************************************************)
(* What is printed reads back as the same trees, down to the places of the *)
(* strings in the store, unless one of these is the case, and then it      *)
(* never does:                                                             *)
(*   - a stream did not fit in a chunk;                                    *)
(*   - a str is followed by another token, which is lost;                  *)
(*   - lists are printed indented, and one stands right before another, or *)
(*     first in a list of more: no separator keeps the two apart.          *)
(***************************************************************************)
IsList(t) == t.tag = "arr"

RunsOn[t \in Trees] ==
  IsList(t) /\ \/ \E i \in 1..(Len(t.elems) - 1) :
                    IsList(t.elems[i]) /\ (i = 1 \/ IsList(t.elems[i+1]))
               \/ \E i \in DOMAIN t.elems : RunsOn[t.elems[i]]

LosesToken(items) == \E i \in 1..(Len(items) - 1) : items[i].tag = "str"

ReadsBack ==
  phase \in {"printed", "refused"} /\ Len(trees) = 2 =>
    LET same == phase = "printed" /\ trees[2] = trees[1]
        mangled == \/ ~whole
                   \/ LosesToken(Flats(trees[1]))
                   \/ ~oneline /\ \E i \in DOMAIN trees[1] : RunsOn[trees[1][i]]
    IN  same <=> ~mangled

(***************************************************************************)
(* The program comes to an end, whatever the files hold.                   *)
(***************************************************************************)
Exits == <>(phase \in {"printed", "refused"})
=============================================================================
