# A formal model of newfus

newfus is a compiler, written in C, for a small language of types (`.fus`
files). `fusc` reads files, keeps the types they define in a table of *defs*,
validates and sorts the table, and writes C declarations with their cleanup
functions. `tokentree` parses and prints S-expressions with the same lexer.

This directory holds TLA+ modules for the program's logic, TLC configurations
that check them on small instances, and proofs, checked by TLAPS, that hold for
every instance.

## 1. The system

| Part | Source | State | Operations | Used by |
|---|---|---|---|---|
| Lexer over a text | `lexer.c` | position, indentation of the line, stack of indents (a growing array), brackets due | `lexer_load`, `lexer_next`, `lexer_got*`, `lexer_get*` | parsers |
| Lexer over a tokentree | `lexer.c` | current node, stack of frames | `lexer_load_tokentree`, `lexer_next` | `tokentree -r` |
| Tokentree | `tokentree.c` | a recursive tree | parse, write, cleanup | `tokentree` |
| Writer | `writer.c` | separator due, depth | write a name, op, str, int, open, close | tokentree |
| Defs parser | `compiler_parse_defs.c` | defs, bindings, package; the C stack | `compiler_parse_defs` and one function per construct | `compiler_compile` |
| Validator | `compiler_validate.c` | the answer; the C stack | `compiler_validate` | `compiler_compile` |
| Sorter | `compiler_sort_defs.c` | two flags per def, the new array; the C stack | `compiler_sort_inplace_refs`, `compiler_sort_typedefs` | `compiler_compile` |
| Pipeline | `compiler.c` | the compiler, kept from file to file | `compiler_compile` | `fusc` |
| Type model | `type.c`, `type.h` | the types | predicates on tags, unaliasing | all passes |
| C emitter | `compiler_write.c` | none: reads the defs | one function per section of the output | `fusc` |
| Drivers | `main/*.c` | options | loop over the files | |
| Stores | `stringstore.c`, `array.h` | interned strings, growable arrays | find, add, push | all |
| Helpers | `str_utils.h`, `file_utils.c` | none | join, copy, read | all |

Everything is sequential and in one process: there are no threads, messages or
restarts. What is hard here is of another kind.

* **Recursion over graphs.** Types refer to each other by pointers, through
  aliases, in cycles. The validator and the sorter walk that graph recursively,
  each with its own idea of what to follow and where to stop.
* **One table, many hands.** A def is mentioned before it is defined, defined
  while another is being parsed, named by the file, by a package, by a binding,
  by the field it stands in, or by the array it is the element of.
* **Passes in sequence.** Each pass relies on what earlier ones have refused or
  arranged, and later ones may undo it. Flags and order stay in the defs from
  sort to sort and from file to file.
* **Answers that are due.** The lexer owes closing brackets, one per call.
* **Two places kept in step.** Over a tree the lexer keeps its place in frames
  and moves one call at a time; the parser keeps the same place in its own
  recursive calls. The writer keeps what is due before the next token in flags.
* **A format that is both written and read.** Strings are unescaped, stored,
  escaped and read again, through a file or a pipe, in two layouts.
* **Loops that only end if every turn makes progress.**

What makes each part correct:

* Sorter: a permutation of the defs in which each comes after its children, or
  a cycle reported, and then there is one.
* Validator: accepts exactly the programs that keep the rules, and returns.
* Pipeline: accepts exactly the programs that can be compiled; no unaliasing
  before aliases are known to end.
* Parser: one def per name; what is being parsed stays where the parser thinks
  it is; what is finished stays as it is.
* Emitter: every name of the output is declared before it is used and defined
  exactly once, and every field held by value has a complete type.
* Lexer: brackets made from indentation are the offside rule; no text is lost;
  it gets to the end.
* Tokentree and writer: what is written reads back as what it was.

## 2. The modules

```
TopoSort  <--implements--  DefSort  <------------------  DefSortProofs  <---+
                              |                                            |
TypeGraph  <--  Validate <----|----------------------  ValidateProofs  <---|
    ^              ^          |                            |               |
    |              +--- CompileDefs <-- Fusc <-- MCFusc    |               |
    |                                  |   ^               |               |
    +--- Emit <------------------------+   +---------------|---  FuscProofs
    |                                                      v               |
    +----------------------------------------------  TypeGraphProofs  <----+
                                                           |
ParseDefs  <--  ParseDefsProofs ----------------------->  Loops
                                                           ^
Lexer  <--  LexerProofs -----------------------------------+
  ^                ^                                       |
  |                +----------------- TokentreeProofs -----+
  |                                          |
  +------------ Tokentree <------------------+
                 |     |  ^
                 |     |  +--- MCTokentree
                 v     v
TreeParse <-- TreeLexer  Writer
```

MCDefSort, MCValidate, MCParseDefs and MCLexer give small instances of the
modules they are named for. Fusc and Tokentree are the two programs, composed of
the components they call.

**TopoSort** is what a sort promises: in one step the list is rearranged so that
children come first (and left alone if they did already), or refused because of
a cycle, or refused for want of memory.

**DefSort** is `compiler_sort_defs`. `stack` is the C stack of `sorter_visit`;
one action each for the failed `calloc`, clearing the flags, a call from the
loop over the defs, a call from `visit_children`, the push, and the swap. What
`visit_children` visits is the constant `Graphs`: any relation. `StaleFlags` are
the flags earlier sorts may have left behind.

**TypeGraph** has no state: types as records of a tag and references, and the
functions of `type.h` and of the callbacks on them: which tags are pointers,
unaliasing, `InplaceKids` (`visit_inplace_refs`), `TypedefKids`
(`visit_typedefs`), `MarkedKids` (the set of defs the validator may go on to
from a def). Unaliasing, and the selection of the references to be visited, are
recursive functions, which bear proofs.

**Validate** is `compiler_validate`: the loops over defs and fields and the
three recursive walks, one activation per call. A walk looks at the fields of a
def one after another: it passes by what is not marked (`NotMarked`), calls
itself for what is, or reports. `MaxCalls` is the depth at which
the C stack is used up; it exceeds the number of defs, so that only a walk that
repeats itself gets there. `Orders` are the lists it may be called with: any, as
long as a def that one of the list mentions is in the list too
(`SelfContained`).

**CompileDefs** is `compiler_compile` after the parser has returned. It
instantiates Validate and DefSort on its own variables (`Kids` depends on which
sort is running) and adds the order of the passes, what their errors lead to,
and the next file on top of the sorted defs of the first.

**Emit** is `compiler_write.c` for `fusc -a`: one action per def and section.
The sections are, in this order, the typedefs, the enum of types, the structs,
the prototypes, the table of types that the enum indexes, and the cleanup, parse
and write functions. What a C compiler has been told so far is kept as sets
(typedefs known, structs complete, macros, prototypes) and sequences (enum
constants, table entries, bodies); `faults` collects what it would reject.

**Fusc** composes CompileDefs and Emit: nothing is written unless every file has
been compiled, and an error ends the program.

**ParseDefs** is the recursive descent of `compiler_parse_defs.c`. `stack` holds
an activation for each construct that waits for a part of itself, `result` is
what `compiler_parse_type` returns. The input is any sequence of tokens: an
action is enabled by the state and stands for reading the tokens that select it;
`Fail` may happen anywhere. A `type_def_t *` is an index into `defs`; a name is
the sequence of the words it was joined from, so that names made up by the
parser can collide with names of the file. `compiler_get_or_add_def` and
`compiler_add_def` are operators because the code calls them from everywhere.

**Lexer** is `lexer_next` over a text, one action per turn of its loop. A
character is the class the code tests for. `tokens` is what has been returned so
far, with the place in the text each token stands for. The stack of indents is
an array that starts with room for `InitialIndents` and doubles; `realloc` may
fail any time it grows, and then the block is opened and forgotten (`room`,
`forgotten`), since nobody looks at what `lexer_push_indent` returns.

**TreeParse** is `tokentree_parse` as operations on the lists that are open;
**TreeLexer** is `lexer_next_tokentree` with its frames, and TreeParse reading
from it; **Writer** is `writer.c`: separators, depth and spellings.

**Tokentree** is the program `tokentree`: the lexer over a text, TreeParse,
the stringstore, the copy through TreeLexer (`--reparse`) and the writer in both
layouts. It runs on two files, and the second is what was printed for the first,
whole or through `read_stream`, so that what is written is also what is read.
A string is a sequence of characters (classes), because its escapes are what is
at stake; a leaf holds its place in the store.

In every module some definitions are marked "Seeded bug": an operation with a
plausible mistake in it, placed before the operation it is a variant of. They
are used by no specification. Each shows that a property can fail: with the
variant in the place of the operation, TLC finds the property violated
(PROJECT.json, "mutants", says which goes with which).

## 3. The runs

| Run | Module, configuration | Bounds | What it shows |
|---|---|---|---|
| `sort_all_graphs` | MCDefSort, DefSort3 | 3 defs, every relation of at most 2 children each (self-loops and repetitions included), a list of all three or of two that mention no third, flags clear or all set | The traversal implements TopoSort, finishes, never misses a def; the invariant used in the proofs |
| `validate_programs` | MCValidate, Validate3 | 3 defs, all in the list or two that mention no third, nearly all shapes of types, 4 calls of stack | The walks enforce exactly the rules; only a cycle away from the def being validated uses up the stack |
| `write_programs` | MCFusc, Fusc3 | 3 defs, two families of shapes, one file or two | See below |
| `parse_files` | MCParseDefs, Parse5 | 5 items (statements, members, types), names that collide | The table of defs stays consistent |
| `lex_texts` | MCLexer, Lex4 | Texts of up to 4 characters of 15 classes; texts of up to 4 lines of 5 kinds, indented by 0 to 2 blanks; room for 2 indents at first | The offside rule, also after a failed `realloc`; balance, nothing lost, an end |
| `print_trees` | MCTokentree, Trees4 | Texts of up to 3 characters of 13 classes, of up to 4 words of 7 kinds, of up to 8 names and brackets; chunks of 8 characters; every choice of options | See below |
| `output_compiles` | MCFusc, OutputCompiles | as `write_programs` | **Violated**: finding 1 |
| `partial_orders` | MCFusc, PartialOrders | as `write_programs` | **Violated**: finding 2 |
| `redefine` | MCParseDefs, Redefine | 4 items | **Violated**: finding 3 |
| `shared_arrays` | MCParseDefs, SharedArrays | 6 items | **Violated**: finding 4 |
| `func_loop` | MCParseDefs, FuncLoop | 4 items | **Violated**: finding 5 |
| `lex_forever` | MCLexer, LexForever | 2 characters, one class of them control characters | **Violated**: finding 6 |

`write_programs` follows a program through the whole compiler:

* `UnaliasEnds`: after validation no aliases lead in a circle, so the loops of
  `type_unalias` end.
* `OnlyKnownCycles`: the cycles that reach a sort are through arrays (first) or
  funcs (second), and no others.
* `EachSortInOrder`: each sort achieves its order; the second one's holds at the
  end, also for a table sorted for an earlier file.
* `CompilesIffAcceptable`: validation and sorts together accept exactly the
  programs that break no rule and have no cycle in either relation.
* `NamesDeclared`, `Links`: names in the output are declared before they are
  used, every function declared is defined once, although the code asks the
  question "has it a cleanup?" in two ways, and the table of types has its
  entries in the order of the enum that indexes it.
* `CompleteWithoutTypedefs`: without aliases and funcs nothing is wrong with
  the output at all, so finding 1 needs one of them.
* `Exits`: the program ends, with an error and no output or with all of it.

`print_trees` follows a text through the whole of `tokentree`, twice:

* `TokensUsed`: the trees, flattened, are the tokens of the file, in order and
  with their values, except that the token after a string is lost.
* `RefusesUnbalanced`: a file is refused only for what the lexer refuses or for
  brackets that do not pair up among the tokens taken.
* `FramesLeadToNode`, `ParserFollows`, `CopyIsSame`: the lexer's place in a tree
  and the parser's are one, and the copy is the original.
* `LaidOut`: what is printed is the layout, stated without the writer's flags.
* `ReadsBack`: what is printed reads back as the same trees, *if and only if*
  none of three things is the case (§4).
* `Exits`: the program ends, whatever is in the files.

### Why the bounds are enough

The sorter and the validator compare a def with one other at a time. Three defs
give every cycle of length 1, 2 and 3, cycles that do and do not contain the
def being looked at, diamonds (a def reached twice), and a list that is out of
order in every way; for the sorter the proofs cover all sizes. Two references
per def give both a reference before and one after the interesting one. In the
parser, five items suffice for a nested def inside a typedef, a member whose
type is a nested def with a member, an array of arrays, a name taken twice, and
a package or a binding in front of any of them. In the lexer, four lines allow
two blocks on one line or on two, closed together or one by one, by a line, a
comment or the end of the text. Four characters cover every pair of classes
with a character on either side, including an escape at the end of a text.
With room for two indents, the third block makes the array grow or fail, and a
fourth line can close what was remembered and what was not.

In `tokentree`, three characters give every string of one character; one of the
words is a string of an escaped quote; four words give a string before, between
and after other tokens, a list of any two leaves, and brackets that do not pair
up; eight names and brackets give
`((a) (b))` and with it every relative place of two lists: one after another,
one inside another, first, last or alone. What is printed for them is shorter
than a chunk of 8, as long, or longer by more than a chunk. All digits are 1:
leading zeros and numbers that do not fit an `int` are not in the texts.

### Fairness

The program is sequential code that runs until it returns, so weak fairness of
"some step of the program" is all that is assumed, and only in the
specifications that check that something ends: `FairSpec` (DefSort, Lexer),
`Spec` (Validate, Tokentree), `FuscSpec` (Fusc). ParseDefs has no fairness: its input may
stop anywhere.

In `lex_forever` the step that repeats leaves the lexer as it is, which is what
the code does: the counterexample is a stuttering state.

## 4. Findings

Each was also seen with the compiled program.

1. *The second sort undoes the first* (`compiler.c:121`). `compiler_sort_typedefs`
   orders by aliases and funcs only and moves structs while doing so. In the
   emitted C a struct may then come before a struct it holds by value.
2. *The sorts get cycles* (`compiler_validate.c:147`). An array that is its own
   element type, or a func that mentions itself, passes the validator; the sort
   reports it as its own error. The program is refused either way.
3. *A nested type can define the def being defined* (`compiler_parse_defs.c:687`).
   `typedef A: array: struct A` makes A a struct and then an array, though a
   second definition is an error everywhere else.
4. *Arrays of different types share a def* (`compiler_parse_defs.c:227`), when
   the names of the types are spelt alike: all externs are, and a def named
   `int` and the basic type.
5. *The parser does not return* (`compiler_parse_defs.c:389`) from the body of a
   func that contains anything but `ret` and `args`.
6. *The lexer does not advance* (`lexer.c:575`) past a control character.

Not findings of a run, but modelled and stated in properties as what the code
does:

* The walks of `compiler_validate.c` exhaust the stack on a cycle that does not
  pass through the def they began at (`OverflowIsForeignCycle`).
* A blank at the end of a line joins it with the next, because
  `lexer_eat_whitespace` eats newlines (the exception in `LayoutIsOffside`).
* A block whose indentation cannot be remembered (`realloc` fails) is opened and
  never closed (`forgotten`, in `Balanced` and `LayoutIsOffside`).
* The token after a string is lost when a file is parsed into trees:
  `lexer_get_const_str` advances, and `lexer_get_str`, which it calls, has too
  (`TokensUsed`). It may be a bracket, and then the file is refused or parsed as
  another tree.
* In the indented layout two lists may run into each other, as an opening
  bracket does not write the newline that is due (the exception in `ReadsBack`).
* A stream longer than a chunk is cut short: its end is marked at the length of
  the last chunk (the exception in `ReadsBack`).

## 5. The proofs

### Sorting

`DefSortProofs` proves about DefSort, for any finite set of defs, any family of
relations, any lists of distinct defs and any stale flags (the ASSUMEs of
DefSort; TLC evaluates them in `sort_all_graphs`). A list need not hold every
def: after the first of several files the rest is not there yet. What is
required (`Complete`, in `Init`) is that it holds the children of its own defs,
as the parser sees to by adding a def when it is mentioned:

| Theorem | States |
|---|---|
| `TypeCorrect` | the type invariant |
| `SorterInvariant` | `Inv`, the inductive invariant |
| `PushesInOrder` | what has been pushed is in order and distinct, always |
| `VerdictsAreRight` | success implies no cycle, and a reported cycle is one |
| `NeverMissed` | the count check at the end never fails |
| `Stable` | a list in order is returned as it is |
| `Refinement` | every behaviour is one of TopoSort |

`PushedInOrder` is not inductive: that the def about to be pushed has all its
children pushed is a fact about the activation that pushes it. `Inv` adds it,
in five parts. `ListPart`: the list keeps the children of its defs, and only its
defs are ever flagged. `PushedPart`: the sorted flags mark exactly what has been pushed,
and no cycle runs through a pushed def. `StackPart`: the sorting flags mark
exactly the activations, each of which is visiting the def of the next, and
whose earlier children are sorted. `RootPart`: roots already passed are sorted.
`StablePart`: in a list in order no root finds a child that is not sorted.

The argument that a reported cycle is one (`BackEdgeIsCycle`): the def found
with its sorting flag set is on the stack, and from there to the top each
activation is visiting the next; these defs are a set that every member has a
child in, which is what a cycle is here (`Trap`, which avoids paths and so
induction). The argument that the count check succeeds (`SameLength`): two lists
of distinct defs that hold the same defs are equally long, by counting
(FiniteSetTheorems).

### Validation

`ValidateProofs` proves about Validate, for any finite set of defs, any set of
programs over them, any list of defs that holds what its defs mention, and a C
stack for more calls than there are defs (`ProgramsAssumption`,
`OrdersAssumption`, `MaxCallsAssumption`):

| Theorem | States |
|---|---|
| `TypeCorrect` | the type invariant |
| `AnswersAreRight` | what is accepted keeps the rules, what is refused breaks one |
| `OverflowsAreForeign` | the stack only runs out in a cycle without the def being validated |

The rules (`WellFormed`) know nothing of walks, and the walks nothing of the
rules; the invariant connects them. `WalkOK`: the activations are a path from
where the walk began. `Checked`: while `ok`, everything behind the loops is good;
once not, the program is ill-formed. `Verdict`: so is the answer.

What a walk that returned has shown is the crux. It has shown nothing of cycles
elsewhere, so "no cycle is reachable" is not an invariant. `Safe(d)` is the
largest set of defs that marked fields do not leave and that `d` is not in; a
walk for `d` that returns from a def has shown that it is in `Safe(d)`. That no
def can reach itself then has to give that there is no cycle at all: a smallest
cycle (`SmallestCycle`) would be escaped by removing one of its members
(`GoodDefsSuffice`). An overflow is a path longer than there are defs, which has
a repetition by the pigeonhole principle (`LongPathIsCyclic`).

### Types

`TypeGraphProofs` holds what the other proofs need to know of TypeGraph's
functions. `type_unalias` and `type_def_unalias` are recursive functions; that
they are what their equations say is `RunExists`, and what they yield is shown
along the run (`UnaliasRun`): a chain of aliases that is not a circle ends within
as many steps as there are defs (`UnaliasPath`, by the pigeonhole principle), and
so unaliasing arrives at what is no alias and is the same for a def and for what
it is an alias of (`UnaliasFacts`). A list of references and the children selected
from it have the same members (`ThoseFacts`, `InplaceKidsFacts`,
`TypedefKidsFacts`), and a self-contained list stays so under either relation
(`KidsStay`), which is what the sorts ask of it.

`Loops` has the facts about numbers that this rests on: a set of naturals has a
least element, what every step of a loop passes on is so at its end, and a
function defined by recursion on its argument exists and is the only one, whether
the argument is a number, something that has a height (`DescentExists`), or what
is left of a sequence that is folded (`FoldExists`). They are facts about given
sets and functions, and so need no induction theorem that takes an operator.

### The pipeline

`FuscProofs` proves about Fusc, for any finite set of defs, any programs over
them, any order in which the parser may have found the defs, and any place at
which the files divide them (`ProgramsAssumption`, `OrderAssumption`,
`MaxCallsAssumption` of CompileDefs, which TLC evaluates in `write_programs`):

| Theorem | States |
|---|---|
| `PipelineTypeCorrect` | the table is the defs parsed so far, none lost and none twice |
| `UnaliasingEnds` | no aliases in a circle when a pass unaliases |
| `SortsInOrder` | each sort achieves its order, on a table sorted before too |
| `OnlyKnownCyclesPass` | cycles that reach a sort run through an array, or through a func |
| `CompilesExactlyAcceptable` | accepted are exactly the acceptable programs |

None of these is inductive, since each pass does its work in many steps and
another pass then moves the defs. The invariant is `PipeInv`:

* While a pass runs, it is in a state that its own module's invariant describes
  (`PassPart`): the steps of CompileDefs in that phase are steps of Validate or
  of DefSort, and a pass that begins finds an initial state of its module
  (`ValidateBegins`, `SortBegins`), for a sort whatever is left in the flags. What
  is used of those modules are their lemmas that a step keeps the invariant and
  that the invariant gives the answer (`ValidateIsStep`, `ValidateAnswers`,
  `SortIsStep`, `SortAnswers`), with the constants those of the pipeline.
* What a pass has assured is still so in the phases after it (`PassedPart`). That
  holds because it does not depend on the order of the table (`SameProgram`), and
  a sort only changes the order. The one thing that does depend on it is the order
  of the first sort, which the second may undo (finding 1); it stays where
  there are no aliases and funcs, as a list in order is left alone
  (`NoTypedefsInOrder`).
* What is refused is refused for a reason (`AnswerPart`).

`OnlyKnownCycles` compares two relations: the validator follows marked
references and aliases one by one, the first sort follows whatever is held by
value, with aliases skipped. `HeldCyclesAreMarked` takes a cycle of the second
kind without arrays and adds all aliases in it and between its defs; the result
is a cycle of the first kind. Cycles are sets that every member has a child in,
here as in the sorter.

### The emitter

Also in `FuscProofs`, under the same assumptions and two about names: no def has
the name of a basic type (`DefsAreNotTags`; the output declares entries for `any`
and `type` of its own), and none is called what the model calls the absence of a
macro (`NamesAssumption`).

| Theorem | States |
|---|---|
| `NamesAreDeclared` | every name is declared before the output uses it |
| `OutputLinks` | every function declared is defined once, and the table is in the order of its enum |
| `CompleteWithoutTypedefsHolds` | without aliases and funcs, fields held by value have complete types |

The invariant is `WriterInv`: nothing is written before everything is compiled,
and after that the section and the place in it say exactly what has been
(`Reached`, `Wrote`, `Part`). `KnownPart` gives the typedefs, complete structs,
macros and prototypes as functions of that, `ListsPart` the enum and the table,
`BodiesPart` the bodies. A typedef's children have been written before it
because the table is in the second sort's order (`KidsWritten`), as `PipeInv`
has it.

The crux of `NamesDeclared` is a name that is a macro. The prototype of an alias's
cleanup is `#define A_cleanup B_cleanup`, and the C preprocessor replaces it
again and again; the code asks `type_has_cleanup`, which unaliases. The two
agree (`ExpandedFacts`): where a def has a cleanup, replacing its name is
following the alias, one by one, because the alias has a cleanup exactly if what
it names has (`CleanupFacts`); so the name ends at the def's own unaliased def, a
def with a prototype of its own.

### Parsing

`ParseDefsProofs` proves about ParseDefs, for files of any length over any names
(`NamesAssumption`: names are sequences of words, and not empty):

| Theorem | States |
|---|---|
| `TypeCorrect` | the type invariant: every pointer held is to a def in the table |
| `NamesStayUnique` | one def per name, one binding per name |
| `PointersHold` | the pointer through which a type is written is still that member's |
| `ParsedShapes` | a file parsed to its end leaves every def in the shape the passes rely on |
| `FinishedStay` | a finished def is touched by what defines it, and by nothing else |

The invariant has a part for each thing the parser juggles: the defs and their
shapes (`DefsOK`), names and bindings (`NamesOK`, `BindingsOK`), which activation
stands on which (`StackOK`: the body of a def is being parsed at most once), which
reference has no type yet and who waits for it (`SlotsOK`), and what is being
returned (`ResultOK`). Every step is a change of one def (`Put`), then a push or
a pop; each is shown harmless to each part by itself, and the actions are
combinations.

### The lexer

`LexerProofs` proves about Lexer, for all texts and any room for indents,
whenever `realloc` fails:

| Theorem | States |
|---|---|
| `TypeCorrect` | the type invariant: the lexer stays within its text, its stack within its array |
| `BracketsBalance` | brackets due, blocks open and brackets returned account for each other |
| `BlocksNest` | indents grow along the stack |
| `TextAccountedFor` | every glyph is in one token, in a comment, or the colon of a block |
| `OffsideRule` | for a text of names, colons, comments and white space, the brackets made are those of the offside rule, with or without blocks that were forgotten |

`NothingLost` needs one fact more to be inductive: no token reaches past the
position (`LossInv`). `Progress` and `StackStep` say once what each branch of the
loop does to the position and to the stack.

The offside rule (`LayoutIsOffside`) is stated without a stack: a block ends with
the first later line that is indented no deeper than its own. `LayInv` relates
the two at every place where a turn of the loop may begin (`PlaceOK`): the indent
is that of the place's line; the stack matches, one to one, the blocks open there
(`Matches`); and what has been returned is what the rule has for all earlier
places and some of the brackets due at this one (`Written`), the others being due
or, at the end of the text, still on the stack. Each turn is quiet (`Quiet`): it
passes over no place where a line starts or a token is spelled. So it either stays in
its line (`OnAlongLine`), where the stack changes only by the block a colon opens,
or comes to the next (`OnToLine`), where what is popped is what the line ends: the
indents grow along the stack, so these are its top (`MatchPop`). That `Offside`
is the result of a recursion (`FlattenSeq`) does no harm: the sequence of its
prefixes is part of the invariant, and there is only one such (`RunUnique`).

### Trees read again

`TokentreeProofs` proves first about TreeLexer, for any set of trees of any size,
loaded one after another, each parsed to its end or abandoned:

| Theorem | States |
|---|---|
| `TreeLexTypeCorrect` | the type invariant |
| `FramesLead` | the frames are the way from the root to the node |
| `ParserKeepsUp` | the parser is where the lexer is and never meets a token it refuses |
| `CopyCorrect` | what is parsed from a tree is that tree |

These four together are inductive: the copy is right because of what the parser
holds of each list, and that because of where the frames lead. No induction over
trees is needed, as a list is compared with what it was copied from when it is
closed.

### The program tokentree

The rest of `TokentreeProofs` is about Tokentree: the lexer over a text, the
parser, the store, the copy and the writer, on two files, the second of which
holds what was printed for the first. It holds for any texts of the lexer's
characters and any room for indents (`LexerAssumption`, which TLC evaluates in
`print_trees`), any size of a chunk, and whenever `realloc` fails:

| Theorem | States |
|---|---|
| `TypeCorrect` | the type invariant; the writer is as deep as the lists being written, so `writer_write_close` never finds too few open |
| `TokensAlwaysUsed` | the trees, flattened, are the tokens taken, with their values: only the token after a string is lost |
| `RefusedIsUnbalanced` | a file is refused for an error of the lexer or for brackets that do not pair up, and for nothing else |
| `PrintedIsLaidOut` | what is printed is the layout of the trees, stated without the writer's flags |

They have one hypothesis, `Trees = AllTrees`. The constant `Trees` is a finite set
when TLC runs; what the program builds has any size and depth, and `AllTrees` is
just that: leaves, lists of leaves, lists of those, and so on. That it is a set
of trees as `TreesAssumption` has it is `AllTreesAllowed`.

The invariant is `ProgramInv`, in two halves. `ReadInv` is what has been read:

* `TokenInv`. The text's lexer is in a state that LexerProofs describes, for the
  second text as for the first (`LexStarts`, `LexRuns`). Which of its tokens are
  taken is a fold over all of them (`Kept`); `AskInv` says what the fold is about
  to do next, which is the same as where the caller stands (`asked`): the one
  call of `lexer_next` after a token, or the two after a string. A string has a
  place in the store, the place stays its (`StoredStays`), and a string that is
  found is not stored again.
* `TreesInv`. The trees that are done, the one at hand, and the lists still open,
  flattened, are the meanings of the tokens taken; and as many lists are open as
  brackets are (`Opened`), which is what a refusal is about. Each of the parser's
  operations adds one token to either side (`OpenAdds`, `CloseAdds`, `LeafAdds`).
* `CopyInv` is the invariant of the proofs about TreeLexer.
* `PhaseInv`: a tree is there to be written when it is being written, and a
  refusal has its reason. The reason is kept: nothing is taken after it.

`OutInv` is what has been printed. `LaidOut` speaks of whole trees, and only when
none is being written. In between, there is a sequence of items, those written
so far, which with what is left to be written (`Left`) makes up the tree at hand
(`Going`), and `out` is the layout of the trees before and of those items
(`Printed`). The layout looks back at the previous item to separate the next one,
which the writer does not: it keeps two flags and a depth. `Spaces` says that the
flags are what the last item calls for, and `DepthFacts` that the depth is the
number of lists open there, so `LaidGrows` matches what each call writes. The
layout of earlier trees does not change as the store grows (`RendersStay`), even
though a leaf is only a place in it.

What is said of trees and sequences here is defined by recursion: flattening
(`Flat`, `FlattenSeq`), the values of numbers and escapes, digits, brackets
counted. None needs an induction theorem: that a function of trees satisfies its
equations follows from `DescentExists` with the height of a tree, and a fold is
the function that `FoldExists` iterates. From the equations on, flattening adds
up, one element at a time (`FlattenCons`, `FlatsFacts`), and the invariant only
ever moves by one element.

### Only model-checked

* `ReadsBack` of Tokentree: that a printed text reads back as the same trees. It
  takes the lexer's whole run over a text that is only known to be the layout of
  some trees, so another invariant, on the lexer's place in that layout; what is
  proved is each half, what is printed for trees and what trees are made from
  tokens.
* All liveness (`Terminates`, `Ends`, `Exits`) is out of the prover's reach.

## 6. Not modelled

* Files and streams, apart from where `read_stream` puts the end; options that
  print single sections, `fusc`'s dumps, messages, rows and columns.
* Cleanup of the program's own data. Failed allocations, except in the sort, in
  `lexer_push_indent`, and wherever the parser's `Fail` stands for them: the rest
  end the program at once.
* The text of the emitted C beyond its names; upper-casing; the enums of the tags
  of unions. What the emitted functions do when they run.
* `!extra_cleanup` and `out`, which are copied through.
* What nothing calls: `writer_write_blockstr` and its `add_spaces`,
  `stringstore_get` (which after a failed `malloc` leaves an entry without
  data), `lexer_got*` over a tokentree, `lexer_parse_silent`.
* Numbers that do not fit an `int`; control characters in files of `tokentree`
  (finding 6 applies: it would not end).

## 7. Plan

1. **Reading back, by proof.** `ReadsBack` by an invariant on the second file: the
   lexer's place in the text is a place in the layout of the trees of the first,
   and the tokens returned are the items before it. `PrintedIsLaidOut` gives the
   text, `TokensAlwaysUsed` the trees.
2. **What the emitted code does**: cleanup of a graph of values, to state which
   objects it visits and in which order.
