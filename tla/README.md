# A verification of my-lang

my-lang is a compiler from a subset of C (functions, `int`, `void`, `enum`,
`if`/`else`, `while`, `for`, assignment, arithmetic, relational, bitwise and
logical operators) to RV32 assembly. It is one sequential process: it reads a
file, runs four passes over it and writes `asm.s`. Nothing in it is concurrent
and nothing survives a run, so what can go wrong is not a race or a crash but a
long chain of cooperating recursions and cursors: a character read too far and
put back, a token looked at but not taken, a register taken in one function and
given back in another, an offset chosen by the checker and read by the code
generator, a label numbered before a nested construct and emitted after it, an
array that moves while others grow.

The project models the four passes, the containers they keep their data in, the
machine their output runs on and, as the reference, C itself:

    file --Lexer--> tokens --Parser--> tree --Sema--> checked tree --CodeGen--> assembly --Rv32--> exit status
      |                                 |                                                             ||
      +--- LexerRef, Grammar: what C ---+--- Scoping: what names mean ---- CRef: the value in C -------+
           makes of the text

## 1. Inventory

| Part | Code | State | Operations | Uses |
|---|---|---|---|---|
| Lexer | `src/lex.c` | position in the input, tokens so far, line and column | `tokenize`, `tokenize_digit`, `tokenize_ident`, `next`, `back` | vectors, strings |
| Parser | `src/parse.c` | position in the token stream | one function per rule of the grammar, `expect`, `peek`, three-token lookahead | the lexer's tokens, constructors of the tree |
| Syntax tree | `src/ast.c` | nodes | constructors, dump | arena, vectors |
| Semantic checker | `src/sema.c` | chain of scopes, symbols, stack frames, annotations on the nodes | `sym_check`, `type_check`, `enter_scope`, `exit_scope`, `scope_lookup`, `scope_add`, `stackframe_add`, `warn_unused` | hash maps |
| Hash maps | `src/hashmap.c` | tables of chained nodes | `hashmap_new`, `hashmap_add`, `hashmap_get`, `hashmap_free`, `symtab_clone`, `type_env_init` | `malloc`, `free` |
| Code generator | `src/asm.c` | register pool, argument registers, six label counters, output file | `eval_*` for expressions, `gen_*` for statements, `alloc_register`, `free_register`, `emit_*` | annotations of the checker |
| Driver | `src/main.c` | options | `my_lang`: `tokenize`, `parse`, `sema_check`, dumps, `gen_asm` | all of the above |
| Containers | `src/util.c` | vectors (array, size, length), Strings (vectors of pointers to characters), C strings | new, push, get, set, append, clone, `as_str`, conversions | arena |
| Arena | `include/mylang/arena.h` | a list of regions | `arena_alloc`, `arena_realloc`, `arena_free` | `malloc` |
| Target | assembler, linker, `qemu-riscv32` (`run_test.sh`) | registers, memory, pc | the RV32 instructions | |

How they interact. `my_lang` calls the passes one after the other. Lexer and
parser share the vector of tokens, the later passes share only the tree. The
checker leaves on the nodes a pointer to the symbol each name was bound to; a
symbol carries a kind, a type, an offset, and for a function its parameters and
its frame size. The code generator reads all of these much later, and trusts
them. Inside each pass the interaction is by recursion: an `eval_*` function
holds a register in a local variable while it calls itself on the other operand,
and the global pool is how the two agree. Tokens, names, arguments and
statements are in vectors that share one arena.

What is hard, and what makes each part correct:

* **Reading one character too far.** The cases of the scanner end at a character
  that belongs to what follows and is put back, at the end of the file not at
  all. Correct: the text is cut where C cuts it, nothing is read twice or
  skipped but blanks and comments, every literal an `int` can hold keeps its
  value, tokens carry their line, the scan ends.
* **The end of the input.** `next` does not advance there but `back` steps back;
  a comment closed by it leaves an unset token; `peek` returns NULL and `expect`
  returns without a message. Correct: what is accepted lost no token and is what
  the file says; what is refused is refused for a token that is wrong.
* **Ten levels of operators.** Correct: every operator gets the operands C gives
  it, whatever stands around it.
* **The pool of temporaries.** Seven registers (`make_riscv`), handed out lowest
  first, freed by hand on every path of some twenty functions. A call in the
  middle of an expression marks the live registers free, evaluates its
  arguments with a pool that looks empty, and takes the registers back.
  Correct: exactly the registers that unfinished computations need are in use;
  none has two holders; none is overwritten while it is needed; a call saves
  exactly what its callers hold; every statement begins with the pool free.
* **The frame.** Return address, frame pointer, argument homes, locals, spilled
  temporaries and outgoing arguments are placed by formulas written out in
  several functions. Correct: areas in use at one time do not overlap, every
  return restores what the prologue saved.
* **Labels.** Correct: every label of the file is defined once, every branch has
  its target.
* **Scopes as copies.** `enter_scope` clones the parent's table. Correct: names
  are bound as C binds them; locals of a function do not share a slot; what is
  accepted is legal; what is legal is accepted; nothing crashes.
* **Unset memory.** `make_symtab_entry` leaves fields unset that other passes
  read for symbols of the wrong kind, and `tokenize` a whole token.
* **Memory that moves.** Arrays double into new blocks of an arena that other
  arrays and C strings lie in; hash nodes are made before it is known whether
  they are needed, and freed. Correct: containers are the lists and maps their
  callers think they are, independent of each other; no node is lost, shared or
  used after it was freed.
* **Both ends.** The emitted program computes what the source means.

Every such hazard is listed in `PROJECT.json` at its line with the properties
that guard it.

## 2. The modules

| Module | What it is |
|---|---|
| `Alphabet` | the characters and fixed spellings of the language (`lex.c`, `lex.h`) |
| `Lexer` | `tokenize` |
| `LexerRef` | the lexical rules of C, and the properties of the scanner against them |
| `LexerProofs` | theorems about `Lexer` and what `LexerRef` says of it |
| `Parser` | `parse` |
| `Grammar` | the reference for the parser: writes a tree out as the tokens C has for it |
| `FrontEnd` | composes `Lexer` and `Parser`; the properties of both together |
| `FrontEndProofs` | theorems about the parser, and that `FrontEnd` scans as `Lexer` does |
| `Ast` | the nodes as records, a program as a sequence of nodes and the list of its functions; what one component promises the next (`ProgramOK`, `InputOK`); `NULL` is 0 |
| `AstBuild` | for TLC only: writes programs as nested terms and flattens them into `Ast` programs |
| `Sema`, `SemaRef` | `sema_check`; its properties against the scoping rules of C |
| `SemaProofs` | theorems about `Sema` |
| `ScopeProofs` | theorems about `Sema` against `Scoping`: names are scoped as in C |
| `CodeGen` | `gen_asm` |
| `CodeGenProofs` | the inductive invariant of `CodeGen` and the theorems about it |
| `Rv32` | the machine (external) |
| `Scoping` | what C says of names: what is visible at a node, which declaration a use stands for, which programs are illegal (the reference, not code) |
| `CRef` | what C says of values: an interpreter (the reference, not code) |
| `Compiler` | composes `Sema`, `CodeGen`, `Rv32`; compares with `CRef` |
| `HashMap`, `Maps` | `hashmap.c`; the finite maps it implements |
| `HashMapProofs` | theorems about `HashMap`, and that it implements `Maps` |
| `Arena`, `Vector`, `Lists` | `arena.h` as it is used; the vectors of `util.c`; the lists they implement |
| `Strings` | the Strings and C strings of `util.c`, on `Vector` |
| `StringsProofs` | theorems about `Vector` and `Strings`, and that both implement `Lists` |
| `ListLemmas` | what the proofs need of sequences, folds and walks |
| `MC...` | the inputs TLC is given |

### Lexer

A step, `Tokenize`, is one turn of the loop of `tokenize`: it reads a character,
takes a case of the switch with everything that case reads, and pushes the
token, if there is one. `curr` is `Lexer.curr`; `Char` and `After` are `next`,
`Peeked` is `next` followed by `back`, which at the end of the file is one
character too far. Words and literals are the runs of characters
`tokenize_ident` and `tokenize_digit` collect; the value of a literal is summed
in an `int` that wraps at `IntLimit`, printed and read back, as
`tokenize_digit`, `int_to_str` and `str2int` do. The token that a comment at the
end of the file leaves unset has the value `Unset` and a type chosen from
`JunkTypes`. `Memory` is the number of tokens the arena has room for: the code
can ask for tokens for ever, and memory is what ends it. `from` and `to` of a
token are history: the characters it was made of.

### Parser

The C recursion is an agenda, `todo`, of the calls that have not been made yet,
and a stack, `vals`, of what calls returned. A step takes the first item and
does what its function does up to its first call, putting the calls that follow
in front of the agenda. `parse_*` functions of one shape are one action: the ten
levels of binary operators are `ParseOperators` with the level, and the loop of a
level is an item of its own. `Looks` is a lookahead: it stops at the first token
that differs, and reads NULL if that is the end of the tokens. Where the code
reads through that NULL, or through the value of a token that has none (`Stray`),
the step is a crash.

### FrontEnd

`Next` is a step of `Lexer`, then `StartParse`, then steps of `Parser` on the
vector of tokens the scanner left. The programs are written out from trees by
`Grammar`; `origin` is history, the tree and the tokens a file was written from.

### Sema

The C recursion of `sym_check` is an agenda `todo`: a step takes the first item
and does one case of the switch up to its recursive calls, which it puts in
front. `scopes` is the chain of tables (`enter_scope` appends a copy of the last
one, `exit_scope` drops it), `syms` the `SymTabEntry`s in the order they were
made, `symOf` the pointers left on nodes, `frame` and `params` the parts of a
function's symbol, `func` the current function, `used` the `is_used` flags.
`verdict` is `"symbols"` while `sym_check` runs, `"types"` while `type_check`
does, then `"accepted"`, `"exit1"` (a message and `exit(1)`) or `"crash"` (a
read through NULL or through a field never set). `type_check` changes nothing
but the verdict and is one step, `TypeCheck`, over the function `TypeOf`.
Memory `make_symtab_entry` leaves unset reads as `junk`, one word chosen from
`JunkWords` at the start; an unset pointer that is followed is a crash, with
one idealisation: the length read through an unset `params` is taken never to
be the number of arguments by accident. Parameters are added to the scope the
function definition is in, the global one, because that is what the code does
(`sema.c:279`). A table is a finite map, which is what `HashMap` shows the
tables of `hashmap.c` to be. The key of a symbol is a copy of the name
(`str_clone`); here it is the name, and that a copy reads like it and stays so is
shown with the strings. The fields `owner` and `decl` of a symbol are
history: the function and the declaration it was made for.

### CodeGen

The C recursion is the stack `ctl`: an activation records the control point it
stands at, its node, a loop index or label number `k`, the temporary it holds
in a C local across a recursive call (`reg`), and, for `eval_func_call`, the
registers it spilled (`freed[]`). What an evaluation returns is in `ret`. A step
runs one activation from one recursive call to the next, so the pool is
seen at every point where one activation can find what another left. `free` is
`Register.free`, `argReg` is `arg_reg` of the parameters with `is_arg_loaded`,
`counts` the six counters, `code` what has been written to the file: a sequence
of tuples, mnemonic first and operands in the order of the assembler text.
`stage` is `"idle"`, `"running"`, `"done"`, or `"exit1"` (`alloc_register` with an
empty pool; a node `eval_asm` does not know) or `"crash"`. A return whose symbol
is no function follows a frame pointer nobody set: after its value has been
evaluated that crashes (`RetWild`) or reads some number, one of `WildSizes`
(`RetMove`, `GenRetEmpty`). The formula for the size of a frame is written twice in
`asm.c` and here: `FrameSize` (`gen_func_def`) and `RetFrameSize` (`gen_ret`). Names of actions are those of the C functions; a
function with recursive calls inside is one action per segment (`EvalBinExp`,
`BinLeft`, then `BinInPlace`, `BinOneReg`, `BinLogical` or `BinTwoReg`).

A label is a tuple, its kind, number and ending, or the name of a function. In
the file both are text, so a function may be spelled like a label the generator
makes up (`if0`); `Lookalikes` says which names are and what they are read as.

The other constants are the sizes in `make_riscv` (`NTemp` = 7, `NArg` = 8) and
`REGISTER_SIZE`. They are parameters, so a run can make the pool small enough
to exhaust, and the theorems hold for all of them.

### Compiler

`Next` is a step of `Sema`, then `Generate` (`gen_asm` starts with what `Sema`
left), steps of `CodeGen`, `Boot` (assemble and link, possible only if the file
`Assembles` and immediates fit), steps of `Rv32`. `clash` is history: whether some
call sequence stored over a slot of the frame that was in use. `Rv32` keeps, as
history, the calls that have not returned with the `sp` and `s0` they were made
with.

### HashMap

`heap` is what `malloc` handed out and `free` has not taken back, `tables` the
first node at each place of every map. Every call runs alone, so each is one
step; what steps can get wrong together is the memory. `Insert` makes the node
first and frees it if the key is there. `SymtabClone` adds the entries of a map
to a new one in the order of the chains, `HashmapFree` gives back every node.
`my_malloc` ends the process when there is no memory (`Becomes`); the table of a
map comes from `calloc`, whose result is not checked, so that case may also
crash (`NoTable`). `hash` is any function from keys to places.

### Arena, Vector, Strings

An arena is the sequence of its regions, in words; an address is a region and
an offset. `Alloc` cuts a block from the last region or adds one: nothing resets
or rewinds the arena, so no region ever follows the current one. Every vector
has its array at an address, its size and its length; `mem` is what was written
where. `Grow` is `arena_realloc` into a block of twice the size with the old
words copied; `vector_get` and `vector_set` out of range end the process; the
assertion that `malloc` found memory aborts it. A String is a vector of pointers
to one-character blocks; `AsStr` copies it to a C string of one byte more than
its length, in words of `WordSize` bytes, and `names` remembers as history what
it said. `StrClone` copies a C string as `strlen` and `strcpy` do, knowing only
its address: up to the first word with a NUL in it, into a block of that size.

## 3. The runs

| Run | Inputs | Properties | Result |
|---|---|---|---|
| `Lexer` | every text of up to 2 characters; of up to 4 or 5 over four alphabets chosen around operators, comments, literals and words; every keyword with what may stand next to it. An `int` of 12 bits, memory for 8 tokens | `TypeOK`, `ScansLikeC`, `LinesRight`, `LiteralsKept`, `AbortsAtOperatorOnly`, `Ends` | hold, 35 312 states |
| `FrontEnd` | 3839 files: programs with every pair of levels of operators and every statement in every other, in three layouts; programs cut off at every token, with each token missing, replaced by or preceded by each of eleven | `TypeOK`, `ReadsBack`, `LosesNothing`, `TreeOK`, `BlamesWrongToken`, `Ends` | hold, 303 034 states |
| `SemaScopes` | three items (a declaration, a use, a nested block, loop or branch) over two names; a parameter of the same name in an earlier function; calls with 0 to 2 arguments of functions before, after, undefined, and of a variable; returns and operands of type void; a parameter with the name of a function, a variable in its own initialiser, an enum as a branch; an enum constant with the name of a function, in and outside it, before, behind and in the blocks of its returns | `TypeOK`, `ResolvesLikeC`, `LocalsApart`, `HandsOver`, `AcceptsLegal`, `CrashesOnlyOnIllegal`, `ReturnsOwnFrame` | hold, 45 560 states |
| `CodeGen` | every expression with up to two operators over a constant and a local; four wrappers deep; every operator; every control statement around every simple one and around every other control statement, in an `int` and a `void` function; three programs no assembler or linker takes (functions called `if0` and `_start`, no `main`). 4 temporaries, 2 argument registers | `TypeOK`, `PoolIsExact`, `OneHolder`, `SpilledIsHeld`, `StatementsStartFree`, `LabelsResolve`, `PendingValuesKept`, `CallAreaApart`, `Termination` | hold, 156 472 states |
| `Compile` | 945 programs: all operators and pairs of operators; control flow over a counter and an accumulator; calls, recursion, calls in calls; an enum constant with the name of the function. Two values of unset memory | `Translates`, `NeverWild`, `CallsBalanced` | hold, 249 856 states |
| `HashMap` | two maps, three keys of which two collide, two data, memory for four nodes | `TypeOK`, `HeapExact`, `ImplementsMaps` | hold, 39 804 states |
| `Vector` | two vectors of up to three values, arrays that start with one place, regions of three words, memory for four of them | `TypeOK`, `ArraysApart`, `ImplementsLists` | hold, 60 243 states |
| `Strings` | two Strings of up to three characters, two C strings, made or copied, regions of seven words | `StringTypeOK`, `NamesKept`, `ImplementsTexts` | hold, 262 731 states |
| `LexerComment` | a comment that nothing follows | `CommentsMakeNoToken` | violated |
| `FrontEndCut` | programs cut off at every token | `EndReported` | violated |
| `SemaLeakDef` | a local with the name of another function's parameter | `RejectsOnlyRedefinition` | violated |
| `CompileElse` | `if (1) x = 2; else x = 3;` | `AgreesWithC` | violated |

**Inputs are reachable.** The trees are ones the parser can build. The checked
programs `MCCodeGen` gives the code generator directly are ones the checker
accepts, with the frames and bindings it makes. That every component is given what
its model assumes is a property of the one before it: what the parser accepts
satisfies `ProgramOK` (`TreeOK`), which is what `Sema` assumes, and what `Sema`
hands over satisfies `InputOK` (`HandsOver`), which is what `CodeGen` assumes. Both
are theorems (section 4): what one component assumes is what the one before it delivers.

**Bounds.** The cases of the scanner look at most two characters ahead,
so texts of four or five characters over the characters of a case contain every
neighbourhood of it, at both ends of the file; an `int` of 12 bits overflows in
literals of four digits. The files of `FrontEnd` have one mistake each, which is
where a lookahead of three tokens can tell something about what it is for. With
four temporaries, the fewest with which every
operator can be translated, some expressions of `CodeGen`
exhaust the pool and end in `NoFreeRegister`, and others use it to the last
register; with seven the same paths would need deeper expressions
and would be the same code. Four levels of nesting are enough for a call
inside an argument inside a held operand inside a call, the deepest pattern
the accounting of `eval_func_call` distinguishes: its loop over registers does not depend on depth.
The statements nest two control statements, which is what it takes for
a label counter to advance between the labels of one construct. In `Compile` words are 16
bits (`WordBits`): wide enough for every immediate the code emits in these programs, and
the operand values (6, -7, 3 and results) stay in range in C as well, where a
result out of range would have no meaning to compare with. The stack starts
at 8192 (`StackTop`), which no program here uses up; memory never written reads
77 (`Garbage`), a value no program computes by accident. `Fuel` = 40 calls and
iterations bounds the interpreter of C, and only programs it finishes are
compared. In `HashMap` four nodes are a full map and part of its clone, and
two keys in one list are what it takes to overwrite behind another. In `Vector`
two doublings happen, across regions and within one. In `Strings` a C string
fills its words to the last byte with one length and not with another.

**Not vacuous.** Of the 945 programs of `Compile`, 816 reach the exit call with a
meaning in C and without any of the exceptions below: 669 of the 737
expression programs (the others divide by zero or shift by a negative amount,
for example), 51 of the 75 statement programs, 94 of the 129 call programs and 2 of the
4 with an enum constant that has the name of the function.

**Fairness.** `CodeGen!FairSpec` is `WF_vars(GenNext)`; `Lexer` and `FrontEnd`
have the same for their one step: the compiler is one process that the
operating system runs until it ends, and it waits for nothing. The liveness
claims are therefore exactly "the recursion (or the loop) comes back": every
activation must progress to its next control point, and the scanner, which can
read an operator at the end of the file again and again, ends because its
memory does. Runs whose properties
are safety only, those of `Sema` among them, use no fairness: that the checker
comes back from every node is not claimed. Deadlock is checked for
the passes, where the end of the process is an explicit stuttering action. The
containers do what they are called for: the calls may stop coming, and `HashMap`,
`Vector` and `Strings` bound how many they take, so those runs do not check
deadlock and claim only safety.

### Properties worth a word

* `ScansLikeC` compares the scanner, case by case with its `next` and `back`,
  with the longest-match rule over the whole text. It leaves out files with a
  NUL inside and files that end in a comment (`LexerComment`).
* `ReadsBack`: the tokens C has for a tree, with parentheses only where they are
  needed, are parsed to that tree.
* `LosesNothing` and `BlamesWrongToken` are what can be said of a file that is
  not a program: accepted, it is a program with its end missing
  (`FrontEndCut` shows that this happens); refused with a message, it is no
  beginning of a program up to the tokens the parser looked at.
* `PoolIsExact` is the balance of `alloc_register` and `free_register`: registers
  marked used = registers in C locals of activations since the innermost
  pending call + the register being returned.
* `PendingValuesKept` is about the output: no instruction emitted writes a
  temporary that an enclosing computation still needs, except the reloads
  after a call.
* `CallAreaApart` says how far the area of a call, placed by the size of the
  *callee's* frame, can be trusted. With at least as many locals as its caller a callee
  spills behind the caller's locals; with at most as many, the spills and
  arguments, however many, end inside the caller's frame; and nothing overwrites what a
  pending call has stored but a call inside that call. Outside
  these bounds the areas do overlap: that is the exception `clash` of the table below,
  and a test finds it only with the right pair of functions.
* `ReturnsOwnFrame`: a return is bound to its function by a search for the
  function's name at the return (`sema.c:332-339`), and its frame is what the code generator undoes. The
  one thing that can take the name is an enum constant, which is added without a check
  (`sema.c:344`); the property says that it does so where C sees the constant and nowhere
  else.
* `LocalsApart`: no two locals of a function that were given a slot share it,
  and none lies outside the frame.
* `ResolvesLikeC` and `CrashesOnlyOnIllegal` leave out programs in which a
  parameter has the name of a function: the code puts both into one scope, so
  whichever is added last takes the uses of the other, and a legal call of the function
  reads the parameter's unset `params` (`sema.c:279-290`). `ResolvesLikeC` also leaves
  out declarations that are a branch or the body of a loop, which the parser takes
  and C does not. A variable in its own initialiser counts as illegal: C lets it
  stand for the new variable, the checker for an outer one.
* `AcceptsLegal` is restricted to programs that use no name twice: reuse of
  names is where the checker rejects legal programs (`SemaLeakDef`).
* `HeapExact`: every node `malloc` gave out is in exactly one list, once, at the
  place of its key, and no key is twice in a list.
* `ImplementsMaps`, `ImplementsLists`, `ImplementsTexts` are refinements: every
  step of the memory is a step of the abstract maps or lists, or none.
* `Translates` is the correctness of the compiler. It excludes the following
  programs by name, because the code is known not to translate them; what is
  left has no further exception:

| Exception | The code |
|---|---|
| `FallsIntoElse` | no jump over the else branch, `asm.c:597` (`CompileElse`) |
| `clash` | the area for spills and arguments starts at the *callee's* frame size, `asm.c:322`; nested calls use the same argument slots, `asm.c:347` |
| `OpenEnded` | no epilogue at the end of an `int` function, `asm.c:718` |
| `AssignsParam` | a parameter is read from its home and written to an unset offset, `asm.c:912` |
| `EffectAfterLogic` | `&&`, `\|\|` evaluate both operands, `asm.c:447` |
| `LosesFrame` | a return inside a block with an enum constant named like its function, `sema.c:344`, `asm.c:612` |
| `ParamIsFunc` | a parameter with the name of a function, `sema.c:279-290` |
| `TooManyArgs` | more than `NArg` parameters only print a message, `asm.c:676` |

Other departures that have no run: a constant of more than 11 bits is emitted as
the immediate of `addi` (`asm.c:288`; `ImmediatesFit` states it, and `Boot`
requires it); a function named like a generated label (`if0`) defines that label
twice (`asm.c:83`), one called `_start` that of the program's entry (`asm.c:999`),
and a program without a `main` is given a call of it (`asm.c:1000`), none of
which the compiler asks about (`Linkable` leaves such programs out of
`LabelsResolve`, and `Boot` requires `Assembles` of every program); a use of another function's parameter is accepted
(`sema.c:279`, the other side of `SemaLeakDef`); a call of an undefined function
reads through NULL (`sema.c:313`); operands of `int` and `void` are accepted
together, because `type_check` compares the left operand with itself
(`sema.c:127`).

Definitions called `Faulty...` are used by nothing. Each is the definition
below it with a plausible mistake, and each makes the property it is listed
with in `PROJECT.json` fail.

## 4. The proofs

TLC checks the runs above; the theorems hold for every value of the constants.

| Module | Theorem | Statement |
|---|---|---|
| `CodeGenProofs` | `Invariance` | `Spec => []Inv` |
| | `TypeCorrect` | `Spec => []TypeOK` |
| | `PoolExact` | `Spec => []PoolIsExact` |
| | `HoldersApart` | `Spec => []OneHolder` |
| | `SpillExact` | `Spec => []SpilledIsHeld` |
| | `StatementsFindPoolFree` | `Spec => []StatementsStartFree` |
| | `PendingKept` | `Spec => PendingValuesKept` |
| | `LabelsFound` | `Spec => []LabelsResolve` |
| | `CallsApart` | `Spec => CallAreaApart` |
| `SemaProofs` | `TypeCorrect` | `Spec => []TypeOK` |
| | `LocalsNeverMeet` | `Spec => []LocalsApart` |
| | `HandsOverAll` | `Spec => []HandsOver` |
| `ScopeProofs` | `BindsLikeC` | `Spec => []ResolvesLikeC` |
| | `CrashesOnlyWrong` | `Spec => []CrashesOnlyOnIllegal` |
| | `AcceptsAll` | `Spec => []AcceptsLegal` |
| `LexerProofs` | `ReaderStaysInside` | the reader and every token are inside the file |
| | `LexerTypes` | `Spec => []TypeOK` |
| | `CutsLikeC` | `Spec => []ScansLikeC` |
| | `LinesCount` | `Spec => []LinesRight` |
| | `LiteralsKeep` | `Spec => []LiteralsKept` |
| | `RunsOutOnlyThere` | with memory for a token per character, the scanner runs out of it only for a file that ends in an operator that looks ahead |
| | `AbortsOnlyThere` | `Spec => []AbortsAtOperatorOnly`, with that much memory |
| `FrontEndProofs` | `TreesOK` | `Spec => []TreeOK` |
| | `NeverShort` | the parser's part of `TypeOK`: no function finds less on the stack than it takes |
| | `ScansAsAlone` | every behaviour of `FrontEnd` is one of `Lexer` |
| | `FrontEndTypes` | `Spec => []TypeOK` |
| `HashMapProofs` | `TypeCorrect` | `Spec => []TypeOK` |
| | `HeapStaysExact` | `Spec => []HeapExact` |
| | `HashMapsAreMaps` | `Spec => ImplementsMaps` |
| `StringsProofs` | `TypeCorrect` | `Spec => []TypeOK` |
| | `ArraysNeverMeet` | `Spec => []ArraysApart` |
| | `VectorsAreLists` | `Spec => ImplementsLists` |
| | `StringsTyped` | `StringSpec => []StringTypeOK` |
| | `NamesStay` | `StringSpec => []NamesKept` |
| | `StringsAreTexts` | `StringSpec => ImplementsTexts` |

**Assumptions.** They are the named `ASSUME`s of the modules, and every run
evaluates those of its own:

* `SizesAssumption`: the numbers of temporaries and argument registers and the
  word size are positive.
* `WordsAssumption`: 16 is a multiple of the word size, so a frame is aligned to whole
  words. `WildAssumption`: a size read through an unset pointer is a natural number.
* `InputsAssumption`: every program the code generator is given satisfies
  `InputOK`: nodes have the annotations the code generator follows, functions
  have different names and every call names one. It is what the checker must
  establish, and `HandsOverAll` proves that it does.
* `LookalikesAssumption`: what a function's name can be mistaken for is a label
  of one of the six kinds that are numbered, and `_start` is none of them.
* `SemaAssumption`: every program the checker is given satisfies `ProgramOK`,
  which is what the parser must establish, and `TreesOK` proves that it does.
* `ArenaAssumption`, `VectorAssumption`, `StringsAssumption`: sizes are natural
  numbers, an array starts with a place, a word has a byte, no character of a
  String is the NUL that ends it, and unwritten memory is told apart from what
  the program writes.
* `LexerAssumption`, `FrontEndAssumption`: a letter is neither a digit nor a
  character with a case of its own, an `int` has a range, the type of an unset
  token is some type.
* `HashMapAssumption`: `hash` leads into the table, NULL is no address, and the
  names `type_env_init` adds are different (`hashmap.c:175-183`).

`AbortsOnlyThere` and `RunsOutOnlyThere` also say how much memory there is
(`Len(t) <= Memory`): with less, any file runs out of it. Nothing else is assumed:
programs have any size and depth, files any length.

**The code generator.** None of the properties is inductive. That the
pool is exact after `BinTwoReg` frees two registers needs to know that the
activation held one and that it is not the one returned; that a statement
finds the pool free needs every activation below it to hold nothing, back to
the last pending call. `Inv` says it activation by activation: `FrameOK(c, j)`
says what position `j` of the stack `c` relies on from the positions below:
it holds a register exactly at the points between its operands; that register
is not held below; a pending call has spilled exactly what was held
below; nothing is held below a statement; and the activation below waits for
a register exactly if this one evaluates an expression. `Fits` adds that
the control point suits the node.

A step only touches the top of the stack, and `FrameOK(c, j)`
depends only on `c[1..j]` (`HeldPrefix`, `FrameOKPrefix`). So three lemmas carry
everything: a return pops (`PopKeepsInv`), a local step changes the top
(`BecomeKeepsInv`), a recursive call changes the top and pushes
(`CallKeepsInv`); each reduces `Inv'` to a few facts about the top frame and
the pool. `FirstFacts`, `TakeFacts`, `SuppliedFacts`, `ReleaseFacts` are the lemmas
about the pool (what is allocated was free, and so on; that a nonempty set of
naturals has a minimum is `LeastElement`, from well-founded induction). Then one
case per action: `EvalKeepsInv`, `StmtKeepsInv`, `FuncKeepsInv`,
`GenAsmKeepsInv`, put together in `NextKeepsInv`.

The second part of `CodeGenProofs` adds what the steps emit. What is emitted is the tail of the
file, for which the file must be a list (`CodeOK`); every instruction a step of
an expression emits writes a register it has just taken from the pool, which by
`Inv` nobody holds, or the one it holds itself, which nobody holds below it
(`FreshFacts`, `EvalKeeps`); below a statement nothing is held (`StmtHarmless`).

The third part is about labels. That they resolve holds of a finished file only;
while the file grows, a branch to the end of a loop has no target yet. `LabelInv`
treats that as a debt: an activation of a control statement `Owes` the labels it
will still define, and one of the program those of the functions it has not come
to. Every label that is branched to, and every function's, is defined or owed
(`Settled`); what an activation will jump back to (`Laid`) is defined. A label is
defined once because no two activations owe the same, nobody owes one that is defined,
and every number in the file or on the stack is below the counter of its kind
(`Numbered`), so that a construct that begins gets one nobody has (`Fresh`).
`&&`, `||` and the comparisons define in one step what they branch to. The lemmas
called `...Settles` say of each action that it defines what it no longer owes; the
empty stack at the end owes nothing. The labels of functions are apart because
functions have different names, and a call finds its label because the checker found
its function (`InputOK`).

The last part is about the area of a call. Where a slot lies is arithmetic on the
numbers of locals of caller and callee (`SlotPlaces`); it needs to know that a call that waits
for an argument has one more (`Wanted`), so that the slots below it are all of its
own, and that the second activation on the stack works on a function (`InFunction`),
whose frame is the one being filled. `AreaInv` says both of every stack; a step returns,
changes the top or pushes (`StackMove`), and only `CallNextArg` begins to wait.

**The checker.** A local lies inside its frame and behind the locals made before
it because `stackframe_add` hands out the end of a frame that only grows
(`Layout`). For that a declaration must be met inside a function: until the
first function is entered the agenda holds nothing but functions (`Running`),
since a function is no child of another node (`NodeOK`). That every binding names a symbol needs
more for one case: a return looks up its function by name, which is
found because every open scope has the name. So scopes must be opened and closed
in pairs, and a function must be met when only the global one is open:
`AgendaOK` says that the items on the agenda can be numbered with the depths at
which they will be met. `AgendaTail`, `AgendaVisit` and `AgendaLeave` are the
three ways a step changes the agenda; `PlainStep`, `BlockStep` and `DeclareStep`
reduce the cases of `sym_check` to them; the definition of a function, which
replaces frame, scope and current function at once, is on its own
(`CheckFuncDefKeeps`).

That names of functions differ, and that a call that is let through names one, is
`Named`. The functions not yet met are the ends of the agenda (`FuncsLeft`); those
met have their names in every open scope, since a scope is a copy of the
one around it and every name is added to the innermost one; so a second function
of the same name finds the name taken and is refused (`FuncDefNamed`), and a
call looks up a symbol made for a function, whose name is among those met
(`UsesNamed`).

`HandsOver` is about every node of the program, and `sym_check` is called with a
node only if its parent's case calls it. `Reached` keeps the set of the nodes it was
called with: what those point to is in the set or on the agenda, and so is their
annotation, which a definition gets only after its initialiser (`Followed`). Each
case of `sym_check` calls what it must (`PartsFollow`, `BlocksFollow`, ...;
`FollowStep` is what they share). When the agenda is empty the set contains the functions
and the children of its members, and every node is below a function: a child is made
before its parent, so of the nodes that were not met there would be a last one, whose
parent was met (`AllMet`).

**The scopes.** `ScopeProofs` compares the copies of tables that `sema_check` pushes
and pops with what C says is visible at a node. `Scoping` says that from the
functions downwards: a node sees what its parent passes to it. Each node has one
parent, made after it (`NoneShared`, `NodeOK`), so there is such a function
(`VisibleExists`, `IsVisible`). The invariant lays the agenda on the scopes
(`SeesLikeC`): what is visible at the first item is what the innermost scope holds;
each item sees what is there after the one before it; and behind an item that leaves a scope,
one sees the scope around. Each case of `sym_check` puts its parts in
front of such an agenda (`LaidInFront`, `LaidInside`, `LaidLeave`), and a declaration
adds to the innermost scope what C adds (`Makes`, `MakesShows`). So a use finds the
symbol made for the declaration C has for it (`Agree`). For the verdicts one must
also know which symbols have parameters (`Marked`), that no node is checked
twice (`Once`), so that no declaration meets its own entry, and that every entry of
a scope is named after a declaration made before (`Entered`), so that a name that is taken was
declared by another. `CrashesOnlyWrong` follows: where the checker reads through a
wild pointer, the name called is not visible in C or is no function's; and `AcceptsAll`: a program that uses no name
twice and is refused has a use, not a declaration, that C refuses too. Both are as
`SemaRef` states them: programs in which a parameter has the name of a function are
left out (`ParamsApart`, the exception `ParamIsFunc` of section 3; `AcceptsLegal` has
no need of it, since there no name is used twice), and of `ResolvesLikeC` also those with a declaration as the body of an
`if` or a loop, which C does not have (`Misplaced`).

**The vectors.** That arrays lie apart is inductive only together with: each
lies in what the arena gave out, and its size is positive (`Inv` of
`StringsProofs`). A block the arena gives out lies behind all it gave out before
(`AllocGivesFree`), so an array that moves there meets no other
(`PutKeepsTable`), and what is copied or written there is no word of another
vector (`WordsElsewhere`, `CopiedWords`). The refinement then takes, for each
call, what it does to the contents of its vector and of the others; a growing
vector stutters with the push it is part of.

**The strings.** The characters of a String and the words of a C string lie in
blocks that no vector lists, so the invariant of the vectors says nothing of
them. `TextInv` says that all these blocks lie in what the arena gave out and
meet no array (`Outside`). `Spares` says that what is outside stays outside and
keeps its words whatever a vector does, and `BlockWritten` that a new block is
behind all of them. `string`, `string_clone` and `as_str` do many such steps in
one call; they are folds, and the lemmas follow the value of a fold turn by turn
(`TurnsExist`, `AppendsInTurn`, `WritesInTurn`). `str_clone` is given an address only.
That it copies what `as_str` wrote there, no word more or less, rests on two facts: the characters
of a String are not the NUL, which is part of what `TextInv` says of a name, and so
the last word, and no other, has the NUL in it (`LastEnds`, `ThereFacts`).

**The hash maps.** Searches follow pointers until NULL. That they come back at
all is part of the invariant: `Good` says that the nodes of the memory
lie on lists that end in NULL, one for each place of each map, every node on
exactly one and once, at the place of its key, no key twice. No part of it is
inductive alone: a node is hung behind the last of its list, which changes no other
list because lists share no node; an address can be handed out again after
`free` because it is on no list left. `Shape` is `Good` with the lists given, and
`ShapeIsGood` says that there is only one way to give them, so a step is proved by
naming the lists after it. `symtab_clone` and `type_env_init` add entry by entry;
they are folds, followed turn by turn like those of the strings (`AddsInTurn`).

**The scanner.** `Inv` of `LexerProofs` says that every step takes at least one
character, one per token, until the reader is `Stuck` before the last
character; only an operator that looks ahead can put back what it did not read.
For `ScansLikeC` the invariant is `ScanInv`: the tokens made so far followed by
the lexemes C reads from here on are the lexemes C reads in the file
(`Spans \o LexemesFrom[curr] = Lexemes`), or the scanner is in the loop at an
operator at the end. What C reads is a recursive function of the position, from the
end of the file backwards; that it exists, and its value at every position, comes
first (`WalkHolds`, `WalkFacts`). Then every turn of the scanner is compared with
what C reads at the same place (`TurnScans`), case by case of the switch. The value
of a literal is a fold over its digits (`SumFacts`) and stays below `IntLimit` if the
literal does.

**The parser.** A constructor takes from `vals` what other calls have left there.
The invariant gives the stack a shape, the kind of every value on it, and every
item of the agenda an `Effect` on shapes; `Leads` says that the effects of the
items follow one another from the shape of the stack down to the empty one. A step
replaces the first item by others with the same effect together, one lemma per
function of `parse.c`. So a node is made of what its
constructor expects, made before it, which is what `ProgramOK` is about; when
the agenda is empty the stack is. No node is lost on the way (`Kept`): each is on the
stack, a function, or a child of another, because a constructor uses every node it takes
(`PartsAreChildren`), so when the stack is empty there are none but those of the tree. And
none has two parents: what is on the stack has none yet, and lies there in the order in
which it was made (`Apart`), so a constructor takes nodes nobody has, each once
(`BuiltOfParts`, `PartsMadeBefore`), and `NoneShared` holds. Nothing is assumed of the tokens, so this holds
of whatever the scanner made of whatever file.

`ScansAsAlone` is a refinement: the parser changes nothing of the scanner's, so a
behaviour of `FrontEnd` is one of `Lexer`, and what is proved of `Lexer` holds inside
`FrontEnd` by `Alone!LexerTypes` and its like.

**Only model-checked**, and why:

* `Termination`, `Ends`: liveness under fairness is outside what
  the prover does.
* `ReadsBack`, `LosesNothing`, `BlamesWrongToken`: `Grammar` writes trees out with
  recursive operators, about which the prover knows nothing. The same holds of
  `Translates`, `NeverWild`, `CallsBalanced` in `Compiler`.
* `ReturnsOwnFrame`: nothing stands in the way of a proof; it has not been written.

## 5. Not modelled

* Reading the input (`read_file`, and that its failure is not checked,
  `main.c:25`), options, dumps of tokens and tree, warnings (`warn_unused` prints
  only), comments in the output: input and output without influence on the rest.
* Functions nothing calls: `my_realloc`, `make_token`,
  `is_func_def_start`; of the vendored arena everything but allocation,
  reallocation and freeing (reset, rewind, trim, snapshots, formatting, other
  backends).
* The width of immediates beyond the condition in `Boot`, and programs with more
  than eight parameters: the code does not handle them.
* The Makefile and CMake files, the Docker image, the test scripts.

What could still be added: `EvalStack`, evaluation with an unbounded stack of
values, as an abstract specification that `CodeGen` with its pool implements.
