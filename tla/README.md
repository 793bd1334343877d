# A verification development of the SysY compiler

The repository holds a compiler for SysY, a subset of C, written in C++ with
flex and bison.  It reads one source text, writes Koopa IR (`-koopa`), or hands
that IR to libkoopa and prints RISC-V assembly from the raw program the library
returns (`-riscv`).  The program is sequential and keeps nothing between runs.
What makes it hard is that its passes are recursive walks that talk to each
other through some thirty global variables: counters, flags, "current" pointers
and static stacks which every activation of every method shares, and which one
activation reads after another has changed them.  The second difficulty is that
several decisions are taken twice by passes that never compare notes: the size
of a frame and the offsets in it, the names of globals and their order, the
form of an operand and the forms a later pass accepts.

The modules here state what has to come out of that sharing, check it on all
small programs, and prove part of it for all programs.

## 1. The system

### Passes and what they share

    source text --sysy.l--> tokens --sysy.y--> tree --Dump--> k_str (Koopa text)
                                                 |               |
                            map_space_needed_for_function     libkoopa
                                                 |               |
                                                 +--> Visit <----+ raw program
                                                        |
                                                     assembly

`main` (main.cpp:1352) calls `yyparse`, then `global_var_init`, then
`ast->Dump()`, and for `-riscv` `generate_raw_program` and `Visit(raw)`.  The
passes run one after the other; inside a pass all interaction is recursion plus
globals.

### Components

| component | source | state it keeps | operations |
|---|---|---|---|
| lexer | sysy.l | none | one rule per token |
| parser | sysy.y | bison's stack; static stacks and vectors of members | one semantic action per rule, some in the middle of a rule |
| compilation unit | CompUnit, CompUnitEle | chain of elements | `Dump` in order |
| functions | FuncDef, FuncFParam(s), FuncRParams, FuncType, SpaceNeeded | `map_space_needed_for_function`, `cur_map_iter_for_func_space_needed` | definition, parameters, arguments, rounding of the frame |
| statements | Stmt, Block, BlockItem | `unused_koopa_label_count`, `last_ins_is_ret`, the labels in each while | the eleven cases of `StmtAST::Dump` |
| short circuit | LOrExp, LAndExp, LOrOp, LAndOp | `%temp_l_result_N`, counters | branch on the left side, store, join, load |
| other expressions | Exp ... Number, UnaryOp ... EqOp, LVal, CalData | `is_calculating_const_exp`, `unused_koopa_count`, one CalData per node | fold to a number or emit one instruction |
| declarations | Decl, VarDecl, ConstDecl, VarDef, ConstDef, InitVal, ConstInitVal, InitList | `is_calculating_const_exp`, `unused_koopa_var_count`, the queue of global names | scalars, arrays, placing of initialisers |
| symbol tables | SymbolTable, Symbol, Variate, Function | a tree of maps, `cur_symbol_table` | insert, find through the fathers, enter and leave a scope |
| back end | main.cpp 141-1346, riscv.h | `sp_dev`, `ins_map`, `global_var_name_map`, `label_j_count` | one `Visit` per kind of value, one macro per instruction |
| globals queue | main.cpp, VarDef, ConstDef | queue of names | push while dumping, pop while visiting |
| driver | main.cpp | files | arguments, `itostr`, output |
| debug tracing | Debug | depth | printing |

### Where it is hard, and what makes each part correct

PROJECT.json lists the single hazards with their lines.  In groups:

* **One flag for many callers** (`last_ins_is_ret`).  A nested `Dump` sets it,
  an enclosing one consumes it, at eleven places.  Correct means: every basic
  block of the text has a label and exactly one terminator, and while a `Dump`
  is active the flag says exactly whether the last line is a return.
* **Names by arithmetic on counters.**  Operands are written as `count - 1`,
  `count - 2`, with one register burnt in between; labels are numbered before
  the nested statement is dumped and written behind it.  Correct means: every
  operand was defined before in its function, no name is defined twice, every
  jump leads to a label of the same function, the constant-0 loop that drops its
  body included.
* **Meaning of the control flow.**  The emitted text, run, evaluates and stores
  what the source would, in the same order, and its loops end when the source's
  do.
* **Frames decided twice.**  The front end sums `variate_needed`, the back end
  advances `sp_dev`.  Correct means: slots do not overlap, lie above the
  outgoing arguments and below the saved return address, and every operand that
  is looked up has a slot.
* **Static stacks in the parser.**  Lists nest in lists of their own kind while
  the variables that collect them are shared.  Correct means: each node has the
  members of its own text, in order; `break` and `continue` belong to the
  innermost while.
* **One flag for constant expressions** (`is_calculating_const_exp`).  Set and
  cleared by nested calls.  Correct means: an initialiser that must be constant
  folds to its value and emits nothing.
* **Initialiser lists.**  `Convert` walks three parallel vectors of iterators.
  Correct means: each value lands on the element the C rule gives it, and the
  data segment and the stores to a local agree on where an element is.
* **Names.**  A tree of tables, a current table that every block sets and has to
  restore, and one counter that makes names different.  Correct means: a use
  reaches the innermost declaration, and no two variables share a name, whatever
  the identifiers look like.
* **The queue of globals.**  The labels of the data segment come from a queue
  beside the Koopa program.  Correct means: each global gets its own label, and
  behind it the bytes that the code expects.
* **Operand kinds.**  Every `Visit` accepts some kinds of operands and ends in
  `assert(false)` on others.  Correct means: it accepts all the front end emits.
* **Code that runs.**  A value lives in the frame and nowhere else, `t0` to `t2`
  and `t6` are used by every macro, `ra` and the argument registers by every call.
  Correct means: the assembly, run, does line for line what the Koopa program
  says, at any depth of calls.
* **Numbers.**  Literals in three bases, the sign, `itostr` on the most negative
  number, offsets outside the 12 bit immediates.

There is no concurrency, no persistence and no message passing, so hazards of
those kinds do not occur.

## 2. Modules

### StmtDump - lowering of function bodies

Models `FuncDefAST`, `BlockAST`, `BlockItemAST`, `StmtAST`, `LOrExpAST`,
`LAndExpAST`, `LOrOpAST` and `LAndOpAST` `::Dump`.  The C++ call stack is the
variable `dump`: what the active `Dump` calls still have to do, innermost first.
One action is one stretch of a `Dump` between two calls of another one, so the
globals have at each action the values they have at that line.  `k_str` is a
sequence of IR items instead of characters; a name is a pair of a prefix and the
counter the code appends to it.  The other globals keep their names.

The trees are constants (`Exps`, `Stmts`, `Blocks`, `Programs`) with the
assumption `Grammar`: a node has the children its tag promises.  An expression
without `&&` and `||` is a number or one instruction that defines a register;
names, scopes and types are left out, except whether a variable with indices is an
array or an array parameter (`pointer`).  An assignment to an element dumps all its
indices first (`DumpIndex`), then the address: a `getelemptr`, or a `load` and a
`getptr` of the register before (`DumpAddress`), and one `getelemptr` of the register
before for each further index (`DumpElemPtr`); the register of the last one is kept
while the right side is dumped (`DumpElem`).

A break names the innermost loop of `dump`.  In the code it reads the labels that its
while has stored in itself; that the parser gives it the innermost while is
ParserStacks' `ListsAreSource`, and that those labels are of the current dump of that while
follows from each tree being dumped once.

### StmtRun - what the lowered body does

Extends StmtDump: when the text is complete it is executed next to the tree it
came from, in lockstep from event to event (evaluating a leaf, storing,
returning).  What a store writes to is an address: the variable itself, or what the
pointer in it points to, followed by the values of the indices.  The text builds it
from register to register, the tree index by index (`PlaceStep`), and the events
are equal only if both end at the same element.  The IR side is the meaning libkoopa and the back end give the text
and is marked external in the map; the tree side is the meaning of C, the
abstract specification of the lowering.  Each side is a function of its state
(`Written` and `Chosen` of an item and the values, `Step` of a part of the tree and
the last value), so that a proof can follow it; the value of an expression is 0 again
once a part has used it.  `HasFunction` says that a program that is run has a function.

### FrameLayout - the two walks over a frame

The front half repeats the `Dump` methods as far as they append lines and count
`variate_needed`, `params_needed` and `return_address_needed`; the back half
repeats the `Visit` functions as far as they look up `ins_map` and advance
`sp_dev`.  A line of Koopa is reduced to the bytes it needs, the lines it reads
and the callee.  Any text is allowed that the grammar can produce: at each
moment the next construct is chosen freely, and the open `Dump` calls (`open`)
restrict what can follow.  The values of a local array's initialiser are dumped before
its alloc; their registers, those of calls included, wait as `operands` until the
walk over the elements stores them: each innermost element gets a number or the next
of them.

### ParserStacks - the static stacks of sysy.y

One action is one stretch of a semantic action: an action in the middle of a
rule that pushes a vector, one that adds to the top vector, a reduction that
empties and pops it.  `parse` is bison's stack of open rules with, for each, the
members the text has given it (the specification's own record); the operands the
actions find there as `$n` are read from it and nothing else is.  All six stacks
of vectors and all five vectors or stacks of values that sysy.y uses are modelled.
`temp_vec_const_exp`, `temp_vec_exp` and `cur_while` are declared there and never
written.  The two statement rules that settle the dangling else are one here.

### ConstFold - expressions and is_calculating_const_exp

Models the `Dump` of every expression class and of the declarations, parameters
and statements around it, global and local.  The C++ call stack is `dump` again;
here each active call keeps the `CalData` its children have returned (`seen`), so
the place where the flag is read, set or cleared between two calls is a step of
its own.  `meaning` is the specification's own record of the source: the values
of constants and a memory of objects and elements, where a pointer is an object
with a path of indices.  The other side is `Machine`: the text emitted so far,
run on registers and the same kind of memory (the meaning of Koopa IR, external
in the map).  StmtDump and ConstFold meet at the leaf expressions, which
StmtDump takes to be one instruction; ConstFold takes the statements to be
expression statements and assignments.

A constant whose initialiser did not fold keeps a `val` that is not its value;
`Known` makes it Undefined, and nothing is claimed of what reads it later.  The
two properties that do speak of it are `ConstantsFold`, which says exactly when
this happens, and `GlobalsAreData`, which it violates.

### ArrayInit - where an initialiser puts its values

Models `Init`, `cur_init_index` and `Convert` of `VarDefAST` and `ConstDefAST`
(the code is the same twice) and the writing of the result.  The vectors of
iterators are one tuple of indices: an iterator points to an element of the list
that the iterator before it points to.  An initialiser is not a tree here: it is
read piece by piece (a value, a brace that opens, a brace that closes), which
is the order in which the recursive `Convert` comes to it, so every initialiser
of a shape is explored and none has to be listed.  Beside it the rule of C (6.7.8)
reads the same pieces: a brace opens the largest subarray that begins at the
current element and lies in the one around it.  `want` is the rule's array,
`init_list` the code's.  At the end of a list the iterators of the dimensions inside
it start again (`ConvertListEnd`).

The code does not follow the rule in all forms with three dimensions: it takes a
list that begins where the list around it begins for one of the same dimension, and
when a list of a deeper subarray ends the array, it moves an iterator behind its end()
and looks there for a list to start in.  `hard` marks these initialisers;
`PlacedByTheRule` claims the rule for all others.  Behind the array the code's
behaviour is undefined, and the model stops: in the phase `lost` a value is left and
there is no element for it, in the phase `past` the iterator behind its end() is
dereferenced.  `OnAnElement` is the assertion the code makes of a value
(VarDef.cpp:254), which ArrayInitCube violates.

### Scoping and SymbolTables - names

Scoping is the abstract specification: the program is a sequence of declarations,
braces and uses; a use means the declaration in the innermost open block that has
the name.  SymbolTables is the compiler: the `SymbolTable` objects with their
fathers, `cur_symbol_table`, the local variables in which the open `Dump` calls
keep the table to go back to (`saved`), `unused_koopa_var_count`, the lines of
`k_str` that define a name, the queue of globals, and the data segment that
`Visit` makes of it.  What the last use of a name printed is `used`.

SymbolTables implements Scoping (`Refines == Lexical!Spec`) under the mapping

| Scoping | SymbolTables |
|---|---|
| `env` | the maps of `cur_symbol_table` and of the saved tables, with the number of each symbol's declaration |
| `declared` | `declared`, a field that no action reads |
| `meant` | the declaration of the one line of `koopa` that has the printed name and is visible there; for a constant, the number printed |

so the father pointers that `find` climbs, the numbers and the text have to agree
for a use to be right; a name that is printed for two lines, or for none, is a
step Scoping does not have.  The root's father is never set by the code: it is
NULL or a wild pointer, by choice in `Init`, and the refinement holds for both
because a program uses no name that it does not declare.  Identifiers are tuples
of the parts that `_` separates, so that a user's `a_1` and the numbered name of
`a` can collide in the model as they could in the text.

### KoopaText, KoopaRun, RiscvCode and RiscvRun - the back end

KoopaText is the raw program as koopa.h describes it.  KoopaRun is the abstract
specification: what a Koopa program means, a line at a time, with activations
whose values nothing else can change and objects at addresses of their own; it
has no registers and no frame.  RiscvCode is the translation: one operator for
each `Visit` function and macro, with the operand kinds each place accepts
(`Accepted`; others end in `assert(false)`), and code as a sequence of
instructions.  RiscvRun first visits the program, then runs the instructions one
at a time on registers and one memory; a library function leaves junk in every
register it may change.

RiscvRun implements KoopaRun (`Refines == Koopa!Spec`) under this mapping:

| KoopaRun | RiscvRun |
|---|---|
| an activation | a call that has not returned, with its `sp` (`calls`, which no instruction reads) |
| a value | the word at its place in the frame; the result of a call is in `a0` until its `sw` |
| an object | the words of the frame from the alloc's place on; a global, those at its label |
| the arguments | `a0` to `a7` and the words above the callee's frame, until they are stored |
| the line an activation is at | the line `pc` belongs to; below, the line of the call |

Every instruction is a line of the Koopa program or a stutter.  The mapping looks
at the whole frame of every open call after every instruction, so a wrong offset,
an overlap, a register that does not survive a call or the way through `t6`, or
a stack argument that is written and read in two places is a step of no line.

FrameLayout is about the counting that gives the two sides of a frame, for all
texts; here the counting is a function of the text (`Space`, `SpDev`), and the
subject is what the code does with it.

### Numbers - literals, signs and itostr

A literal on its way: the lexer's `strtol`, the conversion to `int`, `NumberAST`,
constant folding of a minus, `itostr` with its stack of digits, and the reading of
the text by libkoopa.  `IntMax` is INT_MAX; an int is a number from `-IntMax - 1` to
`IntMax`, products wrap, and the negation of the least int in `itostr` is a choice
between wrapping and not, which are the outcomes builds of it can produce.

### MC modules

MCStmtRun, MCFrameLayout, MCParserStacks, MCConstFold, MCArrayInit,
MCSymbolTables, MCRiscvRun and MCNumbers give values to the constants.  SysYTrees enumerates trees: every function body up to a
size, and deeper bodies made of control statements only, with numbered leaves.
ExpTrees enumerates expressions by the precedence rules of sysy.y.  MCRiscvRun
makes programs of a way to produce a value and a way to use it.

### Proof modules

Facts has the lemmas that several components need: induction and recursion on the
natural numbers with sets and functions, counting in intervals, sequences that grow
at either end.  StmtDumpProofs is about StmtDump (the blocks and the flag, then the
names in the text), StmtRunProofs about StmtRun, FrameLayoutProofs about FrameLayout,
SymbolTablesProofs about SymbolTables (the tree of tables, the names, the refinement of
Scoping), ArrayInitProofs, ParserStacksProofs and NumbersProofs about the modules they
are named after.

### How the modules meet

    ParserStacks  lists of the tree      Numbers  leaves of the tree
    StmtDump + StmtRun   statements  ----+
    ConstFold            expressions     +-->  Koopa text  (SymbolTables: its names)
    ArrayInit            initialisers ---+         |
                                         FrameLayout: sizes and places
                                         RiscvCode, RiscvRun: code and its meaning

Each hands the next one something that the next takes as given: StmtDump takes
expressions to be leaves, ConstFold statements to be flat, RiscvRun a text with
the lines that the front end writes.

## 3. What is checked

| run | properties | bounds | states |
|---|---|---|---|
| StmtRun | TypeOK, BlocksWellFormed, RetFlagExact, LabelsUnique, BranchesLand, OperandsDefined; SameEvents, KeepsPace | bodies of 3 statements/operators, control bodies of 4, pairs of small functions; elements with one to three indices, of an array and through a pointer; leaves evaluate to 0 or 2 | 145 783 |
| FrameLayout | TypeOK, SlotsInFrame, SlotsApart, CallsFit, OperandsFound | a function of 9 parameters and one that calls it; 3 free lines; nesting 2; arrays of one and two dimensions | 432 608 |
| ParserStacks | TypeOK, ListsAreSource, OwnVectors, OwnMembers | 5 values before only what must follow may begin; 6 rules open | 623 593 |
| ConstFold | TypeOK, RegistersDenote, ConstantsFold, MemoryAgrees | expressions of 2 operators (all kinds), of 3 (one of each class), parentheses counted; in every place an expression can stand | 149 092 |
| ConstFoldRoot | GlobalsAreData, violated | expressions of 2 operators | - |
| ArrayInit | TypeOK, PlacedByTheRule, SameImage, Ends | every initialiser of seven shapes of up to 12 elements and four dimensions | 5 187 |
| ArrayInitCube | OnAnElement, violated | 2 x 2 x 2 | - |
| SymbolTables | TypeOK, FathersAreOpen, SymbolsUnique, DataInOrder, Refines | 3 identifiers; 2 numbered names; 4 tables | 134 522 |
| RiscvRun | TypeOK, OwnFrame, OnlyCallsRefused, Refines, Ends | 9 ways to produce a value x 19 ways to use one; every operator; a loop; recursion; `getint` returns -3, 0 or 2 | 20 203 |
| RiscvRefused | KindsExpected, violated | the results of calls as an index, and stored through a pointer | - |
| Numbers | TypeOK, NumberArrives | `IntMax` = 127 (8 bits), literals of 3 digits, negated or not | 22 066 |
| NumbersLeast | IntsPrinted, violated | the same | - |

Why the bounds are enough to be interesting.  Bodies of three reach each pair of
a construct nested in another and followed by a third: a return in a branch
behind which the join must not jump, a loop in a loop with break and continue
in an if, a constant-0 loop around a break, `&&` inside `||` in a condition.
Control bodies of four add one more level.  In FrameLayout nine parameters are
the least number that puts an argument on the stack, and three lines let a call
with its arguments follow or precede a value, an array and an assignment.  In
ParserStacks five values and six rules reach `f(x, g(y, z), w)`, `{{1}, 2}`,
`a[b[0]][1]`, a block in a while in a block, and declarations in each of them.
In ConstFold a parenthesis needs one operator around it and one more constant
operator behind it to show what the flag does, so three reach each order of the
two with a third operator of any class; the operand leaves are literals, a
constant, a parameter, an element of a two-dimensional array behind a pointer
and a call.  Left out there: zero divisors in constant expressions and `&&`,
`||` with a parenthesis at global level, where the code's behaviour is undefined.
In ArrayInit the shapes have one, two, three and four dimensions, with an inner
dimension of 1 (where an iterator moves its list to the end at once), and each
of their initialisers is read.  In SymbolTables four tables are a function with
two nested blocks, or one with two blocks in a row, or three functions, two names
are enough to shadow, to collide, and to be used behind the block that shadowed
them, and two globals tell a queue from a stack.  In RiscvRun the immediates are scaled: an offset fits an instruction
if it is in -32 .. 31, so that the frames of the programs have offsets on both
sides of the boundary, as those of a program with a large array have; nothing
else in the code depends on the value 2048.  The producers and uses are all the
kinds of operands in all the places `Visit` distinguishes.  The operands of `and`
and `or` are 0 or 1 there: for other numbers the code of `or` yields 0 or 1
(main.cpp:625) where koopa.h:307 says bitwise.  The front end writes such an `or`
for `||`, and asks for `!= 0` behind it (LOrOp.cpp), which is the same for both.  Addresses and words are
unbounded numbers; RV32's wrapping is the same as C's and Koopa's, so it would show
on neither side.  In Numbers 8 bits and three digits put the least and the
greatest int, and both sides of them in the two other bases, among the literals.

All runs check for deadlock; the only states where the modelled program stops
are those in which it has ended (`Finish`, `Over`, `Finished`).

**What ConstFoldRoot shows.**  `ExpAST::Dump` clears the flag at its end (Exp.cpp:10)
whoever set it, and the operand of a parenthesis is an `ExpAST`.  In a constant
expression every operator dumped behind a parenthesis therefore emits.  At global
level, as in `const int k = -(4);`, the instruction stands outside every function
and the compiler's own assertion main.cpp:135 fails; in a function a constant
becomes what the operator object holds, 0 for `*`, `/` and `%` (MulOp.cpp
computes under the flag only).  A parenthesis around the whole expression, or
below unary plus only, is harmless: `ConstantsFold` states the exact condition.

**What the other violations show.**  Each of them is a disagreement between the
code and what it, or the header it is written against, says of itself.

* RiscvRefused: `a[f()]` aborts the compiler.  The index of an address may be an
  integer, a load or a binary (main.cpp:1311, 1213); the result of a call, which
  the operands of a binary, an argument or a return value may be, ends in
  `assert(false)`.  So does `b[i] = f();` for an array parameter `b`
  (main.cpp:806): the case of a call result has no `getptr`, the others do.
  `OnlyCallsRefused`, which holds, says that there is no third such combination.
* ArrayInitCube: `int a[2][2][2] = {1, 2, 3, 4, {{5, 6}, 7}};` runs past the end of
  the array.  Two lists that open at one element count as lists of one dimension:
  `{5, 6}` is a list of `a[1]` as the one around it is, and fills all of it, so that
  the 7 is stored through an iterator at its end() (VarDef.cpp:254).
* NumbersLeast: `itostr(-2147483648)` is `-` where the product wraps.  A program
  reaches it by the literal 2147483648, with a minus or without: the lexer cuts the
  `long` of `strtol` to the least int (sysy.l:69), and the negation of it, if there is
  one, wraps and leaves it as it is (UnaryOp.cpp:24).

**Fairness.** Three specifications state fairness, for the properties `KeepsPace`
(StmtRun) and `Ends` (RiscvRun, ArrayInit): weak fairness on the steps of the
program that runs.  The compiler and the compiled program are sequential; there is
nothing to schedule but their next step, so they keep running.  Nothing is assumed
of which value `getint` returns or which branch a leaf's value takes.  `Ends` of
RiscvRun claims termination for programs that terminate: the loop of MCRiscvRun
does for every input.

**Mutants.** For each property PROJECT.json names a plausible bug (a jump
written behind a return, a counter not advanced, `params_needed` overwritten
instead of maximised, a frame rounded down, a vector not popped ...), kept beside
the definition it changes, under which the run finds the property violated.

## 4. What is proved

The theorems hold for every value of the constants that satisfies the named
assumptions of the module: programs of any size and nesting.  Each proof follows one
scheme: an inductive invariant, one lemma per action or group of actions that have the
same effect on it, and a temporal theorem that combines them by PTL.

| property | theorem | assumption on the constants |
|---|---|---|
| StmtDump: TypeOK, BlocksWellFormed, RetFlagExact | StmtDumpProofs: Typing, WellFormedText, FlagExact | `Grammar`: a node has the children its tag promises |
| StmtDump: LabelsUnique, BranchesLand, OperandsDefined | StmtDumpProofs: UniqueLabels, JumpsLand, DefinedOperands | the same |
| StmtRun: SameEvents; its runs are behaviours of StmtDump | StmtRunProofs: RunsAlike; RunDumps | the same, and `HasFunction` |
| FrameLayout: TypeOK, SlotsApart, SlotsInFrame, CallsFit, OperandsFound | FrameLayoutProofs: FrameTyping, SlotsDisjoint, FrameSafe, CallsHaveRoom, NoMissingSlot | `FrameConstants` |
| SymbolTables: TypeOK, FathersAreOpen, SymbolsUnique, DataInOrder, Refines | SymbolTablesProofs: Typing, FathersOpen, NamesUnique, DataOrdered, Resolution | `SymbolTablesAssumption`: identifiers are sequences of parts |
| ParserStacks: TypeOK, OwnVectors, OwnMembers, ListsAreSource | ParserStacksProofs: Typing, VectorsOwned, MembersOwned, ListsRead | `ParserBounds` |
| ArrayInit: TypeOK, PlacedByTheRule, SameImage | ArrayInitProofs: Typing, ValuesPlaced, ImagesAgree | `ShapesAssumption`: an array has dimensions, each at least 1 |
| Numbers: TypeOK, NumberArrives | NumbersProofs: Typing, NumbersArrive | `NumbersAssumption`: `IntMax` and `MaxDigits` are natural numbers |

**StmtDump, blocks.**  `BlocksWellFormed` is not inductive: whether the next item may
follow the last one depends on `last_ins_is_ret` and on who looks at it next.  The
strengthening `BlockInv` is `BlocksWellFormed /\ CallShape(dump) /\ EndOfText`: below
every active call that can leave a return behind it there is one that looks at the flag
before it writes, and the flag agrees with the last item.  `FlagExact` follows.

**StmtDump, names.**  None of the three properties is inductive, because the handlers
make promises.  A `Dump` numbers the labels of a join or a loop, dumps the nested
statement, in which other labels are numbered and written, and writes its own behind
it; it jumps to labels that are not yet written; it keeps an operand while another
expression is dumped.  `TextInv` adds to `BlockInv` what the open calls have promised:

* the names that the counters have given out (`Spent`) hold every name in the text and
  every label an open call has numbered and will write (`Reserved`), and no name is in
  two of these places (`Fits`); a handler that takes a number takes it from outside
  `Spent`;
* the labels that will be written are those the open calls name (`Promised`), the
  targets of all jumps of the function are written or promised, and so are those which
  the calls will still jump to (`Sound`);
* what an open call will read, the register its child is about to return included, is
  defined in the function that is being written;
* while an address is being written, the last item of the text defines the register
  `unused_koopa_count - 1` (`ElemInv`), which the next index goes on from.

The labels of a loop die with a return that cuts the loop off, so the invariant speaks
of the calls and never of how the text got where it is.

**StmtRun.**  `SameEvents` compares two executions of unbounded length, and the text
that one of them executes was written by handlers that each saw one node.  The proof
therefore begins while the text is being written.  A point is what is left of the tree
(`src`), the place of the last value (`data`), and what is known of some operands.  With
values for the operands it is a state of the tree.  An item is `Faithful` between two
points if, from every state of the first, the tree makes the event of the item or is
silent as the item is, and then stands at the second; an item that jumps has the points
of its labels in place of the second, and a label has the point before it.

* While dumping, `TellsNow` says that there are points for all items so far between
  which they are faithful (`Trail`), and that what the open calls have still to do is
  what is left of the tree at the last point (`Stacked`).  `Means` gives the meaning of
  each call: a `Join` will write a label whose point is what is left behind the if; a
  `While` has given its three labels the points at the loop, in it and behind it;
  between the two parts of `||` the left operand is known not to have decided; while
  an address is being written, its last register holds the address the tree has come to.
  A break or continue drops calls of the tree up to the innermost loop, and `Layers`
  says that the innermost `LoopJoin` has the same loop in mind.
* The steps that make this inductive are that a handler writes to registers nobody
  looks at any more: parts of the tree hold only operands that are `Old`, below
  the register counter, and nothing holds the temporary of a short circuit while it is
  written.  And that after a return, where nothing is written until the next label,
  whatever was left of the tree is irrelevant: a label may choose its point if no
  item runs into it, which is what `last_ins_is_ret` and `BlockInv` decide.
* While running, `Abreast` says that the point at `pc` applies, and that one of its
  state and the state of the tree comes after the other by silent steps (`Meets`).  As
  there is one silent step at most from each state, both are at an event only if the
  states are equal, and then the events are (`BothAtEvent`).  The jumps lead where the
  points say because labels are unique and every jump of a finished function lands in
  it (`Settled`, which `UniqueLabels` and `JumpsLand` supply).

All three parts use `TextInv`; no bound on nesting, number of functions or values of
the leaves is left.  `RunDumps` carries the theorems of StmtDump over to the text that
is run.  Whether the tree keeps pace (`KeepsPace`) is liveness, and model-checked.

**FrameLayout.**  The invariant `FrameInv` relates the two walks line by line: each
line records the counter at the time it was appended (`counted`, a field no action
reads), the bytes of the lines up to it are at most that (`WellCounted`), `sp_dev` never
exceeds the counter of the line before the one being visited (`Progress`), and
`total_needed` was rounded up from the last counter (`Sized`).  `OperandsFound` needs
that lines read only earlier lines with results (`WellRead`) and that a read result
makes `used_by` nonempty.

**SymbolTables.**  `FathersAreOpen` is inductive only with the types and with the order
of the tables (`Scopes`): a table's father is older than it, and of the open tables the
outermost is the root and no other is.  The names need `Names`, a conjunction of six parts:
`Counts` (no symbol and no line has a number the counters have not reached),
`Numbered` (the numbers at the ends of the variables' names grow from line to line, which
is why no two are alike, whatever the identifiers look like), `FunctionLines` (a function
has one line, and its symbol stays in the root), `OpenSymbols` (the symbols of the open
blocks have their lines in the text, where a use can see them), `UsedBefore` (the number
of a place that was printed is spent) and `Queued`
(the queue holds the names of the globals, in the order of their lines, that `Visit` has
not come to).  `Resolution` is the refinement: `Init` maps to the initial state of
Scoping, and under the invariant each action is a declaration, a brace or a use of
Scoping or leaves its variables alone.  The climb of `find` is shown to end at the table
that Scoping's environment takes the name from (`UseReaches`), for tables of any depth;
this is an induction along the fathers.

**ParserStacks.**  Each action is a `Begin`, a part or a reduction of the innermost rule,
and `Accounted` is what every one of them leaves true: each stack holds, for the open
rules that keep a vector there and for nobody else, one vector with the members the text
gave the rule (`Held`); each vector that is no stack has at most one user and holds its
members (`Kept`); and what makes this inductive, `Nested`: rules that share a vector
cannot lie in one another, because nothing but an expression or an initialiser can
begin inside the rules that use one.  `ListsAreSource` follows from `Held` and `Kept`
at the reduction.

**Numbers.**  `Onto(n, base, digits)` is the number read when the digits follow n.  What is
left of `num`, followed by the stack of digits, is a constant of the loop that pushes,
and what is written, followed by the stack, one of the loop that pops (`Written`).
`Carried` says that the value is the one the source has.  `NumbersInv` claims
`Written` unless the value is the least int; `NumbersLeast` shows what happens then.
`IntMax` may be any natural number: nothing in the conversion depends on the 32 bits.

**ArrayInit.**  Two walks over an array have to be shown to be one: the rule counts
elements, `Convert` moves iterators and knows nothing of the rule's lists.  The
iterators are the digits of a number in a mixed base.  `Selected(ds, p)[d]` is the
number that the first d of them make, the subarray that they select, counted among
all of that size; all of them make `Offset` (`Places`), no two elements have the
same one (`Injective`), an element begins a subarray if and only if its remaining
indices are 0, which is if and only if the size of the subarray divides its offset
(`Beginning`), and `Moved` adds 1 (`MovedOn`).  The invariant is `PlacedInv`:

* `Nested`: the rule's open lists belong to subarrays, each inside that of the list
  around it, and the spot is in the innermost;
* `Paired`: `Convert` has a call for each of them, and at most one more, which is
  filling its list with zeros;
* `InStep`: the iterators are at the rule's spot, or behind it while zeros are filled
  in, and each call will stop at the end of the subarray that the rule gave its list.
  This is where `cur_init_index`, the innermost iterator past its begin(), has to
  agree with the largest subarray that begins at the spot;
* `Agreeing`: `init_list` is `want`, and 0 from the iterators on.

`InStep` is false once `hard` is set, and the proof shows that these are the only two
forms in which it can become false: they come up as the cases in which
`cur_init_index` counts a dimension too little, and in which a list's end is the
array's.  As long as it is true, the iterators that the end of a list starts again stand
at their beginning already (`ResetIsIdle`).  `ImagesAgree` needs the loops of `InitGlobalArrayInKoopa` and
`InitLocalArrayInKoopa` to meet the elements in the order of the memory (`InOrderIs`,
by the lengths that `FlattenSeq` adds up) and the getelemptrs to add up to four times
the offset.

**Only model-checked.**

* ConstFold's values are recursive functions on trees of any depth, so what its
  properties say is an induction on the trees.  Its `TypeOK` alone already needs that
  a name is declared before its use, which the assumption `SyntaxTrees` does not say.
* `TypeOK`, `OwnFrame` and `Refines` of RiscvRun hold of programs that stay within
  their objects: a store through a pointer out of bounds may overwrite a saved `ra`.
  That is a fact about runs, which `Programs` of the instance supplies.
* `OnlyCallsRefused` depends on the kinds of operands the front end emits, and these
  too are given by the instance's `Programs` and by no assumption.

**Out of the prover's reach.**  Liveness under fairness (`KeepsPace`, `Ends`) and
ENABLED.  The induction theorems of the library take an operator as a parameter, which the
provers cannot instantiate; for natural numbers Facts states them with sets and
functions instead (`LeastElement`, `Climb`, `Iterated`), which the climb of `find`, the
digits of a number and the sizes of an array use.  RECURSIVE operators disable the SMT backend, so the
enumeration of the trees, which is recursive, is confined to the MC modules.  Powers
(`^`) are opaque to the provers; this is why Numbers has `IntMax` as a constant and
not a number of bits.

## 5. What is not modelled, and the plan

Not modelled:

* debug tracing (Debug.cpp prints names of rules and keeps a depth that nothing
  reads), the class declarations (ast.h, Base.h; the classes appear as trees and
  records), the build file and the samples;
* of the lexer everything but numbers: keywords and operators are a fixed table,
  comments and blanks vanish;
* of the parser the rules of operators: they build a node of their `$n` and touch
  none of the static variables;
* of koopa.h the functions and types the compiler does not use; libkoopa itself is
  not in the repository;
* of the driver the arguments and files;
* labels in the assembly: SymbolTables is about the names of variables and
  functions, while label_j_N and the labels of blocks could meet a function that is
  called `then_3`; whether the assembler is given such a text depends on a
  program nobody writes, and names of blocks are pairs with a counter in StmtDump;
* texts that are no SysY program (a redeclaration, break outside a while, the
  value of a void function), and what is undefined in C (division by zero, signed
  overflow in the program).

Done: all modules model-checked; proofs of StmtDump, StmtRun, FrameLayout,
SymbolTables with its refinement, ParserStacks, ArrayInit and Numbers.  What would
come next:

1. ConstFold: `TypeOK`, under an assumption that names are declared before use.
2. RiscvCode: that the code of a line changes `sp` only at the entry and at a return,
   and `OnlyCallsRefused` under an assumption on the kinds of operands.

## 6. Running

    tlc -workers 2 -config StmtRun.cfg MCStmtRun.tla
    tlc -workers 2 -config FrameLayout.cfg MCFrameLayout.tla
    tlc -workers 2 -config ParserStacks.cfg MCParserStacks.tla
    tlc -workers 2 -config ConstFold.cfg MCConstFold.tla
    tlc -workers 2 -config ConstFoldRoot.cfg MCConstFold.tla
    tlc -workers 2 -config ArrayInit.cfg MCArrayInit.tla
    tlc -workers 2 -config ArrayInitCube.cfg MCArrayInit.tla
    tlc -workers 2 -config SymbolTables.cfg MCSymbolTables.tla
    tlc -workers 2 -config RiscvRun.cfg MCRiscvRun.tla
    tlc -workers 2 -config RiscvRefused.cfg MCRiscvRun.tla
    tlc -workers 2 -config Numbers.cfg MCNumbers.tla
    tlc -workers 2 -config NumbersLeast.cfg MCNumbers.tla
    tlapm StmtDumpProofs.tla
    tlapm FrameLayoutProofs.tla
    tlapm Facts.tla
    tlapm StmtRunProofs.tla
    tlapm SymbolTablesProofs.tla
    tlapm ArrayInitProofs.tla
    tlapm ParserStacksProofs.tla
    tlapm NumbersProofs.tla
