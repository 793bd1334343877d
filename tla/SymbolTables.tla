----------------------------- MODULE SymbolTables -----------------------------
(***************************************************************************)
(* Names.  The Dump methods keep a tree of symbol tables: each table knows *)
(* its father, cur_symbol_table is the one of the block being dumped, and  *)
(* the Dump of a block keeps the table to go back to in a local variable.  *)
(* A variable x is alloc'd in the Koopa text under the name x_n, n from    *)
(* the counter unused_koopa_var_count; the symbol notes n, and every use   *)
(* prints what find returns.  The labels of globals in the assembly do not *)
(* come from the Koopa program: their names wait in a queue that the front *)
(* end fills, and Visit takes one for each global it comes to.             *)
(*                                                                         *)
(* An identifier is a tuple of the parts that '_' separates, so that x_1   *)
(* may be an identifier as well.                                           *)
(***************************************************************************)
EXTENDS Integers, FiniteSets, SequencesExt

CONSTANTS
  Idents, Library,   \* as in Scoping
  Lengths,           \* the words of the arrays
  MaxVars,           \* bounds: numbered names, ...
  MaxTables          \* ... tables

ASSUME SymbolTablesAssumption ==
  /\ \A x \in Idents : Len(x) \in Nat /\ x = [i \in 1 .. Len(x) |-> x[i]]
  /\ Library \in Seq(Idents) /\ IsInjective(Library)
  /\ Lengths \subseteq Nat \ {0}
  /\ MaxVars \in Nat /\ MaxTables \in Nat \ {0}

VARIABLES
  tables,       \* SymbolTable objects, in the order of their creation; 1 is the root
  cur_symbol_table,
  saved,        \* the variables temp_symbol_table, temp_cur_symbol_table of the
                \* open Dumps, innermost first
  unused_koopa_var_count,
  koopa,        \* the lines of k_str that define a name
  used,         \* what the last use of a name printed
  phase,        \* "dump"; "visit", "done"
  global_var_name_queue,
  data,         \* the data segment: a label and the bytes behind it
  declared      \* for the properties: declarations so far

vars == <<tables, cur_symbol_table, saved, unused_koopa_var_count, koopa, used,
          phase, global_var_name_queue, data, declared>>
visitVars == <<phase, global_var_name_queue, data>>

\* Pointers to tables.  AddSymbolTable sets the father of every table but the
\* root, whose constructor leaves it indeterminate: NULL or not.
NULL == 0
Wild == -1
Root == 1
-----------------------------------------------------------------------------
(* SymbolTable, Symbol, Variate, Function *)

\* Symbol.  decl, for the properties, is the number of its declaration.
Variate(is_const, n) ==
  [tag |-> 0, flag_is_const |-> is_const, koopa_var_count |-> n, decl |-> declared + 1]
Function(decl) ==
  [tag |-> 1, flag_is_const |-> FALSE, koopa_var_count |-> -1, decl |-> decl]

\* std::map::insert, which does not replace what is there
Inserted(map, x, symbol) ==
  IF x \in DOMAIN map THEN map
  ELSE [y \in DOMAIN map \cup {x} |-> IF y = x THEN symbol ELSE map[y]]

Insert(ts, t, x, symbol) == [ts EXCEPT ![t].map = Inserted(@, x, symbol)]

\* A mutant of AddSymbolTable: every block is a child of the root.
AddSymbolTableRoot(ts, father) == Append(ts, [father |-> Root, map |-> <<>>])

AddSymbolTable(ts, father) == Append(ts, [father |-> father, map |-> <<>>])

\* The table where find(x) of cur_symbol_table ends: one that has x, NULL for
\* the root's end(), or the indeterminate pointer.
Find(x) ==
  LET find[t \in -1 .. Len(tables)] ==
        IF t <= 0 THEN t
        ELSE IF x \in DOMAIN tables[t].map THEN t ELSE find[tables[t].father]
  IN  find[cur_symbol_table]
-----------------------------------------------------------------------------
(* The program: what a name means here, told from the blocks around it *)

\* The table of each open block, as the Dumps that are open know them.
Blocks == <<cur_symbol_table>> \o saved
KindOf(symbol) ==
  IF symbol.tag = 1 THEN "function"
  ELSE IF symbol.flag_is_const THEN "constant" ELSE "variable"
Env ==
  [i \in DOMAIN Blocks |->
     [x \in DOMAIN tables[Blocks[i]].map |->
        LET symbol == tables[Blocks[i]].map[x]
        IN  [decl |-> symbol.decl, kind |-> KindOf(symbol)]]]

\* The line that a printed name refers to; names of locals are seen in their
\* own function only.
ThisFunction == Cardinality({i \in DOMAIN koopa : koopa[i].op = "fun"})
Referred ==
  {i \in DOMAIN koopa :
     /\ koopa[i].name = used.name
     /\ IF used.op = "call" THEN koopa[i].op \in {"decl", "fun"}
        ELSE \/ koopa[i].op = "global"
             \/ koopa[i].op = "alloc" /\ koopa[i].in = ThisFunction}

\* The declaration that the last use reaches.
Reached ==
  IF used.op = "none" THEN 0
  ELSE IF used.op = "number" THEN used.val
  ELSE IF \E i \in Referred : Referred = {i}
       THEN koopa[CHOOSE i \in Referred : TRUE].decl ELSE -1

Lexical == INSTANCE Scoping WITH env <- Env, meant <- Reached
-----------------------------------------------------------------------------
Use(op, name, val) == [op |-> op, name |-> name, val |-> val]
NoUse == Use("none", <<>>, 0)

Line(op, name, words, init) ==
  [op |-> op, name |-> name, in |-> ThisFunction, words |-> words, init |-> init,
   decl |-> declared + 1]

\* global_var_init, and the decl lines k_str begins with
Init ==
  /\ \E father \in {NULL, Wild} :
       tables = <<[father |-> father,
                   map |-> [x \in Range(Library) |->
                     Function(CHOOSE i \in DOMAIN Library : Library[i] = x)]]>>
  /\ cur_symbol_table = Root
  /\ saved = <<>>
  /\ unused_koopa_var_count = 1
  /\ koopa = [i \in DOMAIN Library |->
                [op |-> "decl", name |-> Library[i], in |-> 0, words |-> 0,
                 init |-> "none", decl |-> i]]
  /\ used = NoUse
  /\ phase = "dump"
  /\ global_var_name_queue = <<>>
  /\ data = <<>>
  /\ declared = Len(Library)

IsGlobal == cur_symbol_table = Root
MayDeclare(x) == phase = "dump" /\ Lexical!CanDeclare(x) /\ unused_koopa_var_count <= MaxVars

\* A mutant of PushGlobal: the names in the order of a stack.
PushGlobalFront(x) == <<x>> \o global_var_name_queue

\* global_var_name_queue.push
PushGlobal(x) == Append(global_var_name_queue, x)

\* A mutant of NextVarCount: a global is not counted.
NextVarCountLocal == IF IsGlobal THEN unused_koopa_var_count ELSE unused_koopa_var_count + 1

NextVarCount == unused_koopa_var_count + 1

\* The symbol takes the number when it is made, and the text when the line is
\* written; then the number is spent.
Alloc(op, x, words, init) ==
  /\ tables' = Insert(tables, cur_symbol_table, x, Variate(FALSE, unused_koopa_var_count))
  /\ koopa' = Append(koopa, Line(op, Append(x, unused_koopa_var_count), words, init))
  /\ unused_koopa_var_count' = NextVarCount
  /\ declared' = declared + 1 /\ used' = NoUse

\* Declaration of a variable or of an array, constant or not (what a local is
\* filled with is the subject of other modules).  Initialisers are
\* dumped before: their uses are steps before this one.
DumpVar(x, words, init) ==
  /\ MayDeclare(x)
  /\ IF IsGlobal THEN Alloc("global", x, words, init) ELSE Alloc("alloc", x, 0, "none")
  /\ global_var_name_queue' = IF IsGlobal THEN PushGlobal(x) ELSE global_var_name_queue
  /\ UNCHANGED <<cur_symbol_table, saved, phase, data>>

\* VarDefAST: int x;  int x = e;  int x[..];  int x[..] = {..};
\* ConstDefAST: const int x[..] = {..};
DumpVarDef(x) == DumpVar(x, 1, "zeroinit")
DumpVarDefInit(x) == DumpVar(x, 1, "integer")
DumpArrayDef(x) == \E words \in Lengths : DumpVar(x, words, "aggregate")

\* A scalar constant has no line: its uses print its value, for which the
\* number of its declaration stands.  It takes a number of the counter all the
\* same.
DumpConstDef(x) ==
  /\ MayDeclare(x)
  /\ tables' = Insert(tables, cur_symbol_table, x, Variate(TRUE, -1))
  /\ unused_koopa_var_count' = NextVarCount
  /\ declared' = declared + 1 /\ used' = NoUse
  /\ UNCHANGED <<cur_symbol_table, saved, koopa, visitVars>>

\* FuncDefAST: the function is a symbol of the root, which is the table here;
\* then it has a table of its own.
DumpFuncDef(x) ==
  /\ phase = "dump" /\ IsGlobal /\ Lexical!CanDeclare(x) /\ Len(tables) < MaxTables
  /\ tables' = AddSymbolTable(Insert(tables, cur_symbol_table, x, Function(declared + 1)), Root)
  /\ saved' = <<cur_symbol_table>> \o saved
  /\ cur_symbol_table' = Len(tables')
  /\ koopa' = Append(koopa, [Line("fun", x, 0, "none") EXCEPT !.in = 0])
  /\ declared' = declared + 1 /\ used' = NoUse
  /\ UNCHANGED <<unused_koopa_var_count, visitVars>>

\* FuncFParamAST::declare_alloc, before anything of the block
DumpFParam(x) ==
  /\ saved # <<>> /\ used = NoUse
  /\ Last(koopa).op = "fun" \/ Last(koopa).init = "param"
  /\ MayDeclare(x)
  /\ Alloc("alloc", x, 0, "param")
  /\ UNCHANGED <<cur_symbol_table, saved, visitVars>>

\* The result of && and || is kept in an alloc of its own, with the same numbers.
DumpLogicExp ==
  /\ phase = "dump" /\ ~ IsGlobal /\ unused_koopa_var_count <= MaxVars
  /\ koopa' = Append(koopa,
       [Line("alloc", <<"%temp_l_result", unused_koopa_var_count>>, 0, "none") EXCEPT !.decl = 0])
  /\ unused_koopa_var_count' = NextVarCount
  /\ UNCHANGED <<tables, cur_symbol_table, saved, used, visitVars, declared>>

\* StmtAST, a block
DumpBlock ==
  /\ phase = "dump" /\ ~ IsGlobal /\ Len(tables) < MaxTables
  /\ saved' = <<cur_symbol_table>> \o saved
  /\ tables' = AddSymbolTable(tables, cur_symbol_table)
  /\ cur_symbol_table' = Len(tables')
  /\ used' = NoUse
  /\ UNCHANGED <<unused_koopa_var_count, koopa, visitVars, declared>>

\* A mutant of DumpBlockEnd: the table stays the one of the block.
DumpBlockEndStays ==
  /\ phase = "dump" /\ saved # <<>>
  /\ saved' = Tail(saved)
  /\ used' = NoUse
  /\ UNCHANGED <<tables, cur_symbol_table, unused_koopa_var_count, koopa, visitVars, declared>>

\* The end of a block or of a function: the local variable is the table again.
DumpBlockEnd ==
  /\ phase = "dump" /\ saved # <<>>
  /\ cur_symbol_table' = Head(saved)
  /\ saved' = Tail(saved)
  /\ used' = NoUse
  /\ UNCHANGED <<tables, unused_koopa_var_count, koopa, visitVars, declared>>

\* What is printed for x where a symbol with this tag is asked for; NoUse where
\* the compiler stops, or follows a pointer that was never set.
Printed(x, tag) ==
  LET t == Find(x)
  IN  IF t \in {NULL, Wild} \/ tables[t].map[x].tag # tag THEN NoUse
      ELSE LET symbol == tables[t].map[x]
           IN  IF tag = 1 THEN Use("call", x, 0)
               ELSE IF symbol.flag_is_const THEN Use("number", <<>>, symbol.decl)
               ELSE Use("place", Append(x, symbol.koopa_var_count), 0)

\* The program uses a name only where it is declared as what it is used for.
Means(x, kinds) == phase = "dump" /\ Lexical!Visible(x) /\ Lexical!Meaning(x).kind \in kinds
unchangedByUse == <<tables, cur_symbol_table, saved, unused_koopa_var_count, koopa,
                    visitVars, declared>>

\* LValAST; outside functions there are constants only
DumpLVal(x) ==
  /\ Means(x, IF IsGlobal THEN {"constant"} ELSE {"constant", "variable"})
  /\ used' = Printed(x, 0)
  /\ UNCHANGED unchangedByUse

\* StmtAST, an assignment: what is a constant is refused
DumpAssign(x) ==
  /\ ~ IsGlobal /\ Means(x, {"variable"})
  /\ used' = IF Printed(x, 0).op = "number" THEN NoUse ELSE Printed(x, 0)
  /\ UNCHANGED unchangedByUse

\* UnaryExpAST, a call
DumpCall(x) ==
  /\ ~ IsGlobal /\ Means(x, {"function"})
  /\ used' = Printed(x, 1)
  /\ UNCHANGED unchangedByUse
-----------------------------------------------------------------------------
(* Visit *)

\* The globals of the raw program, in the order of the text.
Globals == {i \in DOMAIN koopa : koopa[i].op = "global"}
Rank(i) == Cardinality({j \in Globals : j <= i})
Value(k) == koopa[CHOOSE i \in Globals : Rank(i) = k]

DumpEnd ==
  /\ phase = "dump" /\ saved = <<>>
  /\ phase' = "visit"
  /\ UNCHANGED <<tables, cur_symbol_table, saved, unused_koopa_var_count, koopa, used,
                 global_var_name_queue, data, declared>>

\* What is printed after the label: .zero 4, .word, or a .word for each element
Bytes(value) == IF value.init = "aggregate" THEN 4 * value.words ELSE 4

VisitGlobalAlloc ==
  /\ phase = "visit" /\ Len(data) < Cardinality(Globals)
  /\ global_var_name_queue # <<>>
  /\ data' = Append(data, [label |-> Head(global_var_name_queue),
                           bytes |-> Bytes(Value(Len(data) + 1))])
  /\ global_var_name_queue' = Tail(global_var_name_queue)
  /\ UNCHANGED <<tables, cur_symbol_table, saved, unused_koopa_var_count, koopa, used,
                 phase, declared>>

VisitEnd ==
  /\ phase = "visit" /\ Len(data) = Cardinality(Globals)
  /\ phase' = "done"
  /\ UNCHANGED <<tables, cur_symbol_table, saved, unused_koopa_var_count, koopa, used,
                 global_var_name_queue, data, declared>>

Finished == phase = "done" /\ UNCHANGED vars

Next ==
  \/ \E x \in Idents :
       \/ DumpVarDef(x) \/ DumpVarDefInit(x) \/ DumpArrayDef(x) \/ DumpConstDef(x)
       \/ DumpFuncDef(x) \/ DumpFParam(x)
       \/ DumpLVal(x) \/ DumpAssign(x) \/ DumpCall(x)
  \/ DumpLogicExp \/ DumpBlock \/ DumpBlockEnd \/ DumpEnd
  \/ VisitGlobalAlloc \/ VisitEnd \/ Finished

Spec == Init /\ [][Next]_vars
-----------------------------------------------------------------------------
(* Properties *)

\* The values of the variables; the root is the table exactly outside functions.
TypeOK ==
  /\ \A t \in DOMAIN tables :
       /\ tables[t].father \in IF t = Root THEN {NULL, Wild} ELSE 1 .. t - 1
       /\ \A x \in DOMAIN tables[t].map :
            /\ x \in Idents
            /\ tables[t].map[x].tag \in {0, 1}
            /\ tables[t].map[x].koopa_var_count \in -1 .. unused_koopa_var_count - 1
            /\ tables[t].map[x].decl \in 1 .. declared
  /\ \A i \in DOMAIN Blocks : Blocks[i] \in DOMAIN tables
  /\ IsGlobal <=> saved = <<>>
  /\ unused_koopa_var_count \in 1 .. MaxVars + 1
  /\ \A i \in DOMAIN koopa : koopa[i].in \in 0 .. ThisFunction
  /\ used.op \in {"none", "number", "place", "call"}
  /\ phase \in {"dump", "visit", "done"}
  /\ \A k \in DOMAIN global_var_name_queue : global_var_name_queue[k] \in Idents

\* The fathers that find climbs are the tables the open Dumps go back to: a
\* lookup sees the blocks that are open and no other.
FathersAreOpen ==
  \A i \in 1 .. Len(Blocks) - 1 : tables[Blocks[i]].father = Blocks[i + 1]

\* No two variables of the program have one name in the Koopa text, whatever
\* block or function they are in and whatever they are called; nor two
\* functions.
SymbolsUnique ==
  \A i, j \in DOMAIN koopa :
    /\ i # j
    /\ koopa[i].op \in {"decl", "fun"} <=> koopa[j].op \in {"decl", "fun"}
    => koopa[i].name # koopa[j].name

\* Visit gives every global its own name and its own size, though it takes the
\* name from the queue and not from the program: behind the label is what the
\* code that names the label expects there.  No label is a function's.
DataInOrder ==
  /\ \A k \in DOMAIN data :
       /\ Value(k).name = Append(data[k].label, Last(Value(k).name))
       /\ data[k].bytes = 4 * Value(k).words
       /\ \A i \in DOMAIN koopa : koopa[i].op = "fun" => koopa[i].name # data[k].label
  /\ phase # "dump" => Len(global_var_name_queue) = Cardinality(Globals) - Len(data)

\* Every use reaches the declaration that it means: the number or the name
\* that is printed for it is the one of the innermost declaration.
Refines == Lexical!Spec
=============================================================================
