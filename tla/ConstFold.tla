------------------------------ MODULE ConstFold ------------------------------
(***************************************************************************)
(* Expressions and the flag is_calculating_const_exp: ExpAST, ConstExpAST, *)
(* LOrExpAST ... NumberAST, LValAST and the operator classes, as the       *)
(* declarations, parameters and statements around them call their Dump.    *)
(*                                                                         *)
(* A Dump either folds its operator to a number or emits one instruction;  *)
(* the global flag says which.  It is set before a constant expression and *)
(* cleared behind it, and ExpAST::Dump, which a parenthesised expression   *)
(* is as well, sets and clears it too.                                     *)
(*                                                                         *)
(* dump is the C++ call stack, innermost call first: the node that is      *)
(* dumped and the CalData of those children that have returned.  meaning   *)
(* is the specification's own: what C says of the program so far.          *)
(*                                                                         *)
(* Abstracted: the text of an instruction, the bytes it needs and returns  *)
(* in blocks (FrameLayout, StmtDump), look-up in nested scopes (all names  *)
(* are distinct), braces in initialisers (arrays that are defined have one *)
(* dimension and a flat list), the width of int.  ConstExpAST hands its    *)
(* Exp through and has no step of its own.                                 *)
(***************************************************************************)
EXTENDS Integers, Sequences, FiniteSets, SequencesExt

CONSTANTS
  Exps,           \* expression trees
  Programs,       \* global declarations, one function, what its body does
  Argument(_),    \* the value a parameter is called with
  Held(_),        \* what an object outside the program holds
  Answer(_, _)    \* the result of a function called with some values

MulOps == {"mul", "div", "mod"}
BinaryOps == [Mul |-> MulOps, Add |-> {"add", "sub"},
              Rel |-> {"gt", "lt", "ge", "le"}, Eq |-> {"eq", "ne"}]

\* A node holds what the constructor functions of sysy.y put into it.  Exp is
\* an expression as a whole, in parentheses or not.
GrammarExp(e) ==
  \/ e.tag = "Exp" /\ e.exp \in Exps
  \/ e.tag = "Number" /\ e.val \in Int
  \/ e.tag = "LVal" /\ e.idx \in Seq(Exps)
  \/ e.tag = "Call" /\ e.params \in Seq(Exps) /\ e.void \in BOOLEAN
  \/ e.tag = "Unary" /\ e.op \in {"plus", "sub", "eq"} /\ e.rhs \in Exps
  \/ /\ e.tag \in DOMAIN BinaryOps \cup {"LOr", "LAnd"}
     /\ e.lhs \in Exps /\ e.rhs \in Exps
     /\ e.tag \in DOMAIN BinaryOps => e.op \in BinaryOps[e.tag]

GrammarDef(d) ==
  /\ d.tag \in {"ConstDef", "VarDef"} /\ d.dims \in Seq(Exps) /\ d.inits \in Seq(Exps)
  /\ Len(d.dims) <= 1
  /\ d.dims = <<>> => Len(d.inits) <= 1 /\ (d.tag = "ConstDef" => Len(d.inits) = 1)

GrammarItem(it) ==
  \/ it.tag = "Decl" /\ it.const \in BOOLEAN /\ \A i \in DOMAIN it.defs : GrammarDef(it.defs[i])
  \/ it.tag = "FuncDef" /\ \A i \in DOMAIN it.params : it.params[i].dims \in Seq(Exps)
  \/ it.tag = "ExpStmt" /\ it.exp \in Exps
  \/ it.tag = "Assign" /\ it.idx \in Seq(Exps) /\ it.exp \in Exps

ASSUME SyntaxTrees ==
  /\ \A e \in Exps : GrammarExp(e)
  /\ \A p \in Programs : \A i \in DOMAIN p : GrammarItem(p[i])

VARIABLES
  todo,                      \* items still to be dumped
  dump,                      \* the active Dump calls, innermost first
  k_str,                     \* the IR emitted so far
  is_calculating_const_exp,
  unused_koopa_count,        \* next %N
  unused_koopa_var_count,    \* next x_N and %temp_l_result_N
  unused_koopa_label_count,  \* next number of a basic block name
  cur_symbol_table,          \* the root, or the table of the function
  symbols,                   \* what find() returns for a name
  meaning                    \* constants and memory as C has them

flag == is_calculating_const_exp
counts == <<unused_koopa_count, unused_koopa_var_count, unused_koopa_label_count>>
text == <<k_str, counts>>
scope == <<cur_symbol_table, symbols>>
vars == <<todo, dump, text, is_calculating_const_exp, scope, meaning>>
-----------------------------------------------------------------------------
(* CalData, operands and instructions *)

CalData(is_num, val, count) == [is_num |-> is_num, val |-> val, count |-> count]
Folded(val) == CalData(TRUE, val, 0)
InRegister(val, n) == CalData(FALSE, val, n)

Imm(v) == <<"imm", v>>
Reg(n) == <<"%", n>>
Var(key) == <<"@", key>>            \* the address of a variable
Arg(name) == <<"arg", name>>        \* a parameter of the function
Label(kind, n) == <<kind, n>>
NoPlace == <<"none", 0>>
Operand(d) == IF d.is_num THEN Imm(d.val) ELSE Reg(d.count)   \* print_data_to_k_str

Ins(op, dst, args) == [op |-> op, dst |-> dst, args |-> args, to |-> <<>>]
Br(c, t, f) == [op |-> "br", dst |-> NoPlace, args |-> <<c>>, to |-> <<t, f>>]
Jump(l) == [op |-> "jump", dst |-> NoPlace, args |-> <<>>, to |-> <<l>>]
Open(l) == Ins("label", l, <<>>)
Store(v, place) == Ins("store", NoPlace, <<v, place>>)

\* Emit lines that define n registers.
Emit(lines, n) ==
  /\ k_str' = k_str \o lines
  /\ unused_koopa_count' = unused_koopa_count + n
  /\ UNCHANGED <<unused_koopa_var_count, unused_koopa_label_count>>
-----------------------------------------------------------------------------
(* The call stack *)

Children(n) ==
  CASE n.tag \in {"Exp", "ExpStmt"} -> <<n.exp>>
    [] n.tag = "LVal" -> n.idx
    [] n.tag = "Call" -> n.params
    [] n.tag = "Unary" -> <<n.rhs>>
    [] n.tag \in DOMAIN BinaryOps -> <<n.rhs, n.lhs>>
    [] n.tag \in {"LOr", "LAnd"} -> <<n.lhs, n.rhs>>
    [] n.tag \in {"ConstDef", "VarDef"} -> n.dims \o n.inits
    [] n.tag = "Param" -> n.dims
    [] n.tag = "Assign" -> n.idx \o <<n.exp>>
    [] OTHER -> <<>>

\* seen: what the children returned; note: local variables of the Dump.
Frame(n) == [node |-> n, seen |-> <<>>, note |-> <<>>]
Top == Head(dump)
Node == Top.node
Seen == Top.seen
Dumping(tag) == dump # <<>> /\ Node.tag = tag
At(tag, k) == Dumping(tag) /\ Len(Seen) = k
AllSeen == Len(Seen) = Len(Children(Node))
NextChild == Children(Node)[Len(Seen) + 1]

Descend(note) == dump' = <<Frame(NextChild), [Top EXCEPT !.note = note]>> \o Tail(dump)
Return(d) ==
  dump' = <<[dump[2] EXCEPT !.seen = Append(@, d)]>> \o SubSeq(dump, 3, Len(dump))
Leave == dump' = Tail(dump)
-----------------------------------------------------------------------------
(* Exp, Number, LVal, calls *)

\* a mutant: the initialiser of a global is not folded
FlagInExpAsItWas == flag

FlagInExp == cur_symbol_table = "root" \/ flag

DumpExp ==
  /\ At("Exp", 0)
  /\ is_calculating_const_exp' = FlagInExp
  /\ Descend(<<>>)
  /\ UNCHANGED <<todo, text, scope, meaning>>

DumpExpEnd ==
  /\ At("Exp", 1)
  /\ is_calculating_const_exp' = FALSE
  /\ Return(Seen[1])
  /\ UNCHANGED <<todo, text, scope, meaning>>

DumpNumber ==
  /\ Dumping("Number")
  /\ Return(CalData(TRUE, Node.val, -1))
  /\ UNCHANGED <<todo, text, is_calculating_const_exp, scope, meaning>>

Key(name) == <<name, symbols[name].koopa_var_count>>

\* LValAST::Dump, a name alone: a constant is its value, whatever the flag.
DumpIdent ==
  /\ Dumping("LVal") /\ Node.idx = <<>>
  /\ LET s == symbols[Node.name]
         r == Reg(unused_koopa_count) IN
     IF s.flag_is_const
     THEN Return(CalData(TRUE, s.val, -1)) /\ UNCHANGED text
     ELSE /\ Emit(<<IF s.var_type = "array"
                    THEN Ins("getelemptr", r, <<Var(Key(Node.name)), Imm(0)>>)
                    ELSE Ins("load", r, <<Var(Key(Node.name))>>)>>, 1)
          /\ Return(InRegister(0, unused_koopa_count))
  /\ UNCHANGED <<todo, is_calculating_const_exp, scope, meaning>>

\* a mutant: the line that loads a pointer is not counted by the later ones
PathLoadUncounted(name, idx) ==
  LET n == unused_koopa_count
      pointer == symbols[name].var_type = "pointer"
      first == IF pointer THEN n + 1 ELSE n
      base == IF pointer THEN Reg(n) ELSE Var(Key(name))
  IN (IF pointer THEN <<Ins("load", Reg(n), <<Var(Key(name))>>)>> ELSE <<>>)
     \o [i \in DOMAIN idx |->
           Ins(IF i = 1 /\ pointer THEN "getptr" ELSE "getelemptr", Reg(first + i - 1),
               <<IF i = 1 THEN base ELSE Reg(n + i - 2), idx[i]>>)]

\* The lines that compute the address of an element, one register each.
Path(name, idx) ==
  LET n == unused_koopa_count
      pointer == symbols[name].var_type = "pointer"
      first == IF pointer THEN n + 1 ELSE n
      base == IF pointer THEN Reg(n) ELSE Var(Key(name))
  IN (IF pointer THEN <<Ins("load", Reg(n), <<Var(Key(name))>>)>> ELSE <<>>)
     \o [i \in DOMAIN idx |->
           Ins(IF i = 1 /\ pointer THEN "getptr" ELSE "getelemptr", Reg(first + i - 1),
               <<IF i = 1 THEN base ELSE Reg(first + i - 2), idx[i]>>)]

\* LValAST::Dump, an element: all indices first, then the address, then a load
\* or, where indices are missing, the address of the first element in it.
DumpElement ==
  /\ Dumping("LVal") /\ Node.idx # <<>>
  /\ IF ~ AllSeen
     THEN Descend(<<>>) /\ UNCHANGED text
     ELSE LET path == Path(Node.name, [i \in DOMAIN Seen |-> Operand(Seen[i])])
              last == unused_koopa_count + Len(path)
              end == IF symbols[Node.name].dim = Len(Node.idx) + 1
                     THEN Ins("load", Reg(last), <<Reg(last - 1)>>)
                     ELSE Ins("getelemptr", Reg(last), <<Reg(last - 1), Imm(0)>>)
          IN Emit(Append(path, end), Len(path) + 1) /\ Return(InRegister(0, last))
  /\ UNCHANGED <<todo, is_calculating_const_exp, scope, meaning>>

\* a mutant: the register of a result is handed out again
ResultsKept(void) == 0

Results(void) == IF void THEN 0 ELSE 1

\* UnaryExpAST::Dump case 1: the arguments (FuncRParamsAST::Dump(1)), the call.
DumpCall ==
  /\ Dumping("Call")
  /\ IF ~ AllSeen
     THEN Descend(<<>>) /\ UNCHANGED text
     ELSE /\ Emit(<<Ins("call", IF Node.void THEN NoPlace ELSE Reg(unused_koopa_count),
                        <<Node.name>> \o [i \in DOMAIN Seen |-> Operand(Seen[i])])>>,
                  Results(Node.void))
          /\ Return(InRegister(-1, IF Node.void THEN -1 ELSE unused_koopa_count))
  /\ UNCHANGED <<todo, is_calculating_const_exp, scope, meaning>>
-----------------------------------------------------------------------------
(* Operators *)

Bit(b) == IF b THEN 1 ELSE 0
\* int division of C rounds towards zero
Quotient(a, b) ==
  LET Size(n) == IF n < 0 THEN -n ELSE n
      q == Size(a) \div Size(b)
  IN IF (a < 0) <=> (b < 0) THEN q ELSE -q

\* The operators of C, which are the operations of Koopa too.
Compute(op, a, b) ==
  CASE op = "mul" -> a * b
    [] op = "div" -> Quotient(a, b)
    [] op = "mod" -> a - b * Quotient(a, b)
    [] op = "add" -> a + b
    [] op = "sub" -> a - b
    [] op = "gt" -> Bit(a > b)
    [] op = "lt" -> Bit(a < b)
    [] op = "ge" -> Bit(a >= b)
    [] op = "le" -> Bit(a <= b)
    [] op = "eq" -> Bit(a = b)
    [] op = "ne" -> Bit(a # b)
Stops(op, b) == op \in {"div", "mod"} /\ b = 0     \* SIGFPE

\* The right operand is dumped before the left one.  Where an instruction is
\* emitted the result keeps the number `stale` beside the register.
DumpBinary(tag, stale(_, _, _)) ==
  /\ Dumping(tag)
  /\ IF ~ AllSeen
     THEN Descend(<<>>) /\ UNCHANGED text
     ELSE LET rhs == Seen[1]
              lhs == Seen[2] IN
          IF flag
          THEN /\ ~ Stops(Node.op, rhs.val)
               /\ Return(Folded(Compute(Node.op, lhs.val, rhs.val))) /\ UNCHANGED text
          ELSE /\ Emit(<<Ins(Node.op, Reg(unused_koopa_count),
                             <<Operand(lhs), Operand(rhs)>>)>>, 1)
               /\ Return(InRegister(stale(Node.op, lhs.val, rhs.val), unused_koopa_count))
  /\ UNCHANGED <<todo, is_calculating_const_exp, scope, meaning>>

DumpMulExp == LET Untouched(op, a, b) == 0 IN DumpBinary("Mul", Untouched)
DumpAddExp == DumpBinary("Add", Compute)
DumpRelExp == DumpBinary("Rel", Compute)
DumpEqExp == DumpBinary("Eq", Compute)

\* -x is 0 - x, !x is 0 == x; +x is its operand.
DumpUnaryExp ==
  /\ Dumping("Unary")
  /\ IF ~ AllSeen
     THEN Descend(<<>>) /\ UNCHANGED text
     ELSE LET rhs == Seen[1]
              val == Compute(Node.op, 0, rhs.val) IN
          CASE Node.op = "plus" -> Return(rhs) /\ UNCHANGED text
            [] Node.op # "plus" /\ flag -> Return(Folded(val)) /\ UNCHANGED text
            [] OTHER -> /\ Emit(<<Ins(Node.op, Reg(unused_koopa_count),
                                      <<Imm(0), Operand(rhs)>>)>>, 1)
                        /\ Return(InRegister(val, unused_koopa_count))
  /\ UNCHANGED <<todo, is_calculating_const_exp, scope, meaning>>

\* || and &&.  The flag is looked at again at each step, and may have changed.
TempResult(n) == Var(<<"%temp_l_result", n>>)
Logical == \E tag \in {"LOr", "LAnd"} : Dumping(tag)

DumpLogicAlloc ==
  /\ Logical /\ Len(Seen) = 0
  /\ Descend(<<unused_koopa_var_count>>)
  /\ IF flag THEN UNCHANGED text
     ELSE /\ k_str' = Append(k_str, Ins("alloc", TempResult(unused_koopa_var_count), <<>>))
          /\ unused_koopa_var_count' = unused_koopa_var_count + 1
          /\ UNCHANGED <<unused_koopa_count, unused_koopa_label_count>>
  /\ UNCHANGED <<todo, is_calculating_const_exp, scope, meaning>>

\* The side that decides jumps over the other: || to then, && to else.
DumpLogicBranch ==
  /\ Logical /\ Len(Seen) = 1
  /\ LET n == unused_koopa_label_count
         step == IF flag THEN 0 ELSE 1
         then == Label("%then", n)
         else == Label("%else", n + step) IN
     /\ Descend(<<Node.tag, Top.note[1], then, else, Label("%end", n + 2 * step)>>)
     /\ IF flag THEN UNCHANGED text
        ELSE /\ k_str' = k_str \o <<Br(Operand(Seen[1]), then, else),
                                    Open(IF Node.tag = "LOr" THEN else ELSE then)>>
             /\ unused_koopa_label_count' = n + 3
             /\ UNCHANGED <<unused_koopa_count, unused_koopa_var_count>>
  /\ UNCHANGED <<todo, is_calculating_const_exp, scope, meaning>>

\* LOrOpAST::Dump and LAndOpAST::Dump where they emit
LOrOp(lhs, rhs, n) ==
  <<Ins("or", Reg(n), <<Operand(lhs), Operand(rhs)>>), Ins("ne", Reg(n + 1), <<Reg(n), Imm(0)>>)>>
LAndOp(lhs, rhs, n) ==
  <<Ins("ne", Reg(n), <<Operand(lhs), Imm(0)>>), Ins("ne", Reg(n + 1), <<Operand(rhs), Imm(0)>>),
    Ins("and", Reg(n + 2), <<Reg(n + 1), Reg(n)>>)>>
LogicVal(tag, lhs, rhs) ==
  Bit(IF tag = "LOr" THEN lhs.val # 0 \/ rhs.val # 0 ELSE lhs.val # 0 /\ rhs.val # 0)

\* One register is skipped between the operation and the load.
DumpLogicJoin ==
  /\ Logical /\ Len(Seen) = 2
  /\ LET lhs == Seen[1]
         rhs == Seen[2]
         val == LogicVal(Node.tag, lhs, rhs)
         op == IF Node.tag = "LOr" THEN LOrOp(lhs, rhs, unused_koopa_count)
                                   ELSE LAndOp(lhs, rhs, unused_koopa_count)
         result == unused_koopa_count + Len(op) - 1
         place == TempResult(Top.note[2])
         other == IF Node.tag = "LOr" THEN Top.note[3] ELSE Top.note[4]
         end == Top.note[5] IN
     IF flag THEN Return(Folded(val)) /\ UNCHANGED text
     ELSE /\ Emit(op \o <<Store(Reg(result), place), Jump(end), Open(other),
                          Store(Imm(Bit(Node.tag = "LOr")), place), Jump(end), Open(end),
                          Ins("load", Reg(result + 2), <<place>>)>>, Len(op) + 2)
          /\ Return(InRegister(val, result + 2))
  /\ UNCHANGED <<todo, is_calculating_const_exp, scope, meaning>>
-----------------------------------------------------------------------------
(* What the source means.  A value is an int, an address (an object and a   *)
(* path of indices into it) or Undefined.                                   *)

Int1(v) == <<"int", v>>
Address(object, path) == <<"at", object, path>>
Undefined == <<"undefined">>
IsInt(v) == v[1] = "int"
True(v) == v[2] # 0

Cell(cells, place) == IF place \in DOMAIN cells THEN cells[place] ELSE Held(place)
Apply(op, a, b) ==
  IF IsInt(a) /\ IsInt(b) /\ ~ Stops(op, b[2]) THEN Int1(Compute(op, a[2], b[2])) ELSE Undefined
\* pointer + n, and the address of element n of an array
Advance(place, n) == Address(place[2], [place[3] EXCEPT ![Len(place[3])] = @ + n])
Within(place, n) == Address(place[2], Append(place[3], n))

VarPlace(name) == Address(Key(name), <<>>)
\* name[idx[1]][idx[2]]...
Place(name, idx) ==
  IF symbols[name].var_type = "pointer"
  THEN LET p == Advance(Cell(meaning.cells, VarPlace(name)), Head(idx))
       IN Address(p[2], p[3] \o Tail(idx))
  ELSE Address(Key(name), idx)

Value[e \in Exps] ==
  LET Ints(es) == [i \in DOMAIN es |-> Value[es[i]][2]]
      Defined(es) == \A i \in DOMAIN es : IsInt(Value[es[i]]) IN
  CASE e.tag = "Exp" -> Value[e.exp]
    [] e.tag = "Number" -> Int1(e.val)
    [] e.tag = "LVal" /\ e.idx = <<>> ->
         LET s == symbols[e.name] IN
         CASE s.flag_is_const -> meaning.consts[e.name]
           [] s.var_type = "array" -> Address(Key(e.name), <<0>>)
           [] OTHER -> Cell(meaning.cells, VarPlace(e.name))
    [] e.tag = "LVal" /\ e.idx # <<>> ->
         IF ~ Defined(e.idx) THEN Undefined
         ELSE IF symbols[e.name].dim = Len(e.idx) + 1
         THEN Cell(meaning.cells, Place(e.name, Ints(e.idx)))
         ELSE Within(Place(e.name, Ints(e.idx)), 0)
    [] e.tag = "Call" ->
         IF e.void THEN Undefined
         ELSE Answer(e.name, [i \in DOMAIN e.params |-> Value[e.params[i]]])
    [] e.tag = "Unary" -> IF e.op = "plus" THEN Value[e.rhs]
                          ELSE Apply(e.op, Int1(0), Value[e.rhs])
    [] e.tag \in DOMAIN BinaryOps -> Apply(e.op, Value[e.lhs], Value[e.rhs])
    [] e.tag \in {"LOr", "LAnd"} ->
         LET l == Value[e.lhs] IN
         CASE ~ IsInt(l) -> Undefined
           [] IsInt(l) /\ True(l) = (e.tag = "LOr") -> Int1(Bit(e.tag = "LOr"))
           [] OTHER -> Apply("ne", Value[e.rhs], Int1(0))

\* No operator is dumped behind a parenthesised expression inside e; unary plus
\* does nothing and does not count.  Where e must be constant it then folds.
Parenthesised[e \in Exps] ==
  e.tag = "Exp" \/ \E i \in DOMAIN Children(e) : Parenthesised[Children(e)[i]]
Clean[e \in Exps] ==
  IF e.tag = "Exp" \/ (e.tag = "Unary" /\ e.op = "plus")
  THEN Clean[Children(e)[1]] ELSE ~ Parenthesised[e]
\* The value of a constant expression as far as anything is claimed of it.
Known(e) == IF Clean[e] THEN Value[e] ELSE Undefined

\* Memory after `place = value`, and after several such assignments.
With(cells, new) ==
  [p \in DOMAIN cells \cup DOMAIN new |-> IF p \in DOMAIN new THEN new[p] ELSE cells[p]]
Cells(values) == meaning' = [meaning EXCEPT !.cells = With(@, values)]
-----------------------------------------------------------------------------
(* Declarations *)

Variate(const, val, type, dims) ==
  [flag_is_const |-> const, val |-> val, var_type |-> type,
   koopa_var_count |-> IF const THEN -1 ELSE unused_koopa_var_count,
   dim |-> IF const THEN 0 ELSE dims + 1]
Insert(name, variate) ==
  /\ symbols' = [x \in DOMAIN symbols \cup {name} |->
                   IF x = name THEN variate ELSE symbols[x]]
  /\ UNCHANGED cur_symbol_table

\* DeclAST::Dump: the flag is set for all definitions of a const declaration
\* and cleared behind it; for variables it is cleared in front.
DumpDecl ==
  /\ dump = <<>> /\ todo # <<>> /\ Head(todo).tag = "Decl"
  /\ todo' = Tail(todo)
  /\ is_calculating_const_exp' = Head(todo).const
  /\ dump' = [i \in DOMAIN Head(todo).defs |-> Frame(Head(todo).defs[i])]
             \o (IF Head(todo).const THEN <<Frame([tag |-> "ConstDeclEnd"])>> ELSE <<>>)
  /\ UNCHANGED <<text, scope, meaning>>

DumpConstDeclEnd ==
  /\ Dumping("ConstDeclEnd")
  /\ Leave
  /\ is_calculating_const_exp' = FALSE
  /\ UNCHANGED <<todo, text, scope, meaning>>

\* The children the code brackets with the flag: lengths of arrays, and what
\* ConstInitValAST::Dump is called for.
Bracketed(node, k) == node.tag \in {"ConstDef", "Param"} \/ k <= Len(node.dims)

\* The flag when child k is dumped; it is cleared behind the child before it.
FlagForChild(node, k) ==
  CASE Bracketed(node, k) -> TRUE
    [] ~ Bracketed(node, k) /\ k > 1 /\ Bracketed(node, k - 1) -> FALSE
    [] OTHER -> flag
FlagBehind(node) ==
  LET k == Len(Children(node)) IN flag /\ ~ (k > 0 /\ Bracketed(node, k))

DumpDefChild ==
  /\ \E tag \in {"ConstDef", "VarDef", "Param"} : Dumping(tag)
  /\ ~ AllSeen
  /\ is_calculating_const_exp' = FlagForChild(Node, Len(Seen) + 1)
  /\ Descend(<<Len(k_str)>>)
  /\ UNCHANGED <<todo, text, scope, meaning>>

Ended(tag) == Dumping(tag) /\ AllSeen /\ Leave /\ UNCHANGED todo

\* ConstDefAST::Dump case 0: the constant is known by its value from here on.
DumpConstDef ==
  /\ Ended("ConstDef") /\ Node.dims = <<>>
  /\ is_calculating_const_exp' = FlagBehind(Node)
  /\ Insert(Node.name, Variate(TRUE, Seen[1].val, "int", 0))
  /\ unused_koopa_var_count' = unused_koopa_var_count + 1
  /\ meaning' = [meaning EXCEPT !.consts =
                   With(@, [x \in {Node.name} |-> Known(Node.inits[1])])]
  /\ UNCHANGED <<k_str, unused_koopa_count, unused_koopa_label_count>>

NewVar == <<Node.name, unused_koopa_var_count>>
\* Lines that declare the new variable.
Declare(lines, registers) ==
  /\ k_str' = k_str \o lines
  /\ unused_koopa_count' = unused_koopa_count + registers
  /\ unused_koopa_var_count' = unused_koopa_var_count + 1
  /\ UNCHANGED unused_koopa_label_count

\* VarDefAST::Dump cases 0 and 2
DumpScalarDef ==
  /\ Ended("VarDef") /\ Node.dims = <<>>
  /\ is_calculating_const_exp' = FlagBehind(Node)
  /\ Insert(Node.name, Variate(FALSE, 0, "int", 0))
  /\ Declare(IF cur_symbol_table = "root"
             THEN <<Ins("global", Var(NewVar),
                        IF Seen = <<>> THEN <<Imm(0)>> ELSE <<Operand(Seen[1])>>)>>
             ELSE <<Ins("alloc", Var(NewVar), <<>>)>>
                  \o [i \in DOMAIN Seen |-> Store(Operand(Seen[i]), Var(NewVar))], 0)
  /\ LET place == Address(NewVar, <<>>) IN
     CASE Seen # <<>> -> Cells([p \in {place} |-> Value[Node.inits[1]]])
       [] Seen = <<>> /\ cur_symbol_table = "root" -> Cells([p \in {place} |-> Int1(0)])
       [] OTHER -> UNCHANGED meaning

\* a mutant: the elements are initialised from the second one on
ArrayTextShifted(elems) ==
  [j \in 1 .. 2 * Len(elems) |->
     LET i == (j + 1) \div 2
         r == Reg(unused_koopa_count + i - 1) IN
     IF j % 2 = 1 THEN Ins("getelemptr", r, <<Var(NewVar), Imm(i)>>) ELSE Store(elems[i], r)]

\* InitLocalArrayInKoopa: the address of each element and a store.
ArrayText(elems) ==
  [j \in 1 .. 2 * Len(elems) |->
     LET i == (j + 1) \div 2
         r == Reg(unused_koopa_count + i - 1) IN
     IF j % 2 = 1 THEN Ins("getelemptr", r, <<Var(NewVar), Imm(i - 1)>>) ELSE Store(elems[i], r)]

\* VarDefAST::Dump and ConstDefAST::Dump case 1: elements without an
\* initialiser are 0.
DumpArrayDef ==
  /\ \E tag \in {"VarDef", "ConstDef"} : Ended(tag)
  /\ Node.dims # <<>>
  /\ is_calculating_const_exp' = FlagBehind(Node)
  /\ LET elems == [i \in 1 .. Seen[1].val |->
                     IF i <= Len(Node.inits) THEN Operand(Seen[i + 1]) ELSE Imm(0)]
         length == Known(Node.dims[1])
         places == IF IsInt(length) THEN {Address(NewVar, <<i>>) : i \in 0 .. length[2] - 1}
                   ELSE {} IN
     /\ Insert(Node.name, Variate(FALSE, 0, "array", 1))
     /\ IF cur_symbol_table = "root"
        THEN Declare(<<Ins("global array", Var(NewVar), elems)>>, 0)
        ELSE Declare(<<Ins("alloc", Var(NewVar), <<>>)>> \o ArrayText(elems), Len(elems))
     /\ Cells([p \in places |-> LET i == p[3][1] + 1 IN
                                IF i <= Len(Node.inits) THEN Value[Node.inits[i]] ELSE Int1(0)])
-----------------------------------------------------------------------------
(* The function and its statements *)

\* FuncDefAST::Dump up to declare_alloc; FuncFParamAST::Dump folds the lengths
\* a parameter is declared with.
DumpFuncDef ==
  /\ dump = <<>> /\ todo # <<>> /\ Head(todo).tag = "FuncDef"
  /\ todo' = Tail(todo)
  /\ cur_symbol_table' = "function"
  /\ k_str' = Append(k_str, Ins("fun", NoPlace, <<>>))
  /\ dump' = Append([i \in DOMAIN Head(todo).params |-> Frame(Head(todo).params[i])],
                    Frame([tag |-> "DeclareAlloc", params |-> Head(todo).params]))
  /\ UNCHANGED <<counts, is_calculating_const_exp, symbols, meaning>>

DumpParam ==
  /\ Ended("Param")
  /\ is_calculating_const_exp' = FlagBehind(Node)
  /\ UNCHANGED <<text, scope, meaning>>

DeclareAlloc ==
  /\ Dumping("DeclareAlloc")
  /\ LET params == Node.params
         n == unused_koopa_var_count
         key(i) == <<params[i].name, n + i - 1>>
         index(x) == CHOOSE i \in DOMAIN params : params[i].name = x
         names == {params[i].name : i \in DOMAIN params}
         variate(i) == [Variate(FALSE, 0, IF params[i].array THEN "pointer" ELSE "int",
                                IF params[i].array THEN 1 + Len(params[i].dims) ELSE 0)
                        EXCEPT !.koopa_var_count = n + i - 1] IN
     /\ k_str' = k_str \o [j \in 1 .. 2 * Len(params) |->
                             LET i == (j + 1) \div 2 IN
                             IF j % 2 = 1 THEN Ins("alloc", Var(key(i)), <<>>)
                             ELSE Store(Arg(params[i].name), Var(key(i)))]
     /\ unused_koopa_var_count' = n + Len(params)
     /\ symbols' = With(symbols, [x \in names |-> variate(index(x))])
     /\ Cells([p \in {Address(key(i), <<>>) : i \in DOMAIN params} |-> Argument(p[2][1])])
  /\ Leave
  /\ UNCHANGED <<todo, unused_koopa_count, unused_koopa_label_count,
                 is_calculating_const_exp, cur_symbol_table>>

DumpStmt ==
  /\ dump = <<>> /\ todo # <<>> /\ Head(todo).tag \in {"ExpStmt", "Assign"}
  /\ todo' = Tail(todo)
  /\ dump' = <<Frame(Head(todo))>>
  /\ UNCHANGED <<text, is_calculating_const_exp, scope, meaning>>

\* StmtAST::Dump case 2
DumpExpStmt ==
  /\ Dumping("ExpStmt")
  /\ IF AllSeen THEN Leave ELSE Descend(<<>>)
  /\ UNCHANGED <<todo, text, is_calculating_const_exp, scope, meaning>>

\* StmtAST::Dump case 0: the address is computed before the right side is
\* dumped, and its register remembered.
DumpAssign ==
  /\ Dumping("Assign")
  /\ LET k == Len(Node.idx) IN
     CASE Len(Seen) < k \/ (k = 0 /\ Seen = <<>>) ->
            Descend(<<>>) /\ UNCHANGED <<text, meaning>>
       [] k > 0 /\ Len(Seen) = k ->
            LET path == Path(Node.name, [i \in DOMAIN Seen |-> Operand(Seen[i])]) IN
            /\ Emit(path, Len(path))
            /\ Descend(<<unused_koopa_count + Len(path) - 1>>)
            /\ UNCHANGED meaning
       [] OTHER ->
            LET place == IF k = 0 THEN VarPlace(Node.name)
                         ELSE Place(Node.name, [i \in 1 .. k |-> Value[Node.idx[i]][2]]) IN
            /\ Emit(<<Store(Operand(Last(Seen)),
                            IF k = 0 THEN Var(Key(Node.name)) ELSE Reg(Top.note[1]))>>, 0)
            /\ Cells([p \in {place} |-> Value[Node.exp]])
            /\ Leave
  /\ UNCHANGED <<todo, is_calculating_const_exp, scope>>
-----------------------------------------------------------------------------
Init ==
  /\ todo \in Programs
  /\ dump = <<>> /\ k_str = <<>> /\ is_calculating_const_exp = FALSE
  /\ unused_koopa_count = 0 /\ unused_koopa_var_count = 1 /\ unused_koopa_label_count = 0
  /\ cur_symbol_table = "root" /\ symbols = <<>>
  /\ meaning = [consts |-> <<>>, cells |-> <<>>]

\* The unit has been dumped.
Finish == todo = <<>> /\ dump = <<>> /\ UNCHANGED vars

DumpExpression ==
  \/ DumpExp \/ DumpExpEnd \/ DumpNumber \/ DumpIdent \/ DumpElement \/ DumpCall
  \/ DumpMulExp \/ DumpAddExp \/ DumpRelExp \/ DumpEqExp \/ DumpUnaryExp
  \/ DumpLogicAlloc \/ DumpLogicBranch \/ DumpLogicJoin
DumpDeclaration ==
  \/ DumpDecl \/ DumpConstDeclEnd \/ DumpDefChild
  \/ DumpConstDef \/ DumpScalarDef \/ DumpArrayDef
DumpFunction ==
  \/ DumpFuncDef \/ DumpParam \/ DeclareAlloc \/ DumpStmt \/ DumpExpStmt \/ DumpAssign

Next == DumpExpression \/ DumpDeclaration \/ DumpFunction \/ Finish
Spec == Init /\ [][Next]_vars
-----------------------------------------------------------------------------
(* What the text does: the meaning libkoopa and the back end give it.  Jumps *)
(* lead forward only, so one pass over the lines runs it: a machine that has *)
(* jumped skips lines up to the label.                                       *)

NoLabel == <<"none", 0>>
Machine0 == [regs |-> <<>>, cells |-> <<>>, to |-> NoLabel]

Look(m, o) ==
  CASE o[1] = "imm" -> Int1(o[2])
    [] o[1] = "%" -> IF o[2] \in DOMAIN m.regs THEN m.regs[o[2]] ELSE Undefined
    [] o[1] = "@" -> Address(o[2], <<>>)
    [] o[1] = "arg" -> Argument(o[2])

\* `or` and `and` are bitwise: what counts of the first is that it is 0.
Calculate(op, a, b) ==
  CASE ~ (IsInt(a) /\ IsInt(b)) -> Undefined
    [] op = "or" -> Int1(Bit(a[2] # 0 \/ b[2] # 0))
    [] op = "and" -> Int1(Bit(a[2] = 1 /\ b[2] = 1))
    [] OTHER -> Apply(op, a, b)

Execute(m, it) ==
  LET arg(i) == Look(m, it.args[i])
      isplace(v) == v[1] = "at"
      define(v) == [m EXCEPT !.regs = With(@, [r \in {it.dst[2]} |-> v])]
      write(values) == [m EXCEPT !.cells = With(@, values)] IN
  CASE m.to # NoLabel -> IF it.op = "label" /\ it.dst = m.to
                         THEN [m EXCEPT !.to = NoLabel] ELSE m
    [] it.op \in {"label", "fun", "alloc"} -> m
    [] it.op = "jump" -> [m EXCEPT !.to = it.to[1]]
    [] it.op = "br" -> [m EXCEPT !.to = IF IsInt(arg(1)) /\ True(arg(1)) THEN it.to[1] ELSE it.to[2]]
    [] it.op = "global" -> write([p \in {Address(it.dst[2], <<>>)} |-> arg(1)])
    [] it.op = "global array" ->
         write([p \in {Address(it.dst[2], <<i - 1>>) : i \in DOMAIN it.args} |-> arg(p[3][1] + 1)])
    [] it.op = "store" -> IF isplace(arg(2)) THEN write([p \in {arg(2)} |-> arg(1)]) ELSE m
    [] it.op = "load" -> define(IF isplace(arg(1)) THEN Cell(m.cells, arg(1)) ELSE Undefined)
    [] it.op = "getelemptr" ->
         define(IF isplace(arg(1)) /\ IsInt(arg(2)) THEN Within(arg(1), arg(2)[2]) ELSE Undefined)
    [] it.op = "getptr" ->
         define(IF isplace(arg(1)) /\ IsInt(arg(2)) THEN Advance(arg(1), arg(2)[2]) ELSE Undefined)
    [] it.op = "call" -> IF it.dst = NoPlace THEN m
                         ELSE define(Answer(it.args[1], [i \in 1 .. Len(it.args) - 1 |-> arg(i + 1)]))
    [] OTHER -> define(Calculate(it.op, arg(1), arg(2)))

Ran[n \in 0 .. Len(k_str)] == IF n = 0 THEN Machine0 ELSE Execute(Ran[n - 1], k_str[n])
Machine == Ran[Len(k_str)]
-----------------------------------------------------------------------------
(* Properties *)

CalDatas == [is_num : BOOLEAN, val : Int, count : -1 .. unused_koopa_count - 1 \cup {0}]

\* Every CalData names a register that has been handed out, the text defines
\* registers below the counter only, and no Dump has more results than calls.
TypeOK ==
  /\ is_calculating_const_exp \in BOOLEAN
  /\ cur_symbol_table \in {"root", "function"}
  /\ unused_koopa_count \in Nat /\ unused_koopa_var_count \in Nat \ {0}
  /\ unused_koopa_label_count \in Nat
  /\ \A i \in DOMAIN dump :
       /\ Len(dump[i].seen) <= Len(Children(dump[i].node))
       /\ \A j \in DOMAIN dump[i].seen : dump[i].seen[j] \in CalDatas
  /\ \A i \in DOMAIN k_str : k_str[i].dst[1] = "%" => k_str[i].dst[2] \in 0 .. unused_koopa_count - 1

\* The node whose Dump has just returned, and what it left in data.
Returned == dump # <<>> /\ Seen # <<>>
Child == Children(Node)[Len(Seen)]
Data == Last(Seen)

\* Behind every Dump of an expression the operand in data denotes the value C
\* gives the expression: a number is that value, a register holds it when the
\* text so far is run (unless the run is jumping over this expression).
RegistersDenote ==
  Returned /\ Value[Child] # Undefined /\ Machine.to = NoLabel
    => Look(Machine, Operand(Data)) = Value[Child]

MustBeConstant(node, k) ==
  node.tag \in {"ConstDef", "VarDef", "Param"}
  /\ (Bracketed(node, k) \/ cur_symbol_table = "root")

\* Lengths, constants and initialisers of globals fold to a number without
\* emitting anything exactly where no operator follows a parenthesis: there
\* ExpAST::Dump has cleared the flag somebody else had set.
ConstantsFold ==
  Returned /\ MustBeConstant(Node, Len(Seen))
    => (Clean[Child] <=> Data.is_num /\ Len(k_str) = Top.note[1])

\* Between two items memory is what C says: each variable and element holds
\* the value that was last assigned to it.
MemoryAgrees ==
  dump = <<>> => /\ Machine.to = NoLabel
                 /\ \A p \in DOMAIN meaning.cells :
                      meaning.cells[p] # Undefined => Cell(Machine.cells, p) = meaning.cells[p]

\* Outside functions the text consists of global definitions by numbers: the
\* compiler asserts that libkoopa accepts it (main.cpp:135).
GlobalsAreData ==
  cur_symbol_table = "root" =>
    \A i \in DOMAIN k_str :
      /\ k_str[i].op \in {"global", "global array"}
      /\ \A j \in DOMAIN k_str[i].args : k_str[i].args[j][1] = "imm"
=============================================================================
