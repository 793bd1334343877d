------------------------------- MODULE StmtDump -------------------------------
(***************************************************************************)
(* Lowering of function bodies to Koopa IR: FuncDefAST, BlockAST,          *)
(* BlockItemAST, StmtAST, LOrExpAST and LAndExpAST :: Dump.                *)
(*                                                                         *)
(* The Dump methods walk the syntax tree recursively and append text to    *)
(* the global k_str.  Here k_str is a sequence of IR items, the tree is    *)
(* the constant Programs draws it from, and the C++ call stack is the      *)
(* variable dump: the sequence of what the active Dump calls still have to *)
(* do, innermost first.  One action is one stretch of a Dump method        *)
(* between two calls of another Dump.                                      *)
(*                                                                         *)
(* Abstracted: the text of an item, arithmetic (an expression without      *)
(* short circuit is a number or one instruction that defines a register),  *)
(* names, types and scopes.                                                *)
(***************************************************************************)
EXTENDS Integers, Sequences, FiniteSets, SequencesExt

CONSTANTS
  Exps,       \* expression trees
  Stmts,      \* statement trees
  Blocks,     \* sequences of block items
  Programs    \* compilation units: sequences of function bodies

(***************************************************************************)
(* The grammar of the trees (sysy.y): what each tag promises to hold.      *)
(* A statement keeps the field names of StmtCase0 .. StmtCase10.  Of the   *)
(* variable that is assigned to only its indices are kept, l_val, and      *)
(* whether its type begins with "**": an array parameter, a pointer.       *)
(***************************************************************************)
GrammarExp(e) ==
  \/ e.tag = "num" /\ e.val \in Int
  \/ e.tag = "ins" /\ e.name \in Nat
  \/ e.tag \in {"lor", "land"} /\ e.lhs \in Exps /\ e.rhs \in Exps

GrammarStmt(s) ==
  \/ s.tag = 0 /\ s.l_val \in Seq(Exps) /\ s.pointer \in BOOLEAN /\ s.exp \in Exps
  \/ s.tag \in {1, 7, 8, 10}
  \/ s.tag \in {2, 9} /\ s.exp \in Exps
  \/ s.tag = 3 /\ s.block \in Blocks
  \/ s.tag \in {4, 6} /\ s.exp \in Exps /\ s.stmt \in Stmts
  \/ s.tag = 5 /\ s.exp \in Exps /\ s.stmt_if \in Stmts /\ s.stmt_else \in Stmts

GrammarItem(it) ==
  \/ it.tag = 0 /\ it.exp \in Exps
  \/ it.tag = 1 /\ it.stmt \in Stmts

ASSUME Grammar ==
  /\ \A e \in Exps : GrammarExp(e)
  /\ \A s \in Stmts : GrammarStmt(s)
  /\ \A b \in Blocks : /\ b = <<>> \/ (GrammarItem(Head(b)) /\ Tail(b) \in Blocks)
  /\ Programs \subseteq Seq(Blocks)

VARIABLES
  unit,                      \* function bodies still to be dumped
  dump,                      \* the active Dump calls, innermost first
  data,                      \* the operand the last finished Exp stands for
  k_str,                     \* the IR emitted so far
  unused_koopa_count,        \* next %N
  unused_koopa_var_count,    \* next @x_N and %temp_l_result_N
  unused_koopa_label_count,  \* next number of a basic block name
  last_ins_is_ret

counts == <<unused_koopa_count, unused_koopa_var_count, unused_koopa_label_count>>
vars == <<unit, dump, data, k_str, counts, last_ins_is_ret>>
-----------------------------------------------------------------------------
(***************************************************************************)
(* IR items.  Operands and labels are pairs of a kind and a number: the    *)
(* code builds every one of these names as a prefix and a counter.         *)
(***************************************************************************)
Imm(v)  == <<"imm", v>>
Reg(n)  == <<"%", n>>
Temp(n) == <<"%temp_l_result", n>>
Var(n)  == <<"@", n>>
Lab(kind, n) == <<kind, n>>
Entry   == <<"entry", 0>>
None    == <<"none", 0>>

Item(op, dst, args, to) == [op |-> op, dst |-> dst, args |-> args, to |-> to]

Fun          == Item("fun", None, <<>>, <<>>)
End          == Item("end", None, <<>>, <<>>)
Label(l)     == Item("label", l, <<>>, <<>>)
Jump(l)      == Item("jump", None, <<>>, <<l>>)
Br(c, t, f)  == Item("br", None, <<c>>, <<t, f>>)
Ret(args)    == Item("ret", None, args, <<>>)
Alloc(v)     == Item("alloc", v, <<>>, <<>>)
Store(a, d)  == Item("store", None, <<a, d>>, <<>>)
Ins(op, r, args) == Item(op, r, args, <<>>)

IsTerminator(it) == it.op \in {"jump", "br", "ret"}

(***************************************************************************)
(* What a Dump call still has to do.                                       *)
(***************************************************************************)
StmtF(s)  == [at |-> "Stmt", stmt |-> s]
ExpF(e)   == [at |-> "Exp", exp |-> e]
BlockF(b) == [at |-> "Block", items |-> b]
\* jump to `to` unless the last instruction is a return, then open `label`
Join(to, label) == [at |-> "Join", to |-> to, label |-> label]
\* the same at the end of a loop body
LoopJoin(label_while, label_while_false) ==
  [at |-> "LoopJoin", to |-> label_while, label |-> label_while_false]

\* mutant: the jump is written behind a return as well
JoinTextAlways(is_ret, to, label) == <<Jump(to), Label(label)>>

JoinText(is_ret, to, label) ==
  IF is_ret THEN <<Label(label)>> ELSE <<Jump(to), Label(label)>>

\* The handler returns; the calls in `next` are made first.
Continue(next) == dump' = next \o Tail(dump)
Running(at) == dump # <<>> /\ Head(dump).at = at
-----------------------------------------------------------------------------
(* Function definitions and blocks *)

\* FuncDefAST::Dump up to the call block->Dump(); the closing is DumpFuncEnd.
DumpFuncDef ==
  /\ dump = <<>> /\ unit # <<>>
  /\ unit' = Tail(unit)
  /\ dump' = <<BlockF(Head(unit)), [at |-> "FuncEnd"]>>
  /\ k_str' = k_str \o <<Fun, Label(Entry)>>
  /\ last_ins_is_ret' = FALSE
  /\ UNCHANGED <<data, counts>>

\* A return is added unless the body ends in one (`ret` or `ret 0`).
DumpFuncEnd ==
  /\ Running("FuncEnd")
  /\ Continue(<<>>)
  /\ k_str' = k_str \o (IF last_ins_is_ret THEN <<End>> ELSE <<Ret(<<>>), End>>)
  /\ UNCHANGED <<unit, data, counts, last_ins_is_ret>>

\* BlockItemAST::Dump, as BlockAST::Dump calls it.  A declaration is one
\* `int x = exp` (VarDefAST case 2): alloc and store after the initialiser.
DumpBlockItem ==
  /\ Running("Block")
  /\ LET items == Head(dump).items IN
     /\ items # <<>>
     /\ Continue((IF Head(items).tag = 0
                  THEN <<ExpF(Head(items).exp), [at |-> "VarDef"]>>
                  ELSE <<StmtF(Head(items).stmt)>>) \o <<BlockF(Tail(items))>>)
  /\ IF last_ins_is_ret
     THEN /\ k_str' = Append(k_str, Label(Lab("block", unused_koopa_label_count)))
          /\ unused_koopa_label_count' = unused_koopa_label_count + 1
     ELSE UNCHANGED <<k_str, unused_koopa_label_count>>
  /\ last_ins_is_ret' = FALSE
  /\ UNCHANGED <<unit, data, unused_koopa_count, unused_koopa_var_count>>

DumpBlockEnd ==
  /\ Running("Block") /\ Head(dump).items = <<>>
  /\ Continue(<<>>)
  /\ UNCHANGED <<unit, data, k_str, counts, last_ins_is_ret>>

DumpVarDef ==
  /\ Running("VarDef")
  /\ Continue(<<>>)
  /\ LET x == Var(unused_koopa_var_count) IN
     k_str' = k_str \o <<Alloc(x), Store(data, x)>>
  /\ unused_koopa_var_count' = unused_koopa_var_count + 1
  /\ UNCHANGED <<unit, data, unused_koopa_count, unused_koopa_label_count,
                 last_ins_is_ret>>
-----------------------------------------------------------------------------
(* StmtAST::Dump, one action per case; `s` is the statement *)

RunningStmt(tag) == Running("Stmt") /\ Head(dump).stmt.tag = tag

\* What is left of case 0 when an index has been dumped: the other indices are
\* still to do, had is what the ones before stand for.
Index(left, had, s) ==
  [at |-> "Index", left |-> left, had |-> had, pointer |-> s.pointer, exp |-> s.exp]
\* The same behind an address: these indices are not in it yet.
ElemPtr(indices, exp) == [at |-> "ElemPtr", indices |-> indices, exp |-> exp]

\* case 0: every index, the address, the right side, the store
DumpAssign ==
  /\ RunningStmt(0)
  /\ LET s == Head(dump).stmt IN
     Continue(IF s.l_val = <<>>
              THEN <<ExpF(s.exp), [at |-> "Store", dst |-> Var(0)]>>
              ELSE <<ExpF(Head(s.l_val)), Index(Tail(s.l_val), <<>>, s)>>)
  /\ UNCHANGED <<unit, data, k_str, counts, last_ins_is_ret>>

DumpIndex ==
  /\ Running("Index") /\ Head(dump).left # <<>>
  /\ LET f == Head(dump) IN
     Continue(<<ExpF(Head(f.left)), Index(Tail(f.left), Append(f.had, data), f)>>)
  /\ UNCHANGED <<unit, data, k_str, counts, last_ins_is_ret>>

\* The address of the first index; r is the first free register.  A pointer is
\* loaded before, and found again as unused_koopa_count - 1.
AddressText(pointer, index, r) ==
  IF pointer
  THEN <<Ins("load", Reg(r), <<Var(0)>>), Ins("getptr", Reg(r + 1), <<Reg(r), index>>)>>
  ELSE <<Ins("getelemptr", Reg(r), <<Var(0), index>>)>>

\* mutant: the load of a pointer is not counted
AddressRegsOne(pointer) == 1

\* Registers AddressText defines.
AddressRegs(pointer) == IF pointer THEN 2 ELSE 1

\* All indices are dumped.
DumpAddress ==
  /\ Running("Index") /\ Head(dump).left = <<>>
  /\ LET f == Head(dump)
         indices == Append(f.had, data)
         r == unused_koopa_count
     IN /\ Continue(<<ElemPtr(Tail(indices), f.exp)>>)
        /\ k_str' = k_str \o AddressText(f.pointer, Head(indices), r)
        /\ unused_koopa_count' = r + AddressRegs(f.pointer)
  /\ UNCHANGED <<unit, data, unused_koopa_var_count, unused_koopa_label_count,
                 last_ins_is_ret>>

\* One turn of the loop over the other indices: each goes on from the register
\* of the turn before.
DumpElemPtr ==
  /\ Running("ElemPtr") /\ Head(dump).indices # <<>>
  /\ LET indices == Head(dump).indices
         r == unused_koopa_count
     IN /\ Continue(<<ElemPtr(Tail(indices), Head(dump).exp)>>)
        /\ k_str' = Append(k_str, Ins("getelemptr", Reg(r), <<Reg(r - 1), Head(indices)>>))
  /\ unused_koopa_count' = unused_koopa_count + 1
  /\ UNCHANGED <<unit, data, unused_koopa_var_count, unused_koopa_label_count,
                 last_ins_is_ret>>

\* behind the loop
DumpElem ==
  /\ Running("ElemPtr") /\ Head(dump).indices = <<>>
  /\ LET num_dst == Reg(unused_koopa_count - 1) IN
     Continue(<<ExpF(Head(dump).exp), [at |-> "Store", dst |-> num_dst]>>)
  /\ UNCHANGED <<unit, data, k_str, counts, last_ins_is_ret>>

DumpStore ==
  /\ Running("Store")
  /\ Continue(<<>>)
  /\ k_str' = Append(k_str, Store(data, Head(dump).dst))
  /\ UNCHANGED <<unit, data, counts, last_ins_is_ret>>

\* cases 1, 2 and 3: nothing, an expression, a block
DumpNested ==
  /\ Running("Stmt")
  /\ LET s == Head(dump).stmt IN
     \/ s.tag = 1 /\ Continue(<<>>)
     \/ s.tag = 2 /\ Continue(<<ExpF(s.exp)>>)
     \/ s.tag = 3 /\ Continue(<<BlockF(s.block)>>)
  /\ UNCHANGED <<unit, data, k_str, counts, last_ins_is_ret>>

\* cases 4 and 5: the condition first
DumpIf ==
  /\ RunningStmt(4) \/ RunningStmt(5)
  /\ LET s == Head(dump).stmt IN Continue(<<ExpF(s.exp), [at |-> "Branch", stmt |-> s]>>)
  /\ UNCHANGED <<unit, data, k_str, counts, last_ins_is_ret>>

\* mutant: a plain if branches to an else label
DumpThenElseLabel ==
  /\ Running("Branch") /\ Head(dump).stmt.tag = 4
  /\ LET n == unused_koopa_label_count
         label_then == Lab("then", n)
         label_end == Lab("end", n + 1)
     IN /\ Continue(<<StmtF(Head(dump).stmt.stmt), Join(label_end, label_end)>>)
        /\ k_str' = k_str \o <<Br(data, label_then, Lab("else", n + 1)), Label(label_then)>>
        /\ unused_koopa_label_count' = n + 2
  /\ UNCHANGED <<unit, data, unused_koopa_count, unused_koopa_var_count,
                 last_ins_is_ret>>

DumpThen ==
  /\ Running("Branch") /\ Head(dump).stmt.tag = 4
  /\ LET n == unused_koopa_label_count
         label_then == Lab("then", n)
         label_end == Lab("end", n + 1)
     IN /\ Continue(<<StmtF(Head(dump).stmt.stmt), Join(label_end, label_end)>>)
        /\ k_str' = k_str \o <<Br(data, label_then, label_end), Label(label_then)>>
        /\ unused_koopa_label_count' = n + 2
  /\ UNCHANGED <<unit, data, unused_koopa_count, unused_koopa_var_count,
                 last_ins_is_ret>>

DumpThenElse ==
  /\ Running("Branch") /\ Head(dump).stmt.tag = 5
  /\ LET s == Head(dump).stmt
         n == unused_koopa_label_count
         label_then == Lab("then", n)
         label_else == Lab("else", n + 1)
         label_end == Lab("end", n + 2)
     IN /\ Continue(<<StmtF(s.stmt_if), Join(label_end, label_else),
                      StmtF(s.stmt_else), Join(label_end, label_end)>>)
        /\ k_str' = k_str \o <<Br(data, label_then, label_else), Label(label_then)>>
        /\ unused_koopa_label_count' = n + 3
  /\ UNCHANGED <<unit, data, unused_koopa_count, unused_koopa_var_count,
                 last_ins_is_ret>>

\* mutant: last_ins_is_ret is not reset behind the label
DumpJoinNoReset ==
  /\ Running("Join") \/ Running("LoopJoin")
  /\ Continue(<<>>)
  /\ k_str' = k_str \o JoinText(last_ins_is_ret, Head(dump).to, Head(dump).label)
  /\ UNCHANGED <<unit, data, counts, last_ins_is_ret>>

DumpJoin ==
  /\ Running("Join") \/ Running("LoopJoin")
  /\ Continue(<<>>)
  /\ k_str' = k_str \o JoinText(last_ins_is_ret, Head(dump).to, Head(dump).label)
  /\ last_ins_is_ret' = FALSE
  /\ UNCHANGED <<unit, data, counts>>

\* case 6 up to the condition
DumpWhile ==
  /\ RunningStmt(6)
  /\ LET s == Head(dump).stmt
         n == unused_koopa_label_count
         label_while == Lab("while", n)
     IN /\ Continue(<<ExpF(s.exp), [at |-> "While", stmt |-> s.stmt, n |-> n]>>)
        /\ k_str' = k_str \o JoinText(last_ins_is_ret, label_while, label_while)
        /\ unused_koopa_label_count' = n + 3
  /\ last_ins_is_ret' = FALSE
  /\ UNCHANGED <<unit, data, unused_koopa_count, unused_koopa_var_count>>

\* mutant: a constant 0 jumps back to the condition
DumpWhileBodyBack ==
  /\ Running("While")
  /\ LET n == Head(dump).n
         label_while == Lab("while", n)
         label_while_true == Lab("while_true", n + 1)
         label_while_false == Lab("while_false", n + 2)
     IN IF data = Imm(0)
        THEN /\ Continue(<<>>)
             /\ k_str' = k_str \o <<Jump(label_while), Label(label_while_false)>>
        ELSE /\ Continue(<<StmtF(Head(dump).stmt),
                           LoopJoin(label_while, label_while_false)>>)
             /\ k_str' = k_str \o <<Br(data, label_while_true, label_while_false),
                                    Label(label_while_true)>>
  /\ UNCHANGED <<unit, data, counts, last_ins_is_ret>>

\* case 6 from the condition on: a constant 0 drops the body
DumpWhileBody ==
  /\ Running("While")
  /\ LET n == Head(dump).n
         label_while == Lab("while", n)
         label_while_true == Lab("while_true", n + 1)
         label_while_false == Lab("while_false", n + 2)
     IN IF data = Imm(0)
        THEN /\ Continue(<<>>)
             /\ k_str' = k_str \o <<Jump(label_while_false), Label(label_while_false)>>
        ELSE /\ Continue(<<StmtF(Head(dump).stmt),
                           LoopJoin(label_while, label_while_false)>>)
             /\ k_str' = k_str \o <<Br(data, label_while_true, label_while_false),
                                    Label(label_while_true)>>
  /\ UNCHANGED <<unit, data, counts, last_ins_is_ret>>

\* mutant: the number of the unreachable label is not used up
DumpLoopExitNoCount ==
  /\ RunningStmt(7) \/ RunningStmt(8)
  /\ \E i \in DOMAIN dump :
       /\ dump[i].at = "LoopJoin"
       /\ \A j \in 1 .. i - 1 : dump[j].at # "LoopJoin"
       /\ k_str' = k_str \o
            <<Jump(IF Head(dump).stmt.tag = 7 THEN dump[i].label ELSE dump[i].to),
              Label(Lab("while_never_access", unused_koopa_label_count))>>
  /\ Continue(<<>>)
  /\ UNCHANGED <<unit, data, counts, last_ins_is_ret>>

\* cases 7 and 8: last_while_ins, set by the parser, is the innermost while
DumpLoopExit ==
  /\ RunningStmt(7) \/ RunningStmt(8)
  /\ LET n == unused_koopa_label_count
         label_while_never_access == Lab("while_never_access", n)
     IN \E i \in DOMAIN dump :
          /\ dump[i].at = "LoopJoin"
          /\ \A j \in 1 .. i - 1 : dump[j].at # "LoopJoin"
          /\ k_str' = k_str \o
               <<Jump(IF Head(dump).stmt.tag = 7 THEN dump[i].label ELSE dump[i].to),
                 Label(label_while_never_access)>>
          /\ unused_koopa_label_count' = n + 1
  /\ Continue(<<>>)
  /\ UNCHANGED <<unit, data, unused_koopa_count, unused_koopa_var_count,
                 last_ins_is_ret>>

\* cases 9 and 10
DumpReturn ==
  /\ RunningStmt(9)
  /\ Continue(<<ExpF(Head(dump).stmt.exp), [at |-> "Ret"]>>)
  /\ UNCHANGED <<unit, data, k_str, counts, last_ins_is_ret>>

DumpRet ==
  /\ \/ Running("Ret") /\ k_str' = Append(k_str, Ret(<<data>>))
     \/ RunningStmt(10) /\ k_str' = Append(k_str, Ret(<<>>))
  /\ Continue(<<>>)
  /\ last_ins_is_ret' = TRUE
  /\ UNCHANGED <<unit, data, counts>>
-----------------------------------------------------------------------------
(* Expressions, outside constant expressions (is_calculating_const_exp FALSE) *)

DumpLeaf ==
  /\ Running("Exp")
  /\ Continue(<<>>)
  /\ LET e == Head(dump).exp IN
     \/ /\ e.tag = "num"
        /\ data' = Imm(e.val)
        /\ UNCHANGED <<k_str, unused_koopa_count>>
     \/ /\ e.tag = "ins"
        /\ data' = Reg(unused_koopa_count)
        /\ k_str' = Append(k_str, Ins("ins", data', <<<<"leaf", e.name>>>>))
        /\ unused_koopa_count' = unused_koopa_count + 1
  /\ UNCHANGED <<unit, unused_koopa_var_count, unused_koopa_label_count, last_ins_is_ret>>

\* LOrExp / LAndExp case 1 up to the left operand
DumpLogic ==
  /\ Running("Exp") /\ Head(dump).exp.tag \in {"lor", "land"}
  /\ LET e == Head(dump).exp
         temp == Temp(unused_koopa_var_count)
     IN /\ Continue(<<ExpF(e.lhs), [at |-> "LogicRhs", exp |-> e, temp |-> temp]>>)
        /\ k_str' = Append(k_str, Alloc(temp))
  /\ unused_koopa_var_count' = unused_koopa_var_count + 1
  /\ UNCHANGED <<unit, data, unused_koopa_count, unused_koopa_label_count, last_ins_is_ret>>

\* The label under which the right operand is evaluated: || in else, && in
\* then; the other one is the short circuit.
RhsLabel(tag, n) == IF tag = "lor" THEN Lab("else", n + 1) ELSE Lab("then", n)
ShortLabel(tag, n) == IF tag = "lor" THEN Lab("then", n) ELSE Lab("else", n + 1)

\* from the left operand to the right one
DumpLogicRhs ==
  /\ Running("LogicRhs")
  /\ LET f == Head(dump)
         n == unused_koopa_label_count
     IN /\ Continue(<<ExpF(f.exp.rhs),
                      [at |-> "LogicOp", tag |-> f.exp.tag, temp |-> f.temp,
                       lhs |-> data, n |-> n]>>)
        /\ k_str' = k_str \o <<Br(data, Lab("then", n), Lab("else", n + 1)),
                               Label(RhsLabel(f.exp.tag, n))>>
        /\ unused_koopa_label_count' = n + 3
  /\ UNCHANGED <<unit, data, unused_koopa_count, unused_koopa_var_count, last_ins_is_ret>>

\* LOrOpAST::Dump and LAndOpAST::Dump; r is the first free register.
LogicOpText(tag, lhs, rhs, r) ==
  IF tag = "lor"
  THEN <<Ins("or", Reg(r), <<lhs, rhs>>), Ins("ne", Reg(r + 1), <<Reg(r), Imm(0)>>)>>
  ELSE <<Ins("ne", Reg(r), <<lhs, Imm(0)>>), Ins("ne", Reg(r + 1), <<rhs, Imm(0)>>),
         Ins("and", Reg(r + 2), <<Reg(r + 1), Reg(r)>>)>>

\* Registers LogicOpText defines, and the one that holds its result.
LogicOpRegs(tag) == IF tag = "lor" THEN 2 ELSE 3

\* mutant: both operators store 1
ShortValueOne(tag) == Imm(1)

\* What the short circuit stores: 1 for ||, 0 for &&.
ShortValue(tag) == IF tag = "lor" THEN Imm(1) ELSE Imm(0)

\* from the right operand to the end: one register is burnt without a
\* definition before the result is loaded
DumpLogicOp ==
  /\ Running("LogicOp")
  /\ LET f == Head(dump)
         r == unused_koopa_count
         k == LogicOpRegs(f.tag)
         label_end == Lab("end", f.n + 2)
     IN /\ k_str' = k_str
               \o LogicOpText(f.tag, f.lhs, data, r)
               \o <<Store(Reg(r + k - 1), f.temp)>>
               \o JoinText(last_ins_is_ret, label_end, ShortLabel(f.tag, f.n))
               \o <<Store(ShortValue(f.tag), f.temp), Jump(label_end), Label(label_end),
                    Ins("load", Reg(r + k + 1), <<f.temp>>)>>
        /\ data' = Reg(r + k + 1)
        /\ unused_koopa_count' = r + k + 2
  /\ last_ins_is_ret' = FALSE
  /\ Continue(<<>>)
  /\ UNCHANGED <<unit, unused_koopa_var_count, unused_koopa_label_count>>
-----------------------------------------------------------------------------
(* main: Dump of the whole compilation unit *)

\* mutant: the label counter starts one too low
InitOneLow ==
  /\ unit \in Programs
  /\ dump = <<>>
  /\ data = Imm(0)
  /\ k_str = <<>>
  /\ unused_koopa_count = 0
  /\ unused_koopa_var_count = 1
  /\ unused_koopa_label_count = -1
  /\ last_ins_is_ret = FALSE

Init ==
  /\ unit \in Programs
  /\ dump = <<>>
  /\ data = Imm(0)
  /\ k_str = <<>>
  /\ unused_koopa_count = 0
  /\ unused_koopa_var_count = 1
  /\ unused_koopa_label_count = 0
  /\ last_ins_is_ret = FALSE

Dumped == unit = <<>> /\ dump = <<>>

\* main returns from ast->Dump()
Finish == Dumped /\ UNCHANGED vars

Next ==
  \/ DumpFuncDef \/ DumpFuncEnd
  \/ DumpBlockItem \/ DumpBlockEnd \/ DumpVarDef
  \/ DumpAssign \/ DumpIndex \/ DumpAddress \/ DumpElemPtr \/ DumpElem \/ DumpStore
  \/ DumpNested
  \/ DumpIf \/ DumpThen \/ DumpThenElse \/ DumpJoin
  \/ DumpWhile \/ DumpWhileBody \/ DumpLoopExit
  \/ DumpReturn \/ DumpRet
  \/ DumpLeaf \/ DumpLogic \/ DumpLogicRhs \/ DumpLogicOp
  \/ Finish

Spec == Init /\ [][Next]_vars
-----------------------------------------------------------------------------
(* Properties *)

Operands == {"imm", "%", "%temp_l_result", "@", "leaf", "none"} \X Int
LabelKinds == {"entry", "block", "then", "else", "end",
               "while", "while_true", "while_false", "while_never_access"}
Labels == LabelKinds \X Nat
Ops == {"fun", "end", "label", "jump", "br", "ret", "alloc", "store",
        "ins", "getelemptr", "getptr", "or", "ne", "and", "load"}
Items == [op : Ops, dst : Operands \cup Labels, args : Seq(Operands), to : Seq(Labels)]

Frames ==
       [at : {"Stmt", "Branch"}, stmt : Stmts]
  \cup [at : {"Exp"}, exp : Exps]
  \cup [at : {"Index"}, left : Seq(Exps), had : Seq(Operands), pointer : BOOLEAN, exp : Exps]
  \cup [at : {"ElemPtr"}, indices : Seq(Operands), exp : Exps]
  \cup [at : {"Block"}, items : Blocks]
  \cup [at : {"FuncEnd", "VarDef", "Ret"}]
  \cup [at : {"Join", "LoopJoin"}, to : Labels, label : Labels]
  \cup [at : {"Store"}, dst : Operands]
  \cup [at : {"While"}, stmt : Stmts, n : Nat]
  \cup [at : {"LogicRhs"}, exp : {e \in Exps : e.tag \in {"lor", "land"}}, temp : Operands]
  \cup [at : {"LogicOp"}, tag : {"lor", "land"}, temp : Operands, lhs : Operands, n : Nat]

\* The types of the globals.
TypeOK ==
  /\ unit \in Seq(Blocks)
  /\ dump \in Seq(Frames)
  /\ data \in Operands
  /\ k_str \in Seq(Items)
  /\ unused_koopa_count \in Nat
  /\ unused_koopa_var_count \in Nat
  /\ unused_koopa_label_count \in Nat
  /\ last_ins_is_ret \in BOOLEAN

\* May b be written directly after a?
Follows(a, b) ==
  CASE b.op = "fun"   -> a.op = "end"
    [] b.op = "end"   -> IsTerminator(a)
    [] b.op = "label" -> IsTerminator(a) \/ a.op = "fun"
    [] OTHER          -> a.op \notin {"fun", "end"} /\ ~ IsTerminator(a)

Chained(k) == \A i \in 1 .. Len(k) - 1 : Follows(k[i], k[i + 1])

\* Koopa's rule for basic blocks, over the whole text at every moment: a block
\* starts with its label, ends with exactly one terminator and nothing stands
\* between a terminator and the next label.  It rests on each Dump looking at
\* last_ins_is_ret at the right places (Stmt.cpp, BlockItem.cpp, FuncDef.cpp).
BlocksWellFormed ==
  /\ Chained(k_str)
  /\ k_str # <<>> => k_str[1].op = "fun"

\* The calls to which a statement or a block can return.  They look at
\* last_ins_is_ret before they write anything.
Resumes == {"Block", "Join", "LoopJoin", "FuncEnd"}

\* The call stack: FuncDef at the bottom, and below every call that can leave
\* a return behind it one that looks for it.
CallShape(d) ==
  /\ \A i \in DOMAIN d : d[i].at = "FuncEnd" <=> i = Len(d)
  /\ \A i \in 1 .. Len(d) - 1 : d[i].at \in {"Stmt", "Ret", "Block"} => d[i + 1].at \in Resumes

\* What last_ins_is_ret promises the next Dump about the end of the text.
EndOfText ==
  IF dump = <<>> THEN k_str = <<>> \/ k_str[Len(k_str)].op = "end"
  ELSE /\ k_str # <<>>
       /\ IF last_ins_is_ret
          THEN k_str[Len(k_str)].op = "ret" /\ Head(dump).at \in Resumes
          ELSE k_str[Len(k_str)].op \notin {"fun", "end", "jump", "br", "ret"}

\* Inside a function last_ins_is_ret says of the text what its name says: it is
\* neither left set behind a label nor cleared behind a return.
RetFlagExact ==
  dump # <<>> => (last_ins_is_ret <=> k_str[Len(k_str)].op = "ret")

LabelsOf(k) == {i \in DOMAIN k : k[i].op = "label" /\ k[i].dst # Entry}

\* No label is written twice in the program: the back end prints the names of
\* all functions into one assembly namespace, so one counter serves them all.
LabelsUnique ==
  Cardinality({k_str[i].dst : i \in LabelsOf(k_str)}) = Cardinality(LabelsOf(k_str))

\* First item of the function the last item belongs to.
FunctionStart(k) == CHOOSE i \in DOMAIN k :
  k[i].op = "fun" /\ \A j \in i + 1 .. Len(k) : k[j].op # "fun"

\* When a function is closed, every jump and branch in it leads to a label of
\* that function.  break and continue jump to labels other Dump calls write,
\* one of them (the constant-0 condition) on a path that drops the body.
BranchesLand ==
  k_str # <<>> /\ k_str[Len(k_str)].op = "end" =>
    LET body == FunctionStart(k_str) .. Len(k_str)
        targets == UNION {Range(k_str[i].to) : i \in body}
    IN targets \subseteq {k_str[i].dst : i \in {j \in body : k_str[j].op = "label"}}

IsLocal(v) == v[1] \in {"%", "%temp_l_result"}

\* Every register and temporary an item uses was defined by an earlier item of
\* the same function, and none is defined twice in the program.  The code
\* names operands by arithmetic on unused_koopa_count (count - 1, count - 2,
\* the burnt register), so a Dump between the two would break the link.
OperandsDefined ==
  k_str # <<>> /\ k_str[Len(k_str)].op = "end" =>
    LET body == FunctionStart(k_str) .. Len(k_str)
        defs == {i \in DOMAIN k_str : k_str[i].op # "label" /\ IsLocal(k_str[i].dst)}
    IN /\ \A i \in body : \A a \in Range(k_str[i].args) :
            IsLocal(a) => \E j \in FunctionStart(k_str) .. i - 1 : k_str[j].dst = a
       /\ Cardinality({k_str[i].dst : i \in defs}) = Cardinality(defs)
=============================================================================
