---------------------------- MODULE StmtDumpProofs ----------------------------
(***************************************************************************)
(* For every grammar and every set of programs, whatever their size: the   *)
(* globals keep their types, and the text that has been emitted is at      *)
(* every moment a sequence of well-formed basic blocks.                    *)
(*                                                                         *)
(* The second half is about what the text refers to: no label and no       *)
(* register is written twice, every jump leads to a label of its function, *)
(* and every operand is defined above its use.  All three depend on what   *)
(* the active Dump calls have promised: the labels they have numbered and  *)
(* not yet written, those they will jump to, and the operands they keep.   *)
(***************************************************************************)
EXTENDS StmtDump, Facts

(* Sequences *)

LEMMA ContinueType ==
  ASSUME NEW F, NEW d \in Seq(F), d # <<>>, NEW n \in Seq(F)
  PROVE  /\ Head(d) \in F
         /\ n \o Tail(d) \in Seq(F)
  OBVIOUS

LEMMA Tuples ==
  ASSUME NEW S
  PROVE  /\ <<>> \in Seq(S)
         /\ \A a \in S : <<a>> \in Seq(S)
         /\ \A a, b \in S : <<a, b>> \in Seq(S)
         /\ \A a, b, c \in S : <<a, b, c>> \in Seq(S)
         /\ \A a, b, c, e \in S : <<a, b, c, e>> \in Seq(S)
  OBVIOUS

LEMMA Widen ==
  ASSUME NEW A, NEW B, NEW s
  PROVE  s \in Seq(A) \/ s \in Seq(B) => s \in Seq(A \cup B)
  OBVIOUS

(* Every constructor of an item or a frame builds one. *)

LEMMA LabelType ==
  ASSUME NEW kind \in LabelKinds, NEW n \in Nat
  PROVE  Lab(kind, n) \in Labels
  BY DEF Lab, Labels

LEMMA OperandType ==
  /\ \A v \in Int : Imm(v) \in Operands
  /\ \A n \in Nat : Reg(n) \in Operands /\ Temp(n) \in Operands /\ Var(n) \in Operands
  /\ None \in Operands /\ Entry \in Labels
  BY DEF Operands, Labels, LabelKinds, Imm, Reg, Temp, Var, None, Entry

LEMMA ControlItems ==
  /\ Fun \in Items /\ Fun.op = "fun"
  /\ End \in Items /\ End.op = "end"
  /\ \A l \in Labels : Label(l) \in Items /\ Label(l).op = "label"
  /\ \A l \in Labels : Jump(l) \in Items /\ Jump(l).op = "jump"
  /\ \A c \in Operands : \A t, f \in Labels : Br(c, t, f) \in Items /\ Br(c, t, f).op = "br"
  /\ \A args \in Seq(Operands) : Ret(args) \in Items /\ Ret(args).op = "ret"
<1>1. Fun \in Items /\ Fun.op = "fun"
  BY OperandType, Tuples DEF Fun, Item, Items, Ops
<1>2. End \in Items /\ End.op = "end"
  BY OperandType, Tuples DEF End, Item, Items, Ops
<1>3. ASSUME NEW l \in Labels PROVE Label(l) \in Items /\ Label(l).op = "label"
  BY <1>3, Tuples DEF Label, Item, Items, Ops
<1>4. ASSUME NEW l \in Labels PROVE Jump(l) \in Items /\ Jump(l).op = "jump"
  <2>1. <<l>> \in Seq(Labels)
    BY <1>4
  <2> QED BY <2>1, OperandType, Tuples DEF Jump, Item, Items, Ops
<1>5. ASSUME NEW c \in Operands, NEW t \in Labels, NEW f \in Labels
      PROVE  Br(c, t, f) \in Items /\ Br(c, t, f).op = "br"
  <2>1. <<t, f>> \in Seq(Labels) /\ <<c>> \in Seq(Operands)
    BY <1>5
  <2> QED BY <2>1, OperandType DEF Br, Item, Items, Ops
<1>6. ASSUME NEW args \in Seq(Operands)
      PROVE  Ret(args) \in Items /\ Ret(args).op = "ret"
  BY <1>6, OperandType, Tuples DEF Ret, Item, Items, Ops
<1> QED
  BY <1>1, <1>2, <1>3, <1>4, <1>5, <1>6

LEMMA PlainItems ==
  /\ \A v \in Operands : Alloc(v) \in Items /\ Alloc(v).op = "alloc"
  /\ \A a, d \in Operands : Store(a, d) \in Items /\ Store(a, d).op = "store"
  /\ \A op \in {"ins", "getelemptr", "getptr", "or", "ne", "and", "load"} :
       \A r \in Operands : \A args \in Seq(Operands) :
         Ins(op, r, args) \in Items /\ Ins(op, r, args).op = op
<1>1. ASSUME NEW v \in Operands PROVE Alloc(v) \in Items /\ Alloc(v).op = "alloc"
  BY <1>1, Tuples DEF Alloc, Item, Items, Ops
<1>2. ASSUME NEW a \in Operands, NEW d \in Operands
      PROVE  Store(a, d) \in Items /\ Store(a, d).op = "store"
  <2>1. <<a, d>> \in Seq(Operands)
    BY <1>2
  <2> QED BY <2>1, OperandType, Tuples DEF Store, Item, Items, Ops
<1>3. ASSUME NEW op \in {"ins", "getelemptr", "getptr", "or", "ne", "and", "load"},
             NEW r \in Operands, NEW args \in Seq(Operands)
      PROVE  Ins(op, r, args) \in Items /\ Ins(op, r, args).op = op
  BY <1>3, Tuples DEF Ins, Item, Items, Ops
<1> QED
  BY <1>1, <1>2, <1>3

LEMMA JoinTextType ==
  ASSUME NEW b \in BOOLEAN, NEW to \in Labels, NEW l \in Labels
  PROVE  JoinText(b, to, l) \in Seq(Items)
<1>1. Label(l) \in Items /\ Jump(to) \in Items
  BY ControlItems
<1> QED
  BY <1>1 DEF JoinText

LEMMA FrameType ==
  /\ \A s \in Stmts : StmtF(s) \in Frames /\ [at |-> "Branch", stmt |-> s] \in Frames
  /\ \A e \in Exps : ExpF(e) \in Frames
  /\ \A b \in Blocks : BlockF(b) \in Frames
  /\ \A at \in {"FuncEnd", "VarDef", "Ret"} : [at |-> at] \in Frames
  /\ \A to, l \in Labels : Join(to, l) \in Frames /\ LoopJoin(to, l) \in Frames
  /\ \A d \in Operands : [at |-> "Store", dst |-> d] \in Frames
  /\ \A s \in Stmts, n \in Nat : [at |-> "While", stmt |-> s, n |-> n] \in Frames
<1>1. \A s \in Stmts : StmtF(s) \in Frames /\ [at |-> "Branch", stmt |-> s] \in Frames
  BY DEF StmtF, Frames
<1>2. \A e \in Exps : ExpF(e) \in Frames
  BY DEF ExpF, Frames
<1>3. \A b \in Blocks : BlockF(b) \in Frames
  BY DEF BlockF, Frames
<1>4. \A at \in {"FuncEnd", "VarDef", "Ret"} : [at |-> at] \in Frames
  BY DEF Frames
<1>5. \A to, l \in Labels : Join(to, l) \in Frames /\ LoopJoin(to, l) \in Frames
  BY DEF Join, LoopJoin, Frames
<1>6. \A d \in Operands : [at |-> "Store", dst |-> d] \in Frames
  BY DEF Frames
<1>7. \A s \in Stmts, n \in Nat : [at |-> "While", stmt |-> s, n |-> n] \in Frames
  BY DEF Frames
<1> QED
  BY <1>1, <1>2, <1>3, <1>4, <1>5, <1>6, <1>7

LEMMA LogicFrameType ==
  /\ \A e \in Exps, t \in Operands :
       e.tag \in {"lor", "land"} => [at |-> "LogicRhs", exp |-> e, temp |-> t] \in Frames
  /\ \A tag \in {"lor", "land"}, t, l \in Operands, n \in Nat :
       [at |-> "LogicOp", tag |-> tag, temp |-> t, lhs |-> l, n |-> n] \in Frames
<1>1. \A e \in Exps, t \in Operands :
        e.tag \in {"lor", "land"} => [at |-> "LogicRhs", exp |-> e, temp |-> t] \in Frames
  BY DEF Frames
<1>2. \A tag \in {"lor", "land"}, t, l \in Operands, n \in Nat :
        [at |-> "LogicOp", tag |-> tag, temp |-> t, lhs |-> l, n |-> n] \in Frames
  BY DEF Frames
<1> QED
  BY <1>1, <1>2

\* What is left of an assignment to an element.
LEMMA PlaceFrameType ==
  ASSUME NEW e \in Exps
  PROVE  /\ \A left \in Seq(Exps), had \in Seq(Operands), p \in BOOLEAN :
              [at |-> "Index", left |-> left, had |-> had, pointer |-> p, exp |-> e] \in Frames
         /\ \A indices \in Seq(Operands) :
              [at |-> "ElemPtr", indices |-> indices, exp |-> e] \in Frames
  BY DEF Frames

(* What the name of a frame says about its fields *)
LEMMA FrameFields ==
  ASSUME NEW f \in Frames
  PROVE  /\ f.at \in {"Stmt", "Branch", "While"} => f.stmt \in Stmts
         /\ f.at \in {"Exp", "Index", "ElemPtr", "LogicRhs"} => f.exp \in Exps
         /\ f.at = "Index" => /\ f.left \in Seq(Exps) /\ f.had \in Seq(Operands)
                              /\ f.pointer \in BOOLEAN
         /\ f.at = "ElemPtr" => f.indices \in Seq(Operands)
         /\ f.at = "LogicRhs" => f.exp.tag \in {"lor", "land"}
         /\ f.at \in {"LogicRhs", "LogicOp"} => f.temp \in Operands
         /\ f.at = "LogicOp" => f.tag \in {"lor", "land"} /\ f.lhs \in Operands
         /\ f.at \in {"While", "LogicOp"} => f.n \in Nat
         /\ f.at = "Block" => f.items \in Blocks
         /\ f.at \in {"Join", "LoopJoin"} => f.to \in Labels /\ f.label \in Labels
         /\ f.at = "Store" => f.dst \in Operands
  BY DEF Frames
-----------------------------------------------------------------------------
(* Types *)

\* A handler that types its text and the calls it leaves behind keeps
\* k_str and dump typed.
LEMMA Emitted ==
  ASSUME TypeOK, dump # <<>>, NEW n \in Seq(Frames), NEW text \in Seq(Items)
  PROVE  /\ Head(dump) \in Frames
         /\ n \o Tail(dump) \in Seq(Frames)
         /\ k_str \o text \in Seq(Items)
  BY DEF TypeOK

LEMMA EmittedOne ==
  ASSUME TypeOK, NEW it \in Items
  PROVE  Append(k_str, it) \in Seq(Items)
  BY DEF TypeOK

LEMMA Counted ==
  ASSUME TypeOK
  PROVE  /\ Lab("block", unused_koopa_label_count) \in Labels
         /\ Reg(unused_koopa_count) \in Operands
         /\ Var(unused_koopa_var_count) \in Operands
         /\ Temp(unused_koopa_var_count) \in Operands
  BY LabelType, OperandType DEF TypeOK, LabelKinds

LEMMA TypeFunctions ==
  ASSUME TypeOK, DumpFuncDef \/ DumpFuncEnd \/ DumpBlockItem \/ DumpBlockEnd \/ DumpVarDef
  PROVE  TypeOK'
<1> USE DEF counts
<1>1. CASE DumpFuncDef
  <2>1. Head(unit) \in Blocks /\ Tail(unit) \in Seq(Blocks)
    BY <1>1 DEF TypeOK, DumpFuncDef
  <2>2. <<BlockF(Head(unit)), [at |-> "FuncEnd"]>> \in Seq(Frames)
    BY <2>1, FrameType, Tuples
  <2>3. k_str \o <<Fun, Label(Entry)>> \in Seq(Items)
    <3>1. Fun \in Items /\ Label(Entry) \in Items
      BY ControlItems, OperandType
    <3> QED BY <3>1 DEF TypeOK
  <2> QED BY <1>1, <2>1, <2>2, <2>3 DEF TypeOK, DumpFuncDef
<1>2. CASE DumpFuncEnd
  <2>1. Ret(<<>>) \in Items /\ End \in Items
    BY ControlItems, Tuples
  <2>2. <<End>> \in Seq(Items) /\ <<Ret(<<>>), End>> \in Seq(Items)
    BY <2>1, Tuples
  <2>3. k_str' \in Seq(Items)
    BY <1>2, <2>2 DEF DumpFuncEnd, TypeOK
  <2>4. dump' \in Seq(Frames)
    BY <1>2, Emitted, Tuples DEF DumpFuncEnd, Running, Continue
  <2> QED BY <1>2, <2>3, <2>4 DEF TypeOK, DumpFuncEnd
<1>3. CASE DumpBlockItem
  <2>1. /\ Head(dump) \in Frames /\ Head(dump).at = "Block" /\ dump # <<>>
        /\ Head(dump).items \in Blocks /\ Head(dump).items # <<>>
    BY <1>3, FrameFields DEF TypeOK, DumpBlockItem, Running
  <2> DEFINE items == Head(dump).items
  <2>2. GrammarItem(Head(items)) /\ Tail(items) \in Blocks
    BY <2>1, Grammar
  <2>3. /\ Head(items).tag = 0 => ExpF(Head(items).exp) \in Frames
        /\ Head(items).tag # 0 => StmtF(Head(items).stmt) \in Frames
        /\ BlockF(Tail(items)) \in Frames /\ [at |-> "VarDef"] \in Frames
    <3>1. /\ Head(items).tag = 0 => Head(items).exp \in Exps
          /\ Head(items).tag # 0 => Head(items).stmt \in Stmts
      BY <2>2 DEF GrammarItem
    <3> HIDE DEF items
    <3> QED BY <3>1, <2>2, FrameType
  <2>4. (IF Head(items).tag = 0 THEN <<ExpF(Head(items).exp), [at |-> "VarDef"]>>
         ELSE <<StmtF(Head(items).stmt)>>) \o <<BlockF(Tail(items))>> \in Seq(Frames)
    BY <2>3
  <2>5. dump' \in Seq(Frames)
    BY <1>3, <2>1, <2>4, Emitted, Tuples DEF DumpBlockItem, Continue
  <2>6. k_str' \in Seq(Items)
    BY <1>3, Counted, ControlItems, EmittedOne DEF DumpBlockItem, TypeOK
  <2>7. /\ unused_koopa_label_count' \in Nat /\ last_ins_is_ret' = FALSE
        /\ UNCHANGED <<unit, data, unused_koopa_count, unused_koopa_var_count>>
    BY <1>3 DEF DumpBlockItem, TypeOK
  <2> QED BY <2>5, <2>6, <2>7 DEF TypeOK
<1>4. CASE DumpBlockEnd
  <2>1. dump' \in Seq(Frames)
    BY <1>4, Emitted, Tuples DEF DumpBlockEnd, Running, Continue
  <2> QED BY <1>4, <2>1 DEF TypeOK, DumpBlockEnd
<1>5. CASE DumpVarDef
  <2>1. /\ Alloc(Var(unused_koopa_var_count)) \in Items
        /\ Store(data, Var(unused_koopa_var_count)) \in Items
    BY Counted, PlainItems DEF TypeOK
  <2>2. <<Alloc(Var(unused_koopa_var_count)), Store(data, Var(unused_koopa_var_count))>>
          \in Seq(Items)
    BY <2>1
  <2>3. dump' \in Seq(Frames) /\ k_str' \in Seq(Items)
    BY <1>5, <2>2, Emitted, Tuples DEF DumpVarDef, Running, Continue
  <2> QED BY <1>5, <2>3 DEF TypeOK, DumpVarDef
<1> QED
  BY <1>1, <1>2, <1>3, <1>4, <1>5

\* The address of an element is made of one or two items.
LEMMA AddressItems ==
  ASSUME NEW p \in BOOLEAN, NEW index \in Operands, NEW r \in Nat
  PROVE  AddressText(p, index, r) \in Seq(Items)
<1>1. /\ Reg(r) \in Operands /\ Reg(r + 1) \in Operands /\ Var(0) \in Operands
  BY OperandType
<1>2. /\ <<Var(0)>> \in Seq(Operands) /\ <<Reg(r), index>> \in Seq(Operands)
      /\ <<Var(0), index>> \in Seq(Operands)
  BY <1>1, Tuples
<1>3. /\ Ins("load", Reg(r), <<Var(0)>>) \in Items
      /\ Ins("getptr", Reg(r + 1), <<Reg(r), index>>) \in Items
      /\ Ins("getelemptr", Reg(r), <<Var(0), index>>) \in Items
  BY <1>1, <1>2, PlainItems
<1> QED BY <1>3, Tuples DEF AddressText

\* The indices of an assignment that are dumped, and its address.
LEMMA TypePlace ==
  ASSUME TypeOK, DumpAssign \/ DumpIndex \/ DumpAddress \/ DumpElemPtr \/ DumpElem
  PROVE  TypeOK'
<1> USE DEF counts
<1>1. CASE DumpAssign
  <2> DEFINE s == Head(dump).stmt
  <2>1. dump # <<>> /\ s \in Stmts /\ s.tag = 0
    BY <1>1, FrameFields DEF TypeOK, DumpAssign, RunningStmt, Running
  <2>2. s.l_val \in Seq(Exps) /\ s.exp \in Exps /\ s.pointer \in BOOLEAN
    BY <2>1, Grammar DEF GrammarStmt
  <2>3. /\ <<ExpF(s.exp), [at |-> "Store", dst |-> Var(0)]>> \in Seq(Frames)
        /\ s.l_val # <<>> =>
             <<ExpF(Head(s.l_val)), Index(Tail(s.l_val), <<>>, s)>> \in Seq(Frames)
    <3>1. Var(0) \in Operands /\ <<>> \in Seq(Operands)
      BY OperandType
    <3>2. s.l_val # <<>> => Head(s.l_val) \in Exps /\ Tail(s.l_val) \in Seq(Exps)
      BY <2>2
    <3> HIDE DEF s
    <3>3. s.l_val # <<>> => Index(Tail(s.l_val), <<>>, s) \in Frames
      BY <3>1, <3>2, <2>2, PlaceFrameType DEF Index
    <3> QED BY <3>1, <3>2, <3>3, <2>2, FrameType, Tuples
  <2>4. dump' \in Seq(Frames)
    BY <1>1, <2>1, <2>3, Emitted, Tuples DEF DumpAssign, Continue
  <2> QED BY <1>1, <2>4 DEF TypeOK, DumpAssign
<1>2. CASE DumpIndex
  <2> PICK f : f = Head(dump)
    OBVIOUS
  <2>1. /\ dump # <<>> /\ f.left \in Seq(Exps) /\ f.left # <<>> /\ f.had \in Seq(Operands)
        /\ f.pointer \in BOOLEAN /\ f.exp \in Exps /\ data \in Operands
    BY <1>2, FrameFields DEF TypeOK, DumpIndex, Running
  <2>2. Head(f.left) \in Exps /\ Tail(f.left) \in Seq(Exps) /\ Append(f.had, data) \in Seq(Operands)
    BY <2>1
  <2>3. Index(Tail(f.left), Append(f.had, data), f) \in Frames
    BY <2>1, <2>2, PlaceFrameType DEF Index
  <2>4. <<ExpF(Head(f.left)), Index(Tail(f.left), Append(f.had, data), f)>> \in Seq(Frames)
    BY <2>2, <2>3, FrameType, Tuples
  <2>5. dump' \in Seq(Frames)
    BY <1>2, <2>1, <2>4, Emitted, Tuples DEF DumpIndex, Continue
  <2> QED BY <1>2, <2>5 DEF TypeOK, DumpIndex
<1>3. CASE DumpAddress
  <2> PICK f : f = Head(dump)
    OBVIOUS
  <2> PICK indices : indices = Append(f.had, data)
    OBVIOUS
  <2>1. /\ dump # <<>> /\ f.had \in Seq(Operands) /\ f.pointer \in BOOLEAN
        /\ f.exp \in Exps /\ data \in Operands /\ unused_koopa_count \in Nat
    BY <1>3, FrameFields DEF TypeOK, DumpAddress, Running
  <2>2. Head(indices) \in Operands /\ Tail(indices) \in Seq(Operands)
    BY <2>1
  <2>3. <<ElemPtr(Tail(indices), f.exp)>> \in Seq(Frames)
    BY <2>1, <2>2, PlaceFrameType, Tuples DEF ElemPtr
  <2>4. AddressText(f.pointer, Head(indices), unused_koopa_count) \in Seq(Items)
    BY <2>1, <2>2, AddressItems
  <2>5. dump' \in Seq(Frames) /\ k_str' \in Seq(Items)
    BY <1>3, <2>1, <2>3, <2>4, Emitted, Tuples DEF DumpAddress, Continue
  <2>6. unused_koopa_count' \in Nat
    BY <1>3, <2>1 DEF DumpAddress, AddressRegs
  <2> QED BY <1>3, <2>5, <2>6 DEF TypeOK, DumpAddress
<1>4. CASE DumpElemPtr
  <2> PICK f, r : f = Head(dump) /\ r = unused_koopa_count
    OBVIOUS
  <2>1. /\ dump # <<>> /\ f \in Frames /\ f.at = "ElemPtr" /\ r \in Nat
        /\ f.indices \in Seq(Operands) /\ f.indices # <<>> /\ f.exp \in Exps
    BY <1>4, FrameFields DEF TypeOK, DumpElemPtr, Running
  <2>2. Head(f.indices) \in Operands /\ Tail(f.indices) \in Seq(Operands)
    BY <2>1
  <2>3. <<ElemPtr(Tail(f.indices), f.exp)>> \in Seq(Frames)
    BY <2>1, <2>2, PlaceFrameType, Tuples DEF ElemPtr
  <2>4. Ins("getelemptr", Reg(r), <<Reg(r - 1), Head(f.indices)>>) \in Items
    <3>1. Reg(r) \in Operands /\ Reg(r - 1) \in Operands
      BY <2>1 DEF Operands, Reg
    <3>2. <<Reg(r - 1), Head(f.indices)>> \in Seq(Operands)
      BY <2>2, <3>1, Tuples
    <3> QED BY <3>1, <3>2, PlainItems, ZenonT(40)
  <2>5. dump' \in Seq(Frames) /\ k_str' \in Seq(Items)
    BY <1>4, <2>1, <2>3, <2>4, Emitted, EmittedOne, Tuples DEF DumpElemPtr, Continue
  <2>6. unused_koopa_count' \in Nat
    BY <1>4, <2>1 DEF DumpElemPtr
  <2> QED BY <1>4, <2>5, <2>6 DEF TypeOK, DumpElemPtr
<1>5. CASE DumpElem
  <2> PICK f, r : f = Head(dump) /\ r = unused_koopa_count
    OBVIOUS
  <2>1. dump # <<>> /\ f.exp \in Exps /\ r \in Nat
    BY <1>5, FrameFields DEF TypeOK, DumpElem, Running
  <2>2. Reg(r - 1) \in Operands
    BY <2>1 DEF Operands, Reg
  <2>3. <<ExpF(f.exp), [at |-> "Store", dst |-> Reg(r - 1)]>> \in Seq(Frames)
    BY <2>1, <2>2, FrameType, Tuples
  <2>4. dump' \in Seq(Frames)
    BY <1>5, <2>1, <2>3, Emitted, Tuples DEF DumpElem, Continue
  <2>5. UNCHANGED <<unit, data, k_str, counts, last_ins_is_ret>>
    BY <1>5 DEF DumpElem
  <2> QED BY <2>4, <2>5 DEF TypeOK
<1> QED
  BY <1>1, <1>2, <1>3, <1>4, <1>5

LEMMA TypeSimpleStatements ==
  ASSUME TypeOK, DumpStore \/ DumpNested \/ DumpReturn \/ DumpRet
  PROVE  TypeOK'
<1> USE DEF counts
<1>1. CASE DumpStore
  <2>1. dump # <<>> /\ Store(data, Head(dump).dst) \in Items
    BY <1>1, FrameFields, PlainItems DEF TypeOK, DumpStore, Running
  <2>2. dump' \in Seq(Frames) /\ k_str' \in Seq(Items)
    BY <1>1, <2>1, Emitted, EmittedOne, Tuples DEF DumpStore, Continue
  <2> QED BY <1>1, <2>2 DEF TypeOK, DumpStore
<1>2. CASE DumpNested
  <2> DEFINE s == Head(dump).stmt
  <2>1. dump # <<>> /\ s \in Stmts
    BY <1>2, FrameFields DEF TypeOK, DumpNested, Running
  <2>2. /\ s.tag = 2 => <<ExpF(s.exp)>> \in Seq(Frames)
        /\ s.tag = 3 => <<BlockF(s.block)>> \in Seq(Frames)
    <3>1. (s.tag = 2 => s.exp \in Exps) /\ (s.tag = 3 => s.block \in Blocks)
      BY <2>1, Grammar DEF GrammarStmt
    <3> HIDE DEF s
    <3> QED BY <3>1, FrameType, Tuples
  <2>3. dump' \in Seq(Frames)
    BY <1>2, <2>1, <2>2, Emitted, Tuples DEF DumpNested, Continue
  <2> QED BY <1>2, <2>3 DEF TypeOK, DumpNested
<1>3. CASE DumpReturn
  <2> DEFINE s == Head(dump).stmt
  <2>1. dump # <<>> /\ s \in Stmts /\ s.tag = 9
    BY <1>3, FrameFields DEF TypeOK, DumpReturn, RunningStmt, Running
  <2>2. s.exp \in Exps
    BY <2>1, Grammar DEF GrammarStmt
  <2>3. <<ExpF(s.exp), [at |-> "Ret"]>> \in Seq(Frames)
    BY <2>2, FrameType, Tuples
  <2>4. dump' \in Seq(Frames)
    BY <1>3, <2>1, <2>3, Emitted, Tuples DEF DumpReturn, Continue
  <2> QED BY <1>3, <2>4 DEF TypeOK, DumpReturn
<1>4. CASE DumpRet
  <2>1. dump # <<>> /\ Ret(<<data>>) \in Items /\ Ret(<<>>) \in Items
    BY <1>4, ControlItems, Tuples DEF TypeOK, DumpRet, RunningStmt, Running
  <2>2. dump' \in Seq(Frames) /\ k_str' \in Seq(Items)
    BY <1>4, <2>1, Emitted, EmittedOne, Tuples DEF DumpRet, Continue
  <2> QED BY <1>4, <2>2 DEF TypeOK, DumpRet
<1> QED
  BY <1>1, <1>2, <1>3, <1>4

LEMMA TypeControl ==
  ASSUME TypeOK, DumpIf \/ DumpThen \/ DumpThenElse \/ DumpJoin
                 \/ DumpWhile \/ DumpWhileBody \/ DumpLoopExit
  PROVE  TypeOK'
<1> USE DEF counts
<1> DEFINE s == Head(dump).stmt
           m == unused_koopa_label_count
<1>l. /\ m \in Nat /\ m + 1 \in Nat /\ m + 2 \in Nat /\ m + 3 \in Nat
      /\ \A kind \in LabelKinds, i \in Nat : Lab(kind, i) \in Labels
      /\ LabelKinds = {"entry", "block", "then", "else", "end", "while", "while_true",
                       "while_false", "while_never_access"}
  BY LabelType DEF TypeOK, LabelKinds
<1>1. CASE DumpIf
  <2>1. dump # <<>> /\ s \in Stmts /\ s.tag \in {4, 5}
    BY <1>1, FrameFields DEF TypeOK, DumpIf, RunningStmt, Running
  <2>2. s.exp \in Exps
    BY <2>1, Grammar DEF GrammarStmt
  <2>3. <<ExpF(s.exp), [at |-> "Branch", stmt |-> s]>> \in Seq(Frames)
    BY <2>1, <2>2, FrameType, Tuples
  <2>4. dump' \in Seq(Frames)
    BY <1>1, <2>1, <2>3, Emitted, Tuples DEF DumpIf, Continue
  <2> QED BY <1>1, <2>4 DEF TypeOK, DumpIf
<1>2. CASE DumpThen
  <2> DEFINE lt == Lab("then", m)
             le == Lab("end", m + 1)
  <2>1. dump # <<>> /\ s \in Stmts /\ s.tag = 4
    BY <1>2, FrameFields DEF TypeOK, DumpThen, Running
  <2>2. s.stmt \in Stmts
    BY <2>1, Grammar DEF GrammarStmt
  <2>3. lt \in Labels /\ le \in Labels
    BY <1>l
  <2> HIDE DEF lt, le, s
  <2>4. <<StmtF(s.stmt), Join(le, le)>> \in Seq(Frames)
    BY <2>2, <2>3, FrameType, Tuples
  <2>5. <<Br(data, lt, le), Label(lt)>> \in Seq(Items)
    BY <2>3, ControlItems, Tuples DEF TypeOK
  <2>6. dump' \in Seq(Frames) /\ k_str' \in Seq(Items)
    BY <1>2, <2>1, <2>4, <2>5, Emitted DEF DumpThen, Continue, s, lt, le
  <2> QED BY <1>2, <2>6, <1>l DEF TypeOK, DumpThen
<1>3. CASE DumpThenElse
  <2> DEFINE lt == Lab("then", m)
             lf == Lab("else", m + 1)
             le == Lab("end", m + 2)
  <2>1. dump # <<>> /\ s \in Stmts /\ s.tag = 5
    BY <1>3, FrameFields DEF TypeOK, DumpThenElse, Running
  <2>2. s.stmt_if \in Stmts /\ s.stmt_else \in Stmts
    BY <2>1, Grammar DEF GrammarStmt
  <2>3. lt \in Labels /\ le \in Labels /\ lf \in Labels
    BY <1>l
  <2> HIDE DEF lt, le, lf, s
  <2>4. <<StmtF(s.stmt_if), Join(le, lf), StmtF(s.stmt_else), Join(le, le)>> \in Seq(Frames)
    BY <2>2, <2>3, FrameType, Tuples
  <2>5. <<Br(data, lt, lf), Label(lt)>> \in Seq(Items)
    BY <2>3, ControlItems, Tuples DEF TypeOK
  <2>6. dump' \in Seq(Frames) /\ k_str' \in Seq(Items)
    BY <1>3, <2>1, <2>4, <2>5, Emitted DEF DumpThenElse, Continue, s, lt, lf, le
  <2> QED BY <1>3, <2>6, <1>l DEF TypeOK, DumpThenElse
<1>4. CASE DumpJoin
  <2>1. dump # <<>> /\ Head(dump).to \in Labels /\ Head(dump).label \in Labels
    BY <1>4, FrameFields DEF TypeOK, DumpJoin, Running
  <2>2. JoinText(last_ins_is_ret, Head(dump).to, Head(dump).label) \in Seq(Items)
    BY <2>1, JoinTextType DEF TypeOK
  <2>3. dump' \in Seq(Frames) /\ k_str' \in Seq(Items)
    BY <1>4, <2>1, <2>2, Emitted, Tuples DEF DumpJoin, Continue
  <2> QED BY <1>4, <2>3 DEF TypeOK, DumpJoin
<1>5. CASE DumpWhile
  <2> DEFINE lw == Lab("while", m)
  <2>1. dump # <<>> /\ s \in Stmts /\ s.tag = 6
    BY <1>5, FrameFields DEF TypeOK, DumpWhile, RunningStmt, Running
  <2>2. s.exp \in Exps /\ s.stmt \in Stmts
    BY <2>1, Grammar DEF GrammarStmt
  <2>3. lw \in Labels
    BY <1>l
  <2> HIDE DEF lw, s
  <2>4. <<ExpF(s.exp), [at |-> "While", stmt |-> s.stmt, n |-> m]>> \in Seq(Frames)
    BY <2>2, <1>l, FrameType, Tuples
  <2>5. JoinText(last_ins_is_ret, lw, lw) \in Seq(Items)
    BY <2>3, JoinTextType DEF TypeOK
  <2>6. dump' \in Seq(Frames) /\ k_str' \in Seq(Items)
    BY <1>5, <2>1, <2>4, <2>5, Emitted DEF DumpWhile, Continue, s, lw
  <2> QED BY <1>5, <2>6, <1>l DEF TypeOK, DumpWhile
<1>6. CASE DumpWhileBody
  <2> DEFINE n == Head(dump).n
             lw == Lab("while", n)
             wt == Lab("while_true", n + 1)
             wf == Lab("while_false", n + 2)
  <2>1. dump # <<>> /\ s \in Stmts /\ n \in Nat
    BY <1>6, FrameFields DEF TypeOK, DumpWhileBody, Running
  <2>2. lw \in Labels /\ wt \in Labels /\ wf \in Labels
    BY <2>1, <1>l
  <2> HIDE DEF lw, wt, wf, s
  <2>3. <<StmtF(s), LoopJoin(lw, wf)>> \in Seq(Frames)
    BY <2>1, <2>2, FrameType, Tuples
  <2>4. <<Jump(wf), Label(wf)>> \in Seq(Items) /\ <<Br(data, wt, wf), Label(wt)>> \in Seq(Items)
    BY <2>2, ControlItems, Tuples DEF TypeOK
  <2>5. CASE data = Imm(0)
    BY <1>6, <2>1, <2>4, <2>5, Emitted, Tuples
    DEF TypeOK, DumpWhileBody, Continue, lw, wt, wf
  <2>6. CASE data # Imm(0)
    <3>1. dump' \in Seq(Frames) /\ k_str' \in Seq(Items)
      BY <1>6, <2>1, <2>3, <2>4, <2>6, Emitted DEF DumpWhileBody, Continue, lw, wt, wf, s
    <3> QED BY <1>6, <3>1 DEF TypeOK, DumpWhileBody
  <2> QED BY <2>5, <2>6
<1>7. CASE DumpLoopExit
  <2> DEFINE never == Lab("while_never_access", m)
  <2>1. dump # <<>> /\ never \in Labels
    BY <1>7, <1>l DEF DumpLoopExit, RunningStmt, Running
  <2>2. PICK i \in DOMAIN dump :
          /\ dump[i].at = "LoopJoin"
          /\ k_str' = k_str \o <<Jump(IF s.tag = 7 THEN dump[i].label ELSE dump[i].to),
                                 Label(never)>>
          /\ unused_koopa_label_count' = m + 1
    BY <1>7 DEF DumpLoopExit
  <2>3. dump[i].label \in Labels /\ dump[i].to \in Labels
    <3>1. dump[i] \in Frames
      BY <2>2 DEF TypeOK
    <3> QED BY <2>2, <3>1, FrameFields
  <2> DEFINE dst == IF s.tag = 7 THEN dump[i].label ELSE dump[i].to
  <2>4. dst \in Labels
    BY <2>3
  <2> HIDE DEF never, dst
  <2>5. <<Jump(dst), Label(never)>> \in Seq(Items)
    BY <2>1, <2>4, ControlItems, Tuples
  <2>6. k_str' \in Seq(Items)
    BY <2>2, <2>5 DEF TypeOK, dst
  <2>7. dump' \in Seq(Frames)
    BY <1>7, <2>1, Emitted, Tuples DEF DumpLoopExit, Continue
  <2> QED BY <1>7, <1>l, <2>2, <2>6, <2>7 DEF TypeOK, DumpLoopExit
<1> QED
  BY <1>1, <1>2, <1>3, <1>4, <1>5, <1>6, <1>7

\* The four pieces of text DumpLogicOp writes
LEMMA LogicOpItems ==
  ASSUME TypeOK, dump # <<>>, Head(dump).at = "LogicOp"
  PROVE  LET f == Head(dump)
             r == unused_koopa_count
             k == LogicOpRegs(f.tag)
             le == Lab("end", f.n + 2)
             ls == ShortLabel(f.tag, f.n)
         IN  /\ le \in Labels /\ ls \in Labels
             /\ LogicOpText(f.tag, f.lhs, data, r) \in Seq(Items)
             /\ <<Store(Reg(r + k - 1), f.temp)>> \in Seq(Items)
             /\ JoinText(last_ins_is_ret, le, ls) \in Seq(Items)
             /\ <<Store(ShortValue(f.tag), f.temp), Jump(le), Label(le),
                  Ins("load", Reg(r + k + 1), <<f.temp>>)>> \in Seq(Items)
<1> DEFINE f == Head(dump)
           r == unused_koopa_count
           k == LogicOpRegs(f.tag)
           le == Lab("end", f.n + 2)
           ls == ShortLabel(f.tag, f.n)
<1>1. /\ f.tag \in {"lor", "land"} /\ f.n \in Nat /\ f.temp \in Operands
      /\ f.lhs \in Operands /\ r \in Nat /\ data \in Operands
  BY FrameFields DEF TypeOK
<1>2. k \in {2, 3} /\ le \in Labels /\ ls \in Labels
  <2>1. \A i \in Nat : /\ Lab("then", i) \in Labels /\ Lab("else", i) \in Labels
                       /\ Lab("end", i) \in Labels
    BY LabelType DEF LabelKinds
  <2> QED BY <1>1, <2>1 DEF LogicOpRegs, ShortLabel
<1>3. /\ Imm(0) \in Operands /\ Imm(1) \in Operands /\ ShortValue(f.tag) \in Operands
      /\ Reg(r) \in Operands /\ Reg(r + 1) \in Operands /\ Reg(r + 2) \in Operands
      /\ Reg(r + k - 1) \in Operands /\ Reg(r + k + 1) \in Operands
  BY <1>1, <1>2, OperandType DEF ShortValue
<1>4. LogicOpText(f.tag, f.lhs, data, r) \in Seq(Items)
  <2>1. /\ Ins("or", Reg(r), <<f.lhs, data>>) \in Items
        /\ Ins("ne", Reg(r + 1), <<Reg(r), Imm(0)>>) \in Items
        /\ Ins("ne", Reg(r), <<f.lhs, Imm(0)>>) \in Items
        /\ Ins("ne", Reg(r + 1), <<data, Imm(0)>>) \in Items
        /\ Ins("and", Reg(r + 2), <<Reg(r + 1), Reg(r)>>) \in Items
    <3>1. \A a, b \in Operands : <<a, b>> \in Seq(Operands)
      BY Tuples
    <3> QED BY <1>1, <1>3, <3>1, PlainItems
  <2> QED BY <2>1, Tuples DEF LogicOpText
<1>5. JoinText(last_ins_is_ret, le, ls) \in Seq(Items)
  BY <1>2, JoinTextType DEF TypeOK
<1>6. /\ <<Store(Reg(r + k - 1), f.temp)>> \in Seq(Items)
      /\ <<Store(ShortValue(f.tag), f.temp), Jump(le), Label(le),
           Ins("load", Reg(r + k + 1), <<f.temp>>)>> \in Seq(Items)
  BY <1>1, <1>2, <1>3, ControlItems, PlainItems, Tuples
<1> QED
  BY <1>2, <1>4, <1>5, <1>6

LEMMA TypeExpressions ==
  ASSUME TypeOK, DumpLeaf \/ DumpLogic \/ DumpLogicRhs \/ DumpLogicOp
  PROVE  TypeOK'
<1> USE DEF counts
<1> DEFINE f == Head(dump)
           m == unused_koopa_label_count
           r == unused_koopa_count
<1>t. m \in Nat /\ m + 1 \in Nat /\ m + 3 \in Nat /\ r \in Nat /\ data \in Operands
  BY DEF TypeOK
<1>l. \A i \in Nat : /\ Lab("then", i) \in Labels /\ Lab("else", i) \in Labels
                     /\ Lab("end", i) \in Labels
  BY LabelType DEF LabelKinds
<1>1. CASE DumpLeaf
  <2>1. dump # <<>> /\ f.exp \in Exps
    BY <1>1, FrameFields DEF TypeOK, DumpLeaf, Running
  <2>2. dump' \in Seq(Frames)
    BY <1>1, <2>1, Emitted, Tuples DEF DumpLeaf, Continue
  <2>3. CASE f.exp.tag = "num"
    <3>1. Imm(f.exp.val) \in Operands
      BY <2>1, <2>3, Grammar, OperandType DEF GrammarExp
    <3> QED BY <1>1, <2>2, <2>3, <3>1 DEF TypeOK, DumpLeaf
  <2>4. CASE f.exp.tag = "ins"
    <3>1. Reg(r) \in Operands /\ <<"leaf", f.exp.name>> \in Operands
      BY <2>1, <2>4, Grammar, Counted DEF GrammarExp, Operands
    <3>2. Ins("ins", Reg(r), <<<<"leaf", f.exp.name>>>>) \in Items
      BY <3>1, PlainItems, Tuples
    <3>3. k_str' \in Seq(Items) /\ data' \in Operands
      BY <1>1, <2>4, <3>1, <3>2, EmittedOne DEF DumpLeaf
    <3>4. unused_koopa_count' \in Nat
      BY <1>1, <1>t, <2>4 DEF DumpLeaf
    <3> QED BY <1>1, <2>2, <3>3, <3>4 DEF TypeOK, DumpLeaf
  <2> QED BY <1>1, <2>3, <2>4 DEF DumpLeaf
<1>2. CASE DumpLogic
  <2> DEFINE e == f.exp
             temp == Temp(unused_koopa_var_count)
  <2>1. dump # <<>> /\ e \in Exps /\ e.tag \in {"lor", "land"} /\ temp \in Operands
    BY <1>2, FrameFields, Counted DEF TypeOK, DumpLogic, Running
  <2>2. e.lhs \in Exps
    BY <2>1, Grammar DEF GrammarExp
  <2> HIDE DEF e, temp
  <2>3. <<ExpF(e.lhs), [at |-> "LogicRhs", exp |-> e, temp |-> temp]>> \in Seq(Frames)
    BY <2>1, <2>2, FrameType, LogicFrameType, Tuples
  <2>4. dump' \in Seq(Frames)
    <3>1. dump' = <<ExpF(e.lhs), [at |-> "LogicRhs", exp |-> e, temp |-> temp]>>
                  \o Tail(dump)
      BY <1>2 DEF DumpLogic, Continue, e, temp
    <3> QED BY <2>1, <2>3, <3>1, Emitted, Tuples
  <2>5. k_str' \in Seq(Items)
    BY <1>2, <2>1, PlainItems, EmittedOne DEF DumpLogic, temp
  <2> QED BY <1>2, <2>4, <2>5 DEF TypeOK, DumpLogic
<1>3. CASE DumpLogicRhs
  <2>1. /\ dump # <<>> /\ f.exp \in Exps /\ f.exp.tag \in {"lor", "land"}
        /\ f.temp \in Operands
    BY <1>3, FrameFields DEF TypeOK, DumpLogicRhs, Running
  <2>2. f.exp.rhs \in Exps
    BY <2>1, Grammar DEF GrammarExp
  <2>3. <<ExpF(f.exp.rhs), [at |-> "LogicOp", tag |-> f.exp.tag, temp |-> f.temp,
                            lhs |-> data, n |-> m]>> \in Seq(Frames)
    <3> HIDE DEF f, m
    <3> QED BY <1>t, <2>1, <2>2, FrameType, LogicFrameType, Tuples
  <2>4. RhsLabel(f.exp.tag, m) \in Labels
    BY <1>t, <1>l DEF RhsLabel
  <2>5. <<Br(data, Lab("then", m), Lab("else", m + 1)), Label(RhsLabel(f.exp.tag, m))>>
          \in Seq(Items)
    BY <1>t, <1>l, <2>4, ControlItems, Tuples
  <2>6. dump' \in Seq(Frames) /\ k_str' \in Seq(Items)
    BY <1>3, <2>1, <2>3, <2>5, Emitted DEF DumpLogicRhs, Continue
  <2> QED BY <1>3, <1>t, <2>6 DEF TypeOK, DumpLogicRhs
<1>4. CASE DumpLogicOp
  <2>1. dump # <<>> /\ f.tag \in {"lor", "land"} /\ f.at = "LogicOp"
    BY <1>4, FrameFields DEF TypeOK, DumpLogicOp, Running
  <2>2. k_str' \in Seq(Items)
    BY <1>4, <2>1, LogicOpItems DEF TypeOK, DumpLogicOp
  <2>3. dump' \in Seq(Frames)
    BY <1>4, <2>1, Emitted, Tuples DEF DumpLogicOp, Continue
  <2>4. data' \in Operands /\ unused_koopa_count' \in Nat
    <3>1. LogicOpRegs(f.tag) \in {2, 3}
      BY DEF LogicOpRegs
    <3> QED BY <1>4, <1>t, <3>1, OperandType DEF DumpLogicOp
  <2> QED BY <1>4, <2>2, <2>3, <2>4 DEF TypeOK, DumpLogicOp
<1> QED
  BY <1>1, <1>2, <1>3, <1>4

LEMMA TypeInit ==
  Init => TypeOK
<1> SUFFICES ASSUME Init PROVE TypeOK
  OBVIOUS
<1>1. unit \in Seq(Blocks)
  BY Grammar DEF Init
<1>2. data \in Operands
  BY OperandType DEF Init
<1> QED
  BY <1>1, <1>2, Tuples DEF Init, TypeOK

LEMMA TypeNext ==
  TypeOK /\ [Next]_vars => TypeOK'
<1> SUFFICES ASSUME TypeOK, [Next]_vars PROVE TypeOK'
  OBVIOUS
<1>1. CASE Finish \/ UNCHANGED vars
  BY <1>1 DEF Finish, vars, counts, TypeOK
<1>2. CASE Next /\ ~ Finish
  BY <1>2, TypeFunctions, TypePlace, TypeSimpleStatements, TypeControl, TypeExpressions DEF Next
<1> QED
  BY <1>1, <1>2

\* The globals of the lowering keep their types, for every grammar and every
\* program: in particular every item that reaches k_str is one of Items, and
\* every operand and label in it one the code can name.
THEOREM Typing ==
  Spec => []TypeOK
<1> QED
  BY TypeInit, TypeNext, PTL DEF Spec
-----------------------------------------------------------------------------
(* Basic blocks.  The rule is not inductive by itself: what a Dump may write *)
(* depends on how the text ends, which last_ins_is_ret tells, and a Dump     *)
(* that does not ask last_ins_is_ret must never run behind a return, which   *)
(* the shape of the call stack ensures.                                      *)

BlockInv == TypeOK /\ BlocksWellFormed /\ EndOfText /\ CallShape(dump)

Closers == {"jump", "br", "ret"}
NotOpen == {"fun", "end", "jump", "br", "ret"}
MayReturn == {"Stmt", "Ret", "Block"}

LEMMA FollowsRules ==
  ASSUME NEW a, NEW b
  PROVE  /\ b.op \notin {"fun", "end", "label"} /\ a.op \notin NotOpen => Follows(a, b)
         /\ b.op = "label" /\ a.op \in Closers \cup {"fun"} => Follows(a, b)
         /\ b.op = "end" /\ a.op \in Closers => Follows(a, b)
         /\ b.op = "fun" /\ a.op = "end" => Follows(a, b)
  BY DEF Follows, IsTerminator, NotOpen, Closers

LEMMA ChainTuples ==
  /\ Chained(<<>>)
  /\ \A a : Chained(<<a>>)
  /\ \A a, b : Follows(a, b) => Chained(<<a, b>>)
  /\ \A a, b, c : Follows(a, b) /\ Follows(b, c) => Chained(<<a, b, c>>)
  /\ \A a, b, c, e : Follows(a, b) /\ Follows(b, c) /\ Follows(c, e) => Chained(<<a, b, c, e>>)
<1>1. Chained(<<>>) /\ \A a : Chained(<<a>>)
  BY DEF Chained
<1>2. ASSUME NEW a, NEW b, Follows(a, b) PROVE Chained(<<a, b>>)
  BY <1>2 DEF Chained
<1>3. ASSUME NEW a, NEW b, NEW c, Follows(a, b), Follows(b, c) PROVE Chained(<<a, b, c>>)
  BY <1>3 DEF Chained
<1>4. ASSUME NEW a, NEW b, NEW c, NEW e, Follows(a, b), Follows(b, c), Follows(c, e)
      PROVE  Chained(<<a, b, c, e>>)
  BY <1>4 DEF Chained
<1> QED
  BY <1>1, <1>2, <1>3, <1>4

LEMMA ChainConcat ==
  ASSUME NEW F, NEW k \in Seq(F), k # <<>>, Chained(k),
         NEW s \in Seq(F), s # <<>>, Chained(s),
         Follows(k[Len(k)], s[1])
  PROVE  /\ k \o s \in Seq(F) /\ k \o s # <<>>
         /\ Chained(k \o s)
         /\ (k \o s)[1] = k[1]
         /\ (k \o s)[Len(k \o s)] = s[Len(s)]
<1>1. /\ Len(k \o s) = Len(k) + Len(s) /\ Len(k) > 0 /\ Len(s) > 0
      /\ \A i \in 1 .. Len(k) : (k \o s)[i] = k[i]
      /\ \A i \in Len(k) + 1 .. Len(k) + Len(s) : (k \o s)[i] = s[i - Len(k)]
  OBVIOUS
<1>2. ASSUME NEW i \in 1 .. Len(k \o s) - 1 PROVE Follows((k \o s)[i], (k \o s)[i + 1])
  <2>1. CASE i < Len(k)
    BY <1>1, <2>1 DEF Chained
  <2>2. CASE i = Len(k)
    BY <1>1, <2>2
  <2>3. CASE i > Len(k)
    <3>1. /\ (k \o s)[i] = s[i - Len(k)] /\ (k \o s)[i + 1] = s[(i - Len(k)) + 1]
          /\ i - Len(k) \in 1 .. Len(s) - 1
      BY <1>1, <2>3
    <3> QED BY <3>1 DEF Chained
  <2> QED BY <2>1, <2>2, <2>3, <1>1
<1> QED
  BY <1>1, <1>2 DEF Chained

\* A handler returns: the call below it goes on.
LEMMA ShapePop ==
  ASSUME NEW F, NEW d \in Seq(F), d # <<>>, CallShape(d), Head(d).at # "FuncEnd"
  PROVE  /\ <<>> \o Tail(d) # <<>> /\ CallShape(<<>> \o Tail(d))
         /\ Head(d).at \in MayReturn => Head(<<>> \o Tail(d)).at \in Resumes
<1>1. Len(d) > 1 /\ Len(Tail(d)) = Len(d) - 1 /\ \A i \in 1 .. Len(Tail(d)) : Tail(d)[i] = d[i + 1]
  BY DEF CallShape
<1>2. <<>> \o Tail(d) = Tail(d)
  OBVIOUS
<1>3. CallShape(Tail(d))
  <2>1. \A i \in DOMAIN Tail(d) : Tail(d)[i].at = "FuncEnd" <=> i = Len(Tail(d))
    BY <1>1 DEF CallShape
  <2>2. \A i \in 1 .. Len(Tail(d)) - 1 :
          Tail(d)[i].at \in {"Stmt", "Ret", "Block"} => Tail(d)[i + 1].at \in Resumes
    BY <1>1 DEF CallShape
  <2> QED BY <2>1, <2>2 DEF CallShape
<1>4. Head(d).at \in MayReturn => Head(Tail(d)).at \in Resumes
  <2>1. Head(d) = d[1] /\ Head(Tail(d)) = d[2] /\ 1 \in 1 .. Len(d) - 1
    BY <1>1
  <2> QED BY <2>1 DEF CallShape, MayReturn
<1>5. Tail(d) # <<>>
  BY <1>1
<1> QED
  BY <1>2, <1>3, <1>4, <1>5

\* A handler leaves the calls n behind it.
LEMMA ShapePush ==
  ASSUME NEW F, NEW d \in Seq(F), d # <<>>, CallShape(d), Head(d).at # "FuncEnd",
         NEW n \in Seq(F), n # <<>>,
         \A i \in 1 .. Len(n) : n[i].at # "FuncEnd",
         \A i \in 1 .. Len(n) - 1 : n[i].at \in MayReturn => n[i + 1].at \in Resumes,
         n[Len(n)].at \in MayReturn => Head(d).at \in MayReturn
  PROVE  n \o Tail(d) # <<>> /\ CallShape(n \o Tail(d))
<1> DEFINE t == Tail(d)
           e == n \o t
<1>1. /\ t \in Seq(F) /\ t # <<>> /\ CallShape(t)
      /\ Head(d).at \in MayReturn => t[1].at \in Resumes
  <2>1. t \in Seq(F) /\ <<>> \o t = t
    OBVIOUS
  <2>2. /\ t # <<>> /\ CallShape(t)
        /\ Head(d).at \in MayReturn => Head(t).at \in Resumes
    BY <2>1, ShapePop
  <2> QED BY <2>1, <2>2
<1>2. /\ Len(e) = Len(n) + Len(t) /\ Len(n) > 0 /\ Len(t) > 0 /\ DOMAIN e = 1 .. Len(e)
      /\ \A i \in 1 .. Len(n) : e[i] = n[i]
      /\ \A i \in Len(n) + 1 .. Len(n) + Len(t) : e[i] = t[i - Len(n)]
  BY <1>1
<1> HIDE DEF t, e
<1>3. ASSUME NEW i \in DOMAIN e PROVE e[i].at = "FuncEnd" <=> i = Len(e)
  <2>1. CASE i \in 1 .. Len(n)
    BY <1>2, <2>1
  <2>2. CASE i \in Len(n) + 1 .. Len(n) + Len(t)
    <3>1. e[i] = t[i - Len(n)] /\ i - Len(n) \in DOMAIN t
      BY <1>1, <1>2, <2>2
    <3>2. t[i - Len(n)].at = "FuncEnd" <=> i - Len(n) = Len(t)
      BY <1>1, <3>1 DEF CallShape
    <3>3. Len(n) \in Nat /\ Len(t) \in Nat /\ i \in Int
      BY <1>1, <2>2
    <3>4. i - Len(n) = Len(t) <=> i = Len(e)
      BY <1>2, <3>3
    <3> QED BY <3>1, <3>2, <3>4
  <2> QED BY <2>1, <2>2, <1>2
<1>4. ASSUME NEW i \in 1 .. Len(e) - 1, e[i].at \in MayReturn PROVE e[i + 1].at \in Resumes
  <2>1. CASE i < Len(n)
    BY <1>2, <1>4, <2>1
  <2>2. CASE i = Len(n)
    BY <1>1, <1>2, <1>4, <2>2
  <2>3. CASE i > Len(n)
    <3>1. /\ e[i] = t[i - Len(n)] /\ e[i + 1] = t[(i - Len(n)) + 1]
          /\ i - Len(n) \in 1 .. Len(t) - 1
      BY <1>2, <2>3
    <3> QED BY <1>1, <1>4, <3>1 DEF CallShape, MayReturn
  <2> QED BY <2>1, <2>2, <2>3, <1>2
<1>5. CallShape(e)
  BY <1>3, <1>4 DEF CallShape, MayReturn
<1>6. e # <<>>
  BY <1>1, <1>2 DEF e
<1> QED
  BY <1>5, <1>6 DEF e, t

\* Behind a return only a call that asks for it is running.
LEMMA NotBehindReturn ==
  ASSUME BlockInv, dump # <<>>, Head(dump).at \notin Resumes
  PROVE  /\ last_ins_is_ret = FALSE
         /\ k_str # <<>> /\ k_str[Len(k_str)].op \notin NotOpen
         /\ \A b : b.op \notin {"fun", "end", "label"} => Follows(k_str[Len(k_str)], b)
<1>1. last_ins_is_ret = FALSE /\ k_str # <<>> /\ k_str[Len(k_str)].op \notin NotOpen
  BY DEF BlockInv, EndOfText, NotOpen, TypeOK
<1> QED
  BY <1>1, FollowsRules

\* A handler that writes nothing and does not run behind a return.
LEMMA Quiet ==
  ASSUME BlockInv, dump # <<>>, Head(dump).at \notin Resumes,
         k_str' = k_str, last_ins_is_ret' = last_ins_is_ret, dump' # <<>>
  PROVE  BlocksWellFormed' /\ EndOfText'
<1>1. BlocksWellFormed'
  BY DEF BlockInv, BlocksWellFormed, Chained
<1>2. EndOfText'
  BY NotBehindReturn DEF EndOfText, NotOpen
<1> QED
  BY <1>1, <1>2

\* A handler that writes text and leaves the block open.
LEMMA Writes ==
  ASSUME BlockInv, dump # <<>>, dump' # <<>>, last_ins_is_ret' = FALSE,
         NEW F, NEW text \in Seq(F), text # <<>>, Chained(text),
         Follows(k_str[Len(k_str)], text[1]), text[Len(text)].op \notin NotOpen,
         k_str' = k_str \o text
  PROVE  BlocksWellFormed' /\ EndOfText'
<1>s. k_str \in Seq(Items \cup F) /\ text \in Seq(Items \cup F)
  BY Widen DEF BlockInv, TypeOK
<1>1. k_str # <<>> /\ Chained(k_str) /\ k_str[1].op = "fun"
  BY DEF BlockInv, TypeOK, BlocksWellFormed, EndOfText
<1>2. /\ k_str' # <<>> /\ Chained(k_str') /\ k_str'[1] = k_str[1]
      /\ k_str'[Len(k_str')] = text[Len(text)]
  BY <1>s, <1>1, ChainConcat
<1>3. BlocksWellFormed'
  BY <1>1, <1>2 DEF BlocksWellFormed, Chained
<1>4. EndOfText'
  BY <1>2 DEF EndOfText, NotOpen
<1> QED
  BY <1>3, <1>4

\* The same for one plain instruction.
LEMMA WritesOne ==
  ASSUME BlockInv, dump # <<>>, Head(dump).at \notin Resumes, dump' # <<>>,
         last_ins_is_ret' = last_ins_is_ret,
         NEW it, it.op \notin NotOpen \cup {"label"}, k_str' = Append(k_str, it)
  PROVE  BlocksWellFormed' /\ EndOfText'
<1> DEFINE text == <<it>>
<1>1. text \in Seq({it}) /\ text # <<>> /\ text[1] = it /\ text[Len(text)] = it
  OBVIOUS
<1>2. Chained(text) /\ k_str' = k_str \o text
  <2>1. k_str \in Seq(Items \cup {it})
    BY Widen DEF BlockInv, TypeOK
  <2>2. Append(k_str, it) = k_str \o <<it>>
    BY <2>1
  <2> QED BY <2>2, ChainTuples
<1>3. it.op \notin {"fun", "end", "label"} /\ it.op \notin NotOpen
  BY DEF NotOpen
<1>4. Follows(k_str[Len(k_str)], it) /\ last_ins_is_ret' = FALSE
  BY <1>3, NotBehindReturn
<1> HIDE DEF text
<1> QED
  BY <1>1, <1>2, <1>3, <1>4, Writes

\* JoinText closes the open block, or finds it closed, and opens another one.
LEMMA JoinTextChained ==
  ASSUME BlockInv, dump # <<>>, NEW to \in Labels, NEW l \in Labels
  PROVE  LET text == JoinText(last_ins_is_ret, to, l)
         IN  /\ text \in Seq(Items) /\ text # <<>> /\ Chained(text)
             /\ Follows(k_str[Len(k_str)], text[1])
             /\ text[Len(text)].op = "label"
<1>1. /\ Label(l) \in Items /\ Label(l).op = "label"
      /\ Jump(to) \in Items /\ Jump(to).op = "jump"
  BY ControlItems
<1>2. Follows(Jump(to), Label(l))
  BY <1>1, FollowsRules DEF Closers
<1>3. CASE last_ins_is_ret
  <2>1. k_str[Len(k_str)].op = "ret"
    BY <1>3 DEF BlockInv, EndOfText
  <2>2. Follows(k_str[Len(k_str)], Label(l))
    BY <1>1, <2>1, FollowsRules DEF Closers
  <2> QED BY <1>1, <1>3, <2>2, ChainTuples DEF JoinText
<1>4. CASE ~ last_ins_is_ret
  <2>1. k_str[Len(k_str)].op \notin NotOpen
    BY <1>4 DEF BlockInv, EndOfText, NotOpen
  <2>2. Follows(k_str[Len(k_str)], Jump(to))
    BY <1>1, <2>1, FollowsRules
  <2> QED BY <1>1, <1>2, <1>4, <2>2, ChainTuples DEF JoinText
<1> QED
  BY <1>3, <1>4

LEMMA ShapeOne ==
  ASSUME BlockInv, dump # <<>>, Head(dump).at # "FuncEnd", NEW f,
         f.at # "FuncEnd", f.at \in MayReturn => Head(dump).at \in MayReturn
  PROVE  <<f>> \o Tail(dump) # <<>> /\ CallShape(<<f>> \o Tail(dump))
<1> DEFINE n == <<f>>
           F == Frames \cup {f}
<1>1. n \in Seq(F) /\ n # <<>> /\ Len(n) = 1 /\ n[1] = f
  OBVIOUS
<1>d. dump \in Seq(F)
  BY Widen DEF BlockInv, TypeOK
<1> HIDE DEF n, F
<1>2. /\ \A i \in 1 .. Len(n) : n[i].at # "FuncEnd"
      /\ \A i \in 1 .. Len(n) - 1 : n[i].at \in MayReturn => n[i + 1].at \in Resumes
      /\ n[Len(n)].at \in MayReturn => Head(dump).at \in MayReturn
  BY <1>1
<1>3. n \o Tail(dump) # <<>> /\ CallShape(n \o Tail(dump))
  BY <1>d, <1>1, <1>2, ShapePush DEF BlockInv
<1> QED
  BY <1>3 DEF n

\* f runs before g; g looks for what f may leave behind it.
LEMMA ShapeTwo ==
  ASSUME BlockInv, dump # <<>>, Head(dump).at # "FuncEnd", NEW f, NEW g,
         f.at # "FuncEnd", g.at # "FuncEnd",
         f.at \in MayReturn => g.at \in Resumes,
         g.at \in MayReturn => Head(dump).at \in MayReturn
  PROVE  <<f, g>> \o Tail(dump) # <<>> /\ CallShape(<<f, g>> \o Tail(dump))
<1> DEFINE n == <<f, g>>
           F == Frames \cup {f, g}
<1>1. n \in Seq(F) /\ n # <<>> /\ Len(n) = 2 /\ n[1] = f /\ n[2] = g
  OBVIOUS
<1>d. dump \in Seq(F)
  BY Widen DEF BlockInv, TypeOK
<1> HIDE DEF n, F
<1>2. /\ \A i \in 1 .. Len(n) : n[i].at # "FuncEnd"
      /\ \A i \in 1 .. Len(n) - 1 : n[i].at \in MayReturn => n[i + 1].at \in Resumes
      /\ n[Len(n)].at \in MayReturn => Head(dump).at \in MayReturn
  BY <1>1
<1>3. n \o Tail(dump) # <<>> /\ CallShape(n \o Tail(dump))
  BY <1>d, <1>1, <1>2, ShapePush DEF BlockInv
<1> QED
  BY <1>3 DEF n

LEMMA BlocksFunctions ==
  ASSUME BlockInv, DumpFuncDef \/ DumpFuncEnd
  PROVE  BlocksWellFormed' /\ EndOfText' /\ CallShape(dump)'
<1>1. CASE DumpFuncDef
  <2> DEFINE text == <<Fun, Label(Entry)>>
             d == <<BlockF(Head(unit)), [at |-> "FuncEnd"]>>
  <2>1. /\ Fun \in Items /\ Fun.op = "fun"
        /\ Label(Entry) \in Items /\ Label(Entry).op = "label"
    BY ControlItems, OperandType
  <2>2. /\ text \in Seq(Items) /\ text # <<>> /\ Len(text) = 2
        /\ text[1] = Fun /\ text[Len(text)] = Label(Entry)
    BY <2>1
  <2>3. Chained(text)
    BY <2>1, ChainTuples, FollowsRules
  <2>4. dump' = d /\ k_str' = k_str \o text /\ last_ins_is_ret' = FALSE /\ dump = <<>>
    BY <1>1 DEF DumpFuncDef
  <2>5. CallShape(d)
    BY DEF CallShape, BlockF, Resumes
  <2>6. /\ k_str' # <<>> /\ Chained(k_str') /\ k_str'[1].op = "fun"
        /\ k_str'[Len(k_str')].op = "label"
    <3> HIDE DEF text
    <3>1. CASE k_str = <<>>
      <4>1. k_str' = text
        BY <2>2, <2>4, <3>1
      <4> QED BY <2>1, <2>2, <2>3, <4>1
    <3>2. CASE k_str # <<>>
      <4>1. k_str[Len(k_str)].op = "end" /\ k_str \in Seq(Items)
            /\ Chained(k_str) /\ k_str[1].op = "fun"
        BY <2>4, <3>2 DEF BlockInv, EndOfText, TypeOK, BlocksWellFormed
      <4>2. Follows(k_str[Len(k_str)], text[1])
        BY <2>1, <2>2, <4>1, FollowsRules
      <4>3. /\ k_str \o text # <<>> /\ Chained(k_str \o text)
            /\ (k_str \o text)[1] = k_str[1]
            /\ (k_str \o text)[Len(k_str \o text)] = text[Len(text)]
        BY <2>2, <2>3, <3>2, <4>1, <4>2, ChainConcat
      <4> QED BY <2>1, <2>2, <2>4, <4>1, <4>3
    <3> QED BY <3>1, <3>2
  <2>7. BlocksWellFormed'
    BY <2>6 DEF BlocksWellFormed, Chained
  <2>8. EndOfText'
    BY <2>4, <2>6 DEF EndOfText
  <2> QED BY <2>4, <2>5, <2>7, <2>8 DEF CallShape
<1>2. CASE DumpFuncEnd
  <2> DEFINE text == IF last_ins_is_ret THEN <<End>> ELSE <<Ret(<<>>), End>>
  <2>1. /\ Ret(<<>>) \in Items /\ Ret(<<>>).op = "ret"
        /\ End \in Items /\ End.op = "end"
    BY ControlItems, Tuples
  <2>2. dump # <<>> /\ Head(dump).at = "FuncEnd" /\ k_str' = k_str \o text
    BY <1>2 DEF DumpFuncEnd, Running
  <2>3. dump' = <<>>
    <3>1. dump \in Seq(Frames) /\ dump[1].at = "FuncEnd" /\ 1 \in DOMAIN dump
      BY <2>2 DEF BlockInv, TypeOK
    <3>2. Len(dump) = 1
      BY <3>1 DEF BlockInv, CallShape
    <3> QED BY <1>2, <3>1, <3>2 DEF DumpFuncEnd, Continue
  <2>4. k_str \in Seq(Items) /\ k_str # <<>> /\ Chained(k_str) /\ k_str[1].op = "fun"
    BY <2>2 DEF BlockInv, TypeOK, BlocksWellFormed, EndOfText
  <2>5. /\ text \in Seq(Items) /\ text # <<>> /\ Chained(text)
        /\ Follows(k_str[Len(k_str)], text[1]) /\ text[Len(text)] = End
    <3>1. CASE last_ins_is_ret
      <4>1. k_str[Len(k_str)].op = "ret"
        BY <2>2, <3>1 DEF BlockInv, EndOfText
      <4>2. Follows(k_str[Len(k_str)], End)
        BY <2>1, <4>1, FollowsRules DEF Closers
      <4> QED BY <2>1, <3>1, <4>2, ChainTuples
    <3>2. CASE ~ last_ins_is_ret
      <4>1. k_str[Len(k_str)].op \notin NotOpen
        BY <2>2, <3>2 DEF BlockInv, EndOfText, NotOpen
      <4>2. Follows(k_str[Len(k_str)], Ret(<<>>)) /\ Follows(Ret(<<>>), End)
        BY <2>1, <4>1, FollowsRules DEF Closers
      <4> QED BY <2>1, <3>2, <4>2, ChainTuples
    <3> QED BY <3>1, <3>2
  <2> HIDE DEF text
  <2>6. /\ k_str' # <<>> /\ Chained(k_str') /\ k_str'[1].op = "fun"
        /\ k_str'[Len(k_str')].op = "end"
    BY <2>1, <2>2, <2>4, <2>5, ChainConcat
  <2>7. BlocksWellFormed'
    BY <2>6 DEF BlocksWellFormed, Chained
  <2>8. EndOfText'
    BY <2>3, <2>6 DEF EndOfText
  <2>9. CallShape(dump)'
    BY <2>3 DEF CallShape
  <2> QED BY <2>7, <2>8, <2>9
<1> QED
  BY <1>1, <1>2

LEMMA WritesTwo ==
  ASSUME BlockInv, dump # <<>>, dump' # <<>>, last_ins_is_ret' = FALSE,
         NEW a, NEW b, Follows(k_str[Len(k_str)], a), Follows(a, b), b.op \notin NotOpen,
         k_str' = k_str \o <<a, b>>
  PROVE  BlocksWellFormed' /\ EndOfText'
<1> DEFINE text == <<a, b>>
<1>1. text \in Seq({a, b}) /\ text # <<>> /\ text[1] = a /\ text[Len(text)] = b
  OBVIOUS
<1>2. Chained(text) /\ k_str' = k_str \o text
  BY ChainTuples
<1> HIDE DEF text
<1> QED
  BY <1>1, <1>2, Writes

LEMMA ShapeReturn ==
  ASSUME BlockInv, dump # <<>>, Head(dump).at # "FuncEnd"
  PROVE  /\ <<>> \o Tail(dump) # <<>> /\ CallShape(<<>> \o Tail(dump))
         /\ Head(dump).at \in MayReturn => Head(<<>> \o Tail(dump)).at \in Resumes
  BY ShapePop DEF BlockInv, TypeOK

\* Actions that write nothing
LEMMA BlocksQuiet ==
  ASSUME BlockInv, \/ DumpAssign \/ DumpIndex \/ DumpElem \/ DumpNested
                   \/ DumpIf \/ DumpReturn \/ DumpBlockEnd
  PROVE  BlocksWellFormed' /\ EndOfText' /\ CallShape(dump)'
<1> DEFINE s == Head(dump).stmt
<1>1. CASE DumpAssign
  <2>1. dump # <<>> /\ Head(dump).at = "Stmt"
    BY <1>1 DEF DumpAssign, RunningStmt, Running
  <2>2. dump' # <<>> /\ CallShape(dump')
    <3>1. CASE s.l_val = <<>>
      <4>1. dump' = <<ExpF(s.exp), [at |-> "Store", dst |-> Var(0)]>> \o Tail(dump)
        BY <1>1, <3>1 DEF DumpAssign, Continue
      <4> QED BY <2>1, <4>1, ShapeTwo DEF ExpF, MayReturn
    <3>2. CASE s.l_val # <<>>
      <4>1. dump' = <<ExpF(Head(s.l_val)), Index(Tail(s.l_val), <<>>, s)>> \o Tail(dump)
        BY <1>1, <3>2 DEF DumpAssign, Continue
      <4> QED BY <2>1, <4>1, ShapeTwo DEF ExpF, Index, MayReturn
    <3> QED BY <3>1, <3>2
  <2> QED BY <1>1, <2>1, <2>2, Quiet DEF DumpAssign, Resumes, CallShape
<1>2. CASE DumpNested
  <2>1. dump # <<>> /\ Head(dump).at = "Stmt"
    BY <1>2 DEF DumpNested, Running
  <2>2. dump' # <<>> /\ CallShape(dump')
    <3>1. CASE dump' = <<>> \o Tail(dump)
      BY <2>1, <3>1, ShapeReturn
    <3>2. CASE dump' = <<ExpF(s.exp)>> \o Tail(dump)
      BY <2>1, <3>2, ShapeOne DEF ExpF, MayReturn
    <3>3. CASE dump' = <<BlockF(s.block)>> \o Tail(dump)
      BY <2>1, <3>3, ShapeOne DEF BlockF, MayReturn
    <3> QED BY <1>2, <3>1, <3>2, <3>3 DEF DumpNested, Continue
  <2> QED BY <1>2, <2>1, <2>2, Quiet DEF DumpNested, Resumes, CallShape
<1>3. CASE DumpIf
  <2>1. dump # <<>> /\ Head(dump).at = "Stmt"
    BY <1>3 DEF DumpIf, RunningStmt, Running
  <2>2. dump' = <<ExpF(s.exp), [at |-> "Branch", stmt |-> s]>> \o Tail(dump)
    BY <1>3 DEF DumpIf, Continue
  <2>3. dump' # <<>> /\ CallShape(dump')
    BY <2>1, <2>2, ShapeTwo DEF ExpF, MayReturn
  <2> QED BY <1>3, <2>1, <2>3, Quiet DEF DumpIf, Resumes, CallShape
<1>4. CASE DumpReturn
  <2>1. dump # <<>> /\ Head(dump).at = "Stmt"
    BY <1>4 DEF DumpReturn, RunningStmt, Running
  <2>2. dump' = <<ExpF(s.exp), [at |-> "Ret"]>> \o Tail(dump)
    BY <1>4 DEF DumpReturn, Continue
  <2>3. dump' # <<>> /\ CallShape(dump')
    BY <2>1, <2>2, ShapeTwo DEF ExpF, MayReturn
  <2> QED BY <1>4, <2>1, <2>3, Quiet DEF DumpReturn, Resumes, CallShape
<1>5. CASE DumpBlockEnd
  <2>1. dump # <<>> /\ Head(dump).at = "Block" /\ dump' = <<>> \o Tail(dump)
        /\ k_str' = k_str /\ last_ins_is_ret' = last_ins_is_ret
    BY <1>5 DEF DumpBlockEnd, Running, Continue
  <2>2. dump' # <<>> /\ CallShape(dump') /\ Head(dump').at \in Resumes
    BY <2>1, ShapeReturn DEF MayReturn
  <2>3. BlocksWellFormed'
    BY <2>1 DEF BlockInv, BlocksWellFormed, Chained
  <2>4. EndOfText'
    BY <2>1, <2>2 DEF BlockInv, EndOfText
  <2> QED BY <2>2, <2>3, <2>4 DEF CallShape
<1>6. CASE DumpIndex
  <2> DEFINE f == Head(dump)
  <2>1. dump # <<>> /\ Head(dump).at = "Index"
    BY <1>6 DEF DumpIndex, Running
  <2>2. dump' = <<ExpF(Head(f.left)), Index(Tail(f.left), Append(f.had, data), f)>> \o Tail(dump)
    BY <1>6 DEF DumpIndex, Continue
  <2>3. dump' # <<>> /\ CallShape(dump')
    BY <2>1, <2>2, ShapeTwo DEF ExpF, Index, MayReturn
  <2> QED BY <1>6, <2>1, <2>3, Quiet DEF DumpIndex, Resumes, CallShape
<1>7. CASE DumpElem
  <2>1. dump # <<>> /\ Head(dump).at = "ElemPtr"
    BY <1>7 DEF DumpElem, Running
  <2>2. dump' = <<ExpF(Head(dump).exp), [at |-> "Store", dst |-> Reg(unused_koopa_count - 1)]>>
                \o Tail(dump)
    BY <1>7 DEF DumpElem, Continue
  <2>3. dump' # <<>> /\ CallShape(dump')
    BY <2>1, <2>2, ShapeTwo DEF ExpF, MayReturn
  <2> QED BY <1>7, <2>1, <2>3, Quiet DEF DumpElem, Resumes, CallShape
<1> QED
  BY <1>1, <1>2, <1>3, <1>4, <1>5, <1>6, <1>7

\* Actions that write instructions into the open block
LEMMA BlocksPlain ==
  ASSUME BlockInv, \/ DumpVarDef \/ DumpAddress \/ DumpElemPtr
                   \/ DumpStore \/ DumpLeaf \/ DumpLogic
  PROVE  BlocksWellFormed' /\ EndOfText' /\ CallShape(dump)'
<1>1. CASE DumpVarDef
  <2> DEFINE x == Var(unused_koopa_var_count)
  <2>1. dump # <<>> /\ Head(dump).at = "VarDef" /\ dump' = <<>> \o Tail(dump)
        /\ k_str' = k_str \o <<Alloc(x), Store(data, x)>> /\ last_ins_is_ret' = last_ins_is_ret
    BY <1>1 DEF DumpVarDef, Running, Continue
  <2>2. dump' # <<>> /\ CallShape(dump')
    BY <2>1, ShapeReturn
  <2>3. Alloc(x).op = "alloc" /\ Store(data, x).op = "store"
    BY DEF Alloc, Store, Item
  <2>4. /\ Follows(k_str[Len(k_str)], Alloc(x)) /\ Follows(Alloc(x), Store(data, x))
        /\ Store(data, x).op \notin NotOpen /\ last_ins_is_ret' = FALSE
    BY <2>1, <2>3, NotBehindReturn, FollowsRules DEF NotOpen, Resumes
  <2> QED BY <2>1, <2>2, <2>4, WritesTwo DEF CallShape
<1>2. CASE DumpElemPtr
  <2> DEFINE indices == Head(dump).indices
             it == Ins("getelemptr", Reg(unused_koopa_count),
                       <<Reg(unused_koopa_count - 1), Head(indices)>>)
  <2>1. dump # <<>> /\ Head(dump).at = "ElemPtr" /\ k_str' = Append(k_str, it)
        /\ dump' = <<ElemPtr(Tail(indices), Head(dump).exp)>> \o Tail(dump)
        /\ last_ins_is_ret' = last_ins_is_ret
    BY <1>2 DEF DumpElemPtr, Running, Continue
  <2>2. dump' # <<>> /\ CallShape(dump')
    BY <2>1, ShapeOne DEF ElemPtr, MayReturn
  <2>3. it.op \notin NotOpen \cup {"label"}
    BY DEF Ins, Item, NotOpen
  <2> QED BY <2>1, <2>2, <2>3, WritesOne DEF CallShape, Resumes
<1>3. CASE DumpStore
  <2> DEFINE it == Store(data, Head(dump).dst)
  <2>1. dump # <<>> /\ Head(dump).at = "Store" /\ k_str' = Append(k_str, it)
        /\ dump' = <<>> \o Tail(dump) /\ last_ins_is_ret' = last_ins_is_ret
    BY <1>3 DEF DumpStore, Running, Continue
  <2>2. dump' # <<>> /\ CallShape(dump')
    BY <2>1, ShapeReturn
  <2>3. it.op \notin NotOpen \cup {"label"}
    BY DEF Store, Item, NotOpen
  <2> QED BY <2>1, <2>2, <2>3, WritesOne DEF CallShape, Resumes
<1>4. CASE DumpLeaf
  <2>1. dump # <<>> /\ Head(dump).at = "Exp" /\ dump' = <<>> \o Tail(dump)
        /\ last_ins_is_ret' = last_ins_is_ret
    BY <1>4 DEF DumpLeaf, Running, Continue
  <2>2. dump' # <<>> /\ CallShape(dump')
    BY <2>1, ShapeReturn
  <2>3. CASE k_str' = k_str
    BY <2>1, <2>2, <2>3, Quiet DEF CallShape, Resumes
  <2>4. CASE k_str' # k_str
    <3> DEFINE it == Ins("ins", data', <<<<"leaf", Head(dump).exp.name>>>>)
    <3>1. k_str' = Append(k_str, it)
      BY <1>4, <2>4 DEF DumpLeaf
    <3>2. it.op \notin NotOpen \cup {"label"}
      BY DEF Ins, Item, NotOpen
    <3> QED BY <2>1, <2>2, <3>1, <3>2, WritesOne DEF CallShape, Resumes
  <2> QED BY <2>3, <2>4
<1>5. CASE DumpLogic
  <2> DEFINE temp == Temp(unused_koopa_var_count)
             e == Head(dump).exp
  <2>1. dump # <<>> /\ Head(dump).at = "Exp" /\ k_str' = Append(k_str, Alloc(temp))
        /\ dump' = <<ExpF(e.lhs), [at |-> "LogicRhs", exp |-> e, temp |-> temp]>> \o Tail(dump)
        /\ last_ins_is_ret' = last_ins_is_ret
    BY <1>5 DEF DumpLogic, Running, Continue
  <2>2. dump' # <<>> /\ CallShape(dump')
    BY <2>1, ShapeTwo DEF ExpF, MayReturn
  <2>3. Alloc(temp).op \notin NotOpen \cup {"label"}
    BY DEF Alloc, Item, NotOpen
  <2> QED BY <2>1, <2>2, <2>3, WritesOne DEF CallShape, Resumes
<1>6. CASE DumpAddress
  <2> DEFINE r == unused_koopa_count
             indices == Append(Head(dump).had, data)
             pointer == Head(dump).pointer
  <2>1. dump # <<>> /\ Head(dump).at = "Index"
        /\ k_str' = k_str \o AddressText(pointer, Head(indices), r)
        /\ dump' = <<ElemPtr(Tail(indices), Head(dump).exp)>> \o Tail(dump)
        /\ last_ins_is_ret' = last_ins_is_ret
    BY <1>6 DEF DumpAddress, Running, Continue
  <2>2. dump' # <<>> /\ CallShape(dump')
    BY <2>1, ShapeOne DEF ElemPtr, MayReturn
  <2>3. CASE pointer
    <3> DEFINE a == Ins("load", Reg(r), <<Var(0)>>)
               b == Ins("getptr", Reg(r + 1), <<Reg(r), Head(indices)>>)
    <3>1. k_str' = k_str \o <<a, b>>
      BY <2>1, <2>3 DEF AddressText
    <3>2. a.op = "load" /\ b.op = "getptr"
      BY DEF Ins, Item
    <3> HIDE DEF a, b
    <3>3. /\ Follows(k_str[Len(k_str)], a) /\ Follows(a, b)
          /\ b.op \notin NotOpen /\ last_ins_is_ret' = FALSE
      BY <2>1, <3>2, NotBehindReturn, FollowsRules DEF NotOpen, Resumes
    <3> QED BY <2>1, <2>2, <3>1, <3>3, WritesTwo DEF CallShape
  <2>4. CASE ~ pointer
    <3> DEFINE it == Ins("getelemptr", Reg(r), <<Var(0), Head(indices)>>)
    <3>1. k_str \in Seq(Items) /\ k_str' = k_str \o <<it>>
      BY <2>1, <2>4 DEF AddressText, BlockInv, TypeOK
    <3>2. it.op \notin NotOpen \cup {"label"}
      BY DEF Ins, Item, NotOpen
    <3> HIDE DEF it
    <3>3. k_str' = Append(k_str, it)
      BY <3>1
    <3> QED BY <2>1, <2>2, <3>2, <3>3, WritesOne DEF CallShape, Resumes
  <2> QED BY <2>3, <2>4
<1> QED
  BY <1>1, <1>2, <1>3, <1>4, <1>5, <1>6

LEMMA ItemOps ==
  /\ \A l : Label(l).op = "label" /\ Jump(l).op = "jump"
  /\ \A c, t, f : Br(c, t, f).op = "br"
  /\ \A args : Ret(args).op = "ret"
  /\ \A a, d : Store(a, d).op = "store"
  /\ \A op, r, args : Ins(op, r, args).op = op
  BY DEF Label, Jump, Br, Ret, Store, Ins, Item

LEMMA ShapeThree ==
  ASSUME BlockInv, dump # <<>>, Head(dump).at # "FuncEnd", NEW f, NEW g, NEW h,
         f.at # "FuncEnd", g.at # "FuncEnd", h.at # "FuncEnd",
         f.at \in MayReturn => g.at \in Resumes,
         g.at \in MayReturn => h.at \in Resumes,
         h.at \in MayReturn => Head(dump).at \in MayReturn
  PROVE  <<f, g, h>> \o Tail(dump) # <<>> /\ CallShape(<<f, g, h>> \o Tail(dump))
<1> DEFINE n == <<f, g, h>>
           F == Frames \cup {f, g, h}
<1>1. n \in Seq(F) /\ n # <<>> /\ Len(n) = 3 /\ n[1] = f /\ n[2] = g /\ n[3] = h
  OBVIOUS
<1>d. dump \in Seq(F)
  BY Widen DEF BlockInv, TypeOK
<1> HIDE DEF n, F
<1>2. /\ \A i \in 1 .. Len(n) : n[i].at # "FuncEnd"
      /\ \A i \in 1 .. Len(n) - 1 : n[i].at \in MayReturn => n[i + 1].at \in Resumes
      /\ n[Len(n)].at \in MayReturn => Head(dump).at \in MayReturn
  BY <1>1
<1>3. n \o Tail(dump) # <<>> /\ CallShape(n \o Tail(dump))
  BY <1>d, <1>1, <1>2, ShapePush DEF BlockInv
<1> QED
  BY <1>3 DEF n

LEMMA ShapeFour ==
  ASSUME BlockInv, dump # <<>>, Head(dump).at # "FuncEnd", NEW f, NEW g, NEW h, NEW k,
         f.at # "FuncEnd", g.at # "FuncEnd", h.at # "FuncEnd", k.at # "FuncEnd",
         f.at \in MayReturn => g.at \in Resumes,
         g.at \in MayReturn => h.at \in Resumes,
         h.at \in MayReturn => k.at \in Resumes,
         k.at \in MayReturn => Head(dump).at \in MayReturn
  PROVE  <<f, g, h, k>> \o Tail(dump) # <<>> /\ CallShape(<<f, g, h, k>> \o Tail(dump))
<1> DEFINE n == <<f, g, h, k>>
           F == Frames \cup {f, g, h, k}
<1>1. n \in Seq(F) /\ n # <<>> /\ Len(n) = 4 /\ n[1] = f /\ n[2] = g /\ n[3] = h /\ n[4] = k
  OBVIOUS
<1>d. dump \in Seq(F)
  BY Widen DEF BlockInv, TypeOK
<1> HIDE DEF n, F
<1>2. /\ \A i \in 1 .. Len(n) : n[i].at # "FuncEnd"
      /\ \A i \in 1 .. Len(n) - 1 : n[i].at \in MayReturn => n[i + 1].at \in Resumes
      /\ n[Len(n)].at \in MayReturn => Head(dump).at \in MayReturn
  BY <1>1
<1>3. n \o Tail(dump) # <<>> /\ CallShape(n \o Tail(dump))
  BY <1>d, <1>1, <1>2, ShapePush DEF BlockInv
<1> QED
  BY <1>3 DEF n

\* Actions that close the open block with a jump or a branch and open another one
LEMMA BlocksBranch ==
  ASSUME BlockInv,
         DumpThen \/ DumpThenElse \/ DumpWhileBody \/ DumpLoopExit \/ DumpLogicRhs
  PROVE  BlocksWellFormed' /\ EndOfText' /\ CallShape(dump)'
<1> DEFINE Branched(a, l) == /\ a.op \in {"jump", "br"}
                             /\ k_str' = k_str \o <<a, Label(l)>>
                             /\ last_ins_is_ret' = last_ins_is_ret
<1>a. ASSUME NEW a, NEW l, Branched(a, l), dump # <<>>, Head(dump).at \notin Resumes,
             dump' # <<>>
      PROVE  BlocksWellFormed' /\ EndOfText'
  <2>1. Follows(k_str[Len(k_str)], a) /\ last_ins_is_ret' = FALSE
    BY <1>a, NotBehindReturn
  <2>2. Follows(a, Label(l)) /\ Label(l).op \notin NotOpen
    BY <1>a, ItemOps, FollowsRules DEF Closers, NotOpen
  <2> QED BY <1>a, <2>1, <2>2, WritesTwo
<1> DEFINE s == Head(dump).stmt
           m == unused_koopa_label_count
<1>1. CASE DumpThen
  <2> DEFINE lt == Lab("then", m)
             le == Lab("end", m + 1)
  <2>1. /\ dump # <<>> /\ Head(dump).at = "Branch"
        /\ dump' = <<StmtF(s.stmt), Join(le, le)>> \o Tail(dump)
    BY <1>1 DEF DumpThen, Running, Continue
  <2>2. Branched(Br(data, lt, le), lt)
    BY <1>1, ItemOps DEF DumpThen
  <2>3. dump' # <<>> /\ CallShape(dump')
    BY <2>1, ShapeTwo DEF StmtF, Join, MayReturn, Resumes
  <2> HIDE DEF Branched
  <2> QED BY <1>a, <2>1, <2>2, <2>3 DEF Resumes, CallShape
<1>2. CASE DumpThenElse
  <2> DEFINE lt == Lab("then", m)
             lf == Lab("else", m + 1)
             le == Lab("end", m + 2)
  <2>1. /\ dump # <<>> /\ Head(dump).at = "Branch"
        /\ dump' = <<StmtF(s.stmt_if), Join(le, lf), StmtF(s.stmt_else), Join(le, le)>>
                   \o Tail(dump)
    BY <1>2 DEF DumpThenElse, Running, Continue
  <2>2. Branched(Br(data, lt, lf), lt)
    BY <1>2, ItemOps DEF DumpThenElse
  <2>3. dump' # <<>> /\ CallShape(dump')
    BY <2>1, ShapeFour DEF StmtF, Join, MayReturn, Resumes
  <2> HIDE DEF Branched
  <2> QED BY <1>a, <2>1, <2>2, <2>3 DEF Resumes, CallShape
<1>3. CASE DumpWhileBody
  <2> DEFINE n == Head(dump).n
             lw == Lab("while", n)
             wt == Lab("while_true", n + 1)
             wf == Lab("while_false", n + 2)
  <2>1. dump # <<>> /\ Head(dump).at = "While"
    BY <1>3 DEF DumpWhileBody, Running
  <2>2. CASE data = Imm(0)
    <3>1. Branched(Jump(wf), wf) /\ dump' = <<>> \o Tail(dump)
      BY <1>3, <2>2, ItemOps DEF DumpWhileBody, Continue
    <3>2. dump' # <<>> /\ CallShape(dump')
      BY <2>1, <3>1, ShapeReturn
    <3> HIDE DEF Branched
    <3> QED BY <1>a, <2>1, <3>1, <3>2 DEF Resumes, CallShape
  <2>3. CASE data # Imm(0)
    <3>1. /\ Branched(Br(data, wt, wf), wt)
          /\ dump' = <<StmtF(s), LoopJoin(lw, wf)>> \o Tail(dump)
      BY <1>3, <2>3, ItemOps DEF DumpWhileBody, Continue
    <3>2. dump' # <<>> /\ CallShape(dump')
      BY <2>1, <3>1, ShapeTwo DEF StmtF, LoopJoin, MayReturn, Resumes
    <3> HIDE DEF Branched
    <3> QED BY <1>a, <2>1, <3>1, <3>2 DEF Resumes, CallShape
  <2> QED BY <2>2, <2>3
<1>4. CASE DumpLoopExit
  <2> DEFINE never == Lab("while_never_access", m)
  <2>1. /\ dump # <<>> /\ Head(dump).at = "Stmt" /\ dump' = <<>> \o Tail(dump)
    BY <1>4 DEF DumpLoopExit, RunningStmt, Running, Continue
  <2>2. PICK i \in DOMAIN dump :
          k_str' = k_str \o <<Jump(IF s.tag = 7 THEN dump[i].label ELSE dump[i].to),
                              Label(never)>>
    BY <1>4 DEF DumpLoopExit
  <2>3. Branched(Jump(IF s.tag = 7 THEN dump[i].label ELSE dump[i].to), never)
    BY <1>4, <2>2, ItemOps DEF DumpLoopExit
  <2>4. dump' # <<>> /\ CallShape(dump')
    BY <2>1, ShapeReturn
  <2> HIDE DEF Branched
  <2> QED BY <1>a, <2>1, <2>3, <2>4 DEF Resumes, CallShape
<1>5. CASE DumpLogicRhs
  <2> DEFINE f == Head(dump)
             br == Br(data, Lab("then", m), Lab("else", m + 1))
  <2>1. /\ dump # <<>> /\ f.at = "LogicRhs"
        /\ dump' = <<ExpF(f.exp.rhs), [at |-> "LogicOp", tag |-> f.exp.tag, temp |-> f.temp,
                                      lhs |-> data, n |-> m]>> \o Tail(dump)
    BY <1>5 DEF DumpLogicRhs, Running, Continue
  <2>2. Branched(br, RhsLabel(f.exp.tag, m))
    BY <1>5, ItemOps DEF DumpLogicRhs
  <2>3. dump' # <<>> /\ CallShape(dump')
    BY <2>1, ShapeTwo DEF ExpF, MayReturn, Resumes
  <2> HIDE DEF Branched
  <2> QED BY <1>a, <2>1, <2>2, <2>3 DEF Resumes, CallShape
<1> QED
  BY <1>1, <1>2, <1>3, <1>4, <1>5

\* Actions that run where a return may stand, or leave one
LEMMA BlocksReturns ==
  ASSUME BlockInv, DumpBlockItem \/ DumpJoin \/ DumpWhile \/ DumpRet
  PROVE  BlocksWellFormed' /\ EndOfText' /\ CallShape(dump)'
<1>1. CASE DumpBlockItem
  <2> DEFINE items == Head(dump).items
             l == Lab("block", unused_koopa_label_count)
  <2>1. dump # <<>> /\ Head(dump).at = "Block" /\ last_ins_is_ret' = FALSE
    BY <1>1 DEF DumpBlockItem, Running
  <2>2. dump' # <<>> /\ CallShape(dump')
    <3>1. CASE Head(items).tag = 0
      <4>1. dump' = <<ExpF(Head(items).exp), [at |-> "VarDef"], BlockF(Tail(items))>>
                    \o Tail(dump)
        BY <1>1, <3>1 DEF DumpBlockItem, Continue
      <4> QED BY <2>1, <4>1, ShapeThree DEF ExpF, BlockF, MayReturn
    <3>2. CASE Head(items).tag # 0
      <4>1. dump' = <<StmtF(Head(items).stmt), BlockF(Tail(items))>> \o Tail(dump)
        BY <1>1, <3>2 DEF DumpBlockItem, Continue
      <4> QED BY <2>1, <4>1, ShapeTwo DEF StmtF, BlockF, MayReturn, Resumes
    <3> QED BY <3>1, <3>2
  <2>3. CASE last_ins_is_ret
    <3> DEFINE text == <<Label(l)>>
    <3>1. k_str' = k_str \o text /\ k_str[Len(k_str)].op = "ret"
      <4>1. k_str' = Append(k_str, Label(l))
        BY <1>1, <2>3 DEF DumpBlockItem
      <4>2. k_str \in Seq(Items \cup {Label(l)})
        BY Widen DEF BlockInv, TypeOK
      <4>3. k_str[Len(k_str)].op = "ret"
        BY <2>1, <2>3 DEF BlockInv, EndOfText
      <4> QED BY <4>1, <4>2, <4>3
    <3>2. Follows(k_str[Len(k_str)], Label(l)) /\ Label(l).op \notin NotOpen
      BY <3>1, ItemOps, FollowsRules DEF Closers, NotOpen
    <3>3. /\ text \in Seq({Label(l)}) /\ text # <<>> /\ Chained(text)
          /\ text[1] = Label(l) /\ text[Len(text)] = Label(l)
      BY ChainTuples
    <3> HIDE DEF text
    <3> QED BY <2>1, <2>2, <3>1, <3>2, <3>3, Writes DEF CallShape
  <2>4. CASE ~ last_ins_is_ret
    <3>1. k_str' = k_str
      BY <1>1, <2>4 DEF DumpBlockItem
    <3>2. k_str # <<>> /\ k_str[Len(k_str)].op \notin NotOpen
      BY <2>1, <2>4 DEF BlockInv, EndOfText, NotOpen
    <3>3. BlocksWellFormed'
      BY <3>1 DEF BlockInv, BlocksWellFormed, Chained
    <3>4. EndOfText'
      BY <2>1, <2>2, <3>1, <3>2 DEF EndOfText, NotOpen
    <3> QED BY <2>2, <3>3, <3>4 DEF CallShape
  <2> QED BY <2>3, <2>4
<1>2. CASE DumpJoin
  <2> DEFINE text == JoinText(last_ins_is_ret, Head(dump).to, Head(dump).label)
  <2>1. /\ dump # <<>> /\ Head(dump).at \in {"Join", "LoopJoin"}
        /\ dump' = <<>> \o Tail(dump) /\ k_str' = k_str \o text /\ last_ins_is_ret' = FALSE
    BY <1>2 DEF DumpJoin, Running, Continue
  <2>2. dump' # <<>> /\ CallShape(dump')
    BY <2>1, ShapeReturn
  <2>3. Head(dump).to \in Labels /\ Head(dump).label \in Labels
    BY <2>1, FrameFields DEF BlockInv, TypeOK
  <2>4. /\ text \in Seq(Items) /\ text # <<>> /\ Chained(text)
        /\ Follows(k_str[Len(k_str)], text[1]) /\ text[Len(text)].op \notin NotOpen
    BY <2>1, <2>3, JoinTextChained DEF NotOpen
  <2> HIDE DEF text
  <2> QED BY <2>1, <2>2, <2>4, Writes DEF CallShape
<1>3. CASE DumpWhile
  <2> DEFINE s == Head(dump).stmt
             lw == Lab("while", unused_koopa_label_count)
             text == JoinText(last_ins_is_ret, lw, lw)
  <2>1. /\ dump # <<>> /\ Head(dump).at = "Stmt"
        /\ k_str' = k_str \o text /\ last_ins_is_ret' = FALSE
        /\ dump' = <<ExpF(s.exp), [at |-> "While", stmt |-> s.stmt,
                                  n |-> unused_koopa_label_count]>> \o Tail(dump)
    BY <1>3 DEF DumpWhile, RunningStmt, Running, Continue
  <2>2. dump' # <<>> /\ CallShape(dump')
    BY <2>1, ShapeTwo DEF ExpF, MayReturn
  <2>3. lw \in Labels
    BY LabelType DEF BlockInv, TypeOK, LabelKinds
  <2> HIDE DEF lw
  <2>4. /\ text \in Seq(Items) /\ text # <<>> /\ Chained(text)
        /\ Follows(k_str[Len(k_str)], text[1]) /\ text[Len(text)].op \notin NotOpen
    BY <2>1, <2>3, JoinTextChained DEF NotOpen
  <2> HIDE DEF text
  <2> QED BY <2>1, <2>2, <2>4, Writes DEF CallShape
<1>4. CASE DumpRet
  <2>1. /\ dump # <<>> /\ Head(dump).at \in {"Ret", "Stmt"}
        /\ dump' = <<>> \o Tail(dump) /\ last_ins_is_ret' = TRUE
    BY <1>4 DEF DumpRet, RunningStmt, Running, Continue
  <2>2. PICK args : k_str' = Append(k_str, Ret(args))
    BY <1>4 DEF DumpRet
  <2>3. dump' # <<>> /\ CallShape(dump') /\ Head(dump').at \in Resumes
    BY <2>1, ShapeReturn DEF MayReturn
  <2> DEFINE text == <<Ret(args)>>
             F == Items \cup {Ret(args)}
  <2>4. /\ text \in Seq(F) /\ text # <<>> /\ Chained(text)
        /\ text[1] = Ret(args) /\ text[Len(text)] = Ret(args) /\ Ret(args).op = "ret"
    BY ChainTuples, ItemOps
  <2>5. k_str \in Seq(F) /\ k_str # <<>> /\ Chained(k_str) /\ k_str[1].op = "fun"
    BY <2>1, Widen DEF BlockInv, TypeOK, BlocksWellFormed, EndOfText
  <2>6. k_str' = k_str \o text
    BY <2>2, <2>5
  <2>7. Follows(k_str[Len(k_str)], text[1])
    BY <2>1, <2>4, NotBehindReturn DEF Resumes
  <2> HIDE DEF text, F
  <2>8. /\ k_str' # <<>> /\ Chained(k_str') /\ k_str'[1].op = "fun"
        /\ k_str'[Len(k_str')].op = "ret"
    BY <2>4, <2>5, <2>6, <2>7, ChainConcat
  <2>9. BlocksWellFormed'
    BY <2>8 DEF BlocksWellFormed, Chained
  <2>10. EndOfText'
    BY <2>1, <2>3, <2>8 DEF EndOfText
  <2> QED BY <2>3, <2>9, <2>10 DEF CallShape
<1> QED
  BY <1>1, <1>2, <1>3, <1>4

LEMMA BlocksLogicOp ==
  ASSUME BlockInv, DumpLogicOp
  PROVE  BlocksWellFormed' /\ EndOfText' /\ CallShape(dump)'
<1> DEFINE f == Head(dump)
           r == unused_koopa_count
           k == LogicOpRegs(f.tag)
           le == Lab("end", f.n + 2)
           ls == ShortLabel(f.tag, f.n)
           store == Store(Reg(r + k - 1), f.temp)
           tail == <<Store(ShortValue(f.tag), f.temp), Jump(le), Label(le),
                     Ins("load", Reg(r + k + 1), <<f.temp>>)>>
           compute == LogicOpText(f.tag, f.lhs, data, r)
           join == JoinText(last_ins_is_ret, le, ls)
<1>1. /\ dump # <<>> /\ f.at = "LogicOp" /\ dump' = <<>> \o Tail(dump)
      /\ last_ins_is_ret' = FALSE
      /\ k_str' = ((k_str \o compute) \o <<store>>) \o join \o tail
  BY DEF DumpLogicOp, Running, Continue
<1>2. dump' # <<>> /\ CallShape(dump')
  BY <1>1, ShapeReturn
<1>3. /\ last_ins_is_ret = FALSE /\ k_str # <<>> /\ k_str[Len(k_str)].op \notin NotOpen
      /\ k_str \in Seq(Items) /\ Chained(k_str) /\ k_str[1].op = "fun"
  BY <1>1, NotBehindReturn DEF Resumes, BlockInv, TypeOK, BlocksWellFormed
<1> DEFINE Plain(b) == b.op \in {"or", "ne", "and", "load", "store"}
<1>4. /\ \A a, b : a.op \notin NotOpen /\ Plain(b) => Follows(a, b)
      /\ \A b : Plain(b) => b.op \notin NotOpen
  BY FollowsRules DEF NotOpen
<1>t. /\ compute \in Seq(Items) /\ <<store>> \in Seq(Items)
      /\ join \in Seq(Items) /\ tail \in Seq(Items)
  BY <1>1, LogicOpItems DEF BlockInv
<1>5. /\ compute # <<>> /\ Chained(compute)
      /\ Plain(compute[1]) /\ Plain(compute[Len(compute)])
  <2>1. \A a, b : Plain(a) /\ Plain(b) => Follows(a, b)
    BY <1>4
  <2>2. \A op \in {"or", "ne", "and"} : \A x, args : Plain(Ins(op, x, args))
    BY ItemOps
  <2> HIDE DEF Plain
  <2>3. CASE f.tag = "lor"
    BY <2>1, <2>2, <2>3, ChainTuples DEF LogicOpText
  <2>4. CASE f.tag # "lor"
    BY <2>1, <2>2, <2>4, ChainTuples DEF LogicOpText
  <2> QED BY <2>3, <2>4
<1>6. Plain(store) /\ Chained(<<store>>)
  BY ItemOps, ChainTuples
<1>7. join = <<Jump(le), Label(ls)>> /\ Chained(join)
  <2>1. Follows(Jump(le), Label(ls))
    BY ItemOps, FollowsRules DEF Closers
  <2> QED BY <1>3, <2>1, ChainTuples DEF JoinText
<1>8. /\ Chained(tail) /\ tail # <<>> /\ Plain(tail[1]) /\ Plain(tail[Len(tail)])
  <2> DEFINE a == Store(ShortValue(f.tag), f.temp)
             e == Ins("load", Reg(r + k + 1), <<f.temp>>)
  <2>1. Plain(a) /\ Plain(e)
    BY ItemOps
  <2>2. Follows(a, Jump(le)) /\ Follows(Jump(le), Label(le)) /\ Follows(Label(le), e)
    BY ItemOps, FollowsRules DEF Closers, NotOpen
  <2> HIDE DEF a, e, Plain
  <2>3. Chained(<<a, Jump(le), Label(le), e>>)
    BY <2>2, ChainTuples
  <2> QED BY <2>1, <2>3 DEF a, e
<1> HIDE DEF Plain, store, tail, compute, join
<1> DEFINE k1 == k_str \o compute
           k2 == k1 \o <<store>>
           k3 == k2 \o join
           k4 == k3 \o tail
<1>9. /\ k1 \in Seq(Items) /\ k1 # <<>> /\ Chained(k1) /\ k1[1] = k_str[1]
      /\ Plain(k1[Len(k1)])
  <2>1. Follows(k_str[Len(k_str)], compute[1])
    BY <1>3, <1>4, <1>5
  <2> QED BY <1>t, <1>3, <1>5, <2>1, ChainConcat
<1>10. /\ k2 \in Seq(Items) /\ k2 # <<>> /\ Chained(k2) /\ k2[1] = k_str[1]
       /\ k2[Len(k2)] = store
  <2>1. Follows(k1[Len(k1)], store)
    BY <1>4, <1>6, <1>9
  <2> DEFINE one == <<store>>
  <2>2. /\ one \in Seq(Items) /\ Chained(one) /\ one # <<>>
        /\ one[1] = store /\ one[Len(one)] = store
    BY <1>t, <1>6
  <2> HIDE DEF k1, one
  <2>3. /\ k1 \o one \in Seq(Items) /\ k1 \o one # <<>> /\ Chained(k1 \o one)
        /\ (k1 \o one)[1] = k1[1] /\ (k1 \o one)[Len(k1 \o one)] = one[Len(one)]
    BY <1>9, <2>1, <2>2, ChainConcat
  <2> QED BY <1>9, <2>2, <2>3 DEF one
<1>11. /\ k3 \in Seq(Items) /\ k3 # <<>> /\ Chained(k3) /\ k3[1] = k_str[1]
       /\ k3[Len(k3)] = Label(ls)
  <2>1. Follows(k2[Len(k2)], Jump(le))
    BY <1>4, <1>6, <1>10, ItemOps, FollowsRules
  <2>2. /\ join # <<>> /\ join[1] = Jump(le) /\ join[Len(join)] = Label(ls)
        /\ Chained(join)
    BY <1>7
  <2> HIDE DEF k2
  <2>3. Follows(k2[Len(k2)], join[1])
    BY <2>1, <2>2
  <2> QED BY <1>t, <1>10, <2>2, <2>3, ChainConcat
<1>12. /\ k4 \in Seq(Items) /\ k4 # <<>> /\ Chained(k4) /\ k4[1] = k_str[1]
       /\ Plain(k4[Len(k4)])
  <2>1. Follows(k3[Len(k3)], tail[1])
    <3>1. Label(ls).op \notin NotOpen
      BY ItemOps DEF NotOpen
    <3> QED BY <1>4, <1>8, <1>11, <3>1
  <2> HIDE DEF k3
  <2> QED BY <1>t, <1>8, <1>11, <2>1, ChainConcat
<1>13. k_str' = k4
  BY <1>1, <1>t, <1>3
<1> HIDE DEF k4
<1>14. BlocksWellFormed'
  BY <1>3, <1>12, <1>13 DEF BlocksWellFormed, Chained
<1>15. EndOfText'
  BY <1>1, <1>2, <1>4, <1>12, <1>13 DEF EndOfText, NotOpen
<1> QED
  BY <1>2, <1>14, <1>15 DEF CallShape

LEMMA BlockInit ==
  Init => BlockInv
<1> SUFFICES ASSUME Init PROVE BlockInv
  OBVIOUS
<1>1. dump = <<>> /\ k_str = <<>>
  BY DEF Init
<1>2. BlocksWellFormed /\ EndOfText /\ CallShape(dump)
  BY <1>1, ChainTuples DEF BlocksWellFormed, EndOfText, CallShape
<1> QED
  BY <1>2, TypeInit DEF BlockInv

LEMMA BlockNext ==
  BlockInv /\ [Next]_vars => BlockInv'
<1> SUFFICES ASSUME BlockInv, [Next]_vars PROVE BlockInv'
  OBVIOUS
<1>1. TypeOK'
  BY TypeNext DEF BlockInv
<1>2. BlocksWellFormed' /\ EndOfText' /\ CallShape(dump)'
  <2>1. CASE Finish \/ UNCHANGED vars
    BY <2>1 DEF BlockInv, Finish, vars, BlocksWellFormed, EndOfText, Chained, CallShape
  <2>2. CASE Next /\ ~ Finish
    BY <2>2, BlocksFunctions, BlocksQuiet, BlocksPlain, BlocksBranch, BlocksReturns,
       BlocksLogicOp DEF Next
  <2> QED BY <2>1, <2>2
<1> QED
  BY <1>1, <1>2 DEF BlockInv

\* Whatever the program, k_str is at every moment of the lowering a prefix of
\* well-formed Koopa: no block without a terminator, no instruction behind one.
THEOREM WellFormedText ==
  Spec => []BlocksWellFormed
<1>1. BlockInv => BlocksWellFormed
  BY DEF BlockInv
<1> QED
  BY BlockInit, BlockNext, <1>1, PTL DEF Spec

\* Whatever the program, last_ins_is_ret tells truly whether the text of an
\* unfinished function ends in a return.
THEOREM FlagExact ==
  Spec => []RetFlagExact
<1>1. BlockInv => RetFlagExact
  BY DEF BlockInv, EndOfText, RetFlagExact, TypeOK
<1> QED
  BY BlockInit, BlockNext, <1>1, PTL DEF Spec
-----------------------------------------------------------------------------
(* Elements.  DumpElemPtr and DumpElem go on from the last register given    *)
(* out.  It is that of the item written last, since no other call runs while *)
(* an address is being written.                                              *)

NoElem(d) == \A i \in 1 .. Len(d) : d[i].at # "ElemPtr"

ElemInv ==
  /\ \A i \in 2 .. Len(dump) : dump[i].at # "ElemPtr"
  /\ dump # <<>> /\ dump[1].at = "ElemPtr" =>
       /\ k_str # <<>> /\ unused_koopa_count > 0
       /\ k_str[Len(k_str)].dst = Reg(unused_koopa_count - 1)

\* Calls behind which nothing is left of an address.
LEMMA ElemKeep ==
  ASSUME NEW F, NEW d \in Seq(F), d # <<>>, \A i \in 2 .. Len(d) : d[i].at # "ElemPtr",
         NEW n \in Seq(F), NoElem(n)
  PROVE  NoElem(n \o Tail(d))
<1> PICK e, r : e = n \o Tail(d) /\ r = Tail(d)
  OBVIOUS
<1>1. /\ r \in Seq(F) /\ Len(r) = Len(d) - 1 /\ \A i \in 1 .. Len(r) : r[i] = d[i + 1]
      /\ Len(d) \in Nat /\ Len(n) \in Nat
  OBVIOUS
<1>2. /\ Len(e) = Len(n) + Len(r) /\ \A i \in 1 .. Len(n) : e[i] = n[i]
      /\ \A i \in Len(n) + 1 .. Len(e) : e[i] = r[i - Len(n)]
  BY <1>1
<1>3. ASSUME NEW i \in 1 .. Len(e) PROVE e[i].at # "ElemPtr"
  <2>1. CASE i \in 1 .. Len(n)
    BY <1>2, <2>1 DEF NoElem
  <2>2. CASE i \notin 1 .. Len(n)
    <3>1. /\ e[i] = r[i - Len(n)] /\ i - Len(n) \in 1 .. Len(r)
          /\ i - Len(n) + 1 \in 2 .. Len(d)
      BY <1>1, <1>2, <2>2
    <3> QED BY <1>1, <3>1
  <2> QED BY <2>1, <2>2
<1> QED BY <1>3 DEF NoElem

LEMMA ElemBelow ==
  ASSUME TypeOK, ElemInv, dump # <<>>, NEW G, NEW n \in Seq(G), NoElem(n)
  PROVE  NoElem(n \o Tail(dump))
<1>1. dump \in Seq(Frames \cup G) /\ n \in Seq(Frames \cup G)
  BY Widen DEF TypeOK
<1> QED BY <1>1, ElemKeep DEF ElemInv

LEMMA ElemCalls ==
  ASSUME TypeOK, ElemInv, dump # <<>>
  PROVE  /\ NoElem(<<>> \o Tail(dump))
         /\ \A f : f.at # "ElemPtr" => NoElem(<<f>> \o Tail(dump))
         /\ \A f, g : f.at # "ElemPtr" /\ g.at # "ElemPtr" => NoElem(<<f, g>> \o Tail(dump))
         /\ \A f, g, h : f.at # "ElemPtr" /\ g.at # "ElemPtr" /\ h.at # "ElemPtr" =>
                         NoElem(<<f, g, h>> \o Tail(dump))
         /\ \A f, g, h, j : f.at # "ElemPtr" /\ g.at # "ElemPtr" /\ h.at # "ElemPtr"
                              /\ j.at # "ElemPtr" => NoElem(<<f, g, h, j>> \o Tail(dump))
<1>1. ASSUME NEW G, NEW n \in Seq(G), NoElem(n) PROVE NoElem(n \o Tail(dump))
  BY <1>1, ElemBelow
<1>2. NoElem(<<>> \o Tail(dump))
  <2>1. NoElem(<<>>) /\ <<>> \in Seq({})
    BY DEF NoElem
  <2> QED BY <1>1, <2>1
<1>3. ASSUME NEW f, f.at # "ElemPtr" PROVE NoElem(<<f>> \o Tail(dump))
  <2>1. <<f>> \in Seq({f}) /\ NoElem(<<f>>)
    BY <1>3 DEF NoElem
  <2> QED BY <1>1, <2>1
<1>4. ASSUME NEW f, NEW g, f.at # "ElemPtr", g.at # "ElemPtr" PROVE NoElem(<<f, g>> \o Tail(dump))
  <2>1. <<f, g>> \in Seq({f, g}) /\ NoElem(<<f, g>>)
    BY <1>4 DEF NoElem
  <2> QED BY <1>1, <2>1
<1>5. ASSUME NEW f, NEW g, NEW h, f.at # "ElemPtr", g.at # "ElemPtr", h.at # "ElemPtr"
      PROVE  NoElem(<<f, g, h>> \o Tail(dump))
  <2>1. <<f, g, h>> \in Seq({f, g, h}) /\ NoElem(<<f, g, h>>)
    BY <1>5 DEF NoElem
  <2> QED BY <1>1, <2>1
<1>6. ASSUME NEW f, NEW g, NEW h, NEW j,
             f.at # "ElemPtr", g.at # "ElemPtr", h.at # "ElemPtr", j.at # "ElemPtr"
      PROVE  NoElem(<<f, g, h, j>> \o Tail(dump))
  <2>1. <<f, g, h, j>> \in Seq({f, g, h, j}) /\ NoElem(<<f, g, h, j>>)
    BY <1>6 DEF NoElem
  <2> QED BY <1>1, <2>1
<1> QED BY <1>2, <1>3, <1>4, <1>5, <1>6

\* The handlers that write no address leave none behind them.
LEMMA ElemOthers ==
  ASSUME TypeOK, ElemInv, Next, ~ Finish, ~ DumpAddress, ~ DumpElemPtr
  PROVE  NoElem(dump')
<1>1. CASE DumpFuncDef
  <2>1. dump' = <<BlockF(Head(unit)), [at |-> "FuncEnd"]>>
    BY <1>1 DEF DumpFuncDef
  <2> QED BY <2>1 DEF NoElem, BlockF
<1>2. ASSUME dump # <<>>,
             \/ DumpFuncEnd \/ DumpBlockEnd \/ DumpVarDef \/ DumpStore \/ DumpJoin
             \/ DumpLoopExit \/ DumpRet \/ DumpLeaf \/ DumpLogicOp
      PROVE  NoElem(dump')
  <2>1. dump' = <<>> \o Tail(dump)
    BY <1>2 DEF DumpFuncEnd, DumpBlockEnd, DumpVarDef, DumpStore, DumpJoin, DumpLoopExit,
                DumpRet, DumpLeaf, DumpLogicOp, Continue
  <2> QED BY <1>2, <2>1, ElemCalls
<1>3. ASSUME dump # <<>>, DumpAssign \/ DumpIndex \/ DumpElem \/ DumpIf \/ DumpReturn
      PROVE  NoElem(dump')
  <2>1. \E f, g : f.at # "ElemPtr" /\ g.at # "ElemPtr" /\ dump' = <<f, g>> \o Tail(dump)
    <3>1. /\ \A e : ExpF(e).at # "ElemPtr" /\ \A a, b, c : Index(a, b, c).at # "ElemPtr"
          /\ \A d : [at |-> "Store", dst |-> d].at # "ElemPtr"
          /\ \A d : [at |-> "Branch", stmt |-> d].at # "ElemPtr"
          /\ [at |-> "Ret"].at # "ElemPtr"
      BY DEF ExpF, Index
    <3>2. CASE DumpAssign
      BY <3>1, <3>2, Zenon DEF DumpAssign, Continue
    <3>3. CASE DumpIndex
      BY <3>1, <3>3, Zenon DEF DumpIndex, Continue
    <3>4. CASE DumpElem
      BY <3>1, <3>4, Zenon DEF DumpElem, Continue
    <3>5. CASE DumpIf
      BY <3>1, <3>5, Zenon DEF DumpIf, Continue
    <3>6. CASE DumpReturn
      BY <3>1, <3>6, Zenon DEF DumpReturn, Continue
    <3> QED BY <1>3, <3>2, <3>3, <3>4, <3>5, <3>6
  <2> QED BY <1>3, <2>1, ElemCalls
<1>4. ASSUME dump # <<>>, DumpThen \/ DumpThenElse \/ DumpWhile \/ DumpWhileBody
      PROVE  NoElem(dump')
  <2>1. /\ \A x : ExpF(x).at # "ElemPtr" /\ StmtF(x).at # "ElemPtr"
        /\ \A x, y : Join(x, y).at # "ElemPtr" /\ LoopJoin(x, y).at # "ElemPtr"
        /\ \A x, y : [at |-> "While", stmt |-> x, n |-> y].at # "ElemPtr"
    BY DEF ExpF, StmtF, Join, LoopJoin
  <2>2. CASE DumpThen
    BY <1>4, <2>1, <2>2, ElemCalls, Zenon DEF DumpThen, Continue
  <2>3. CASE DumpThenElse
    BY <1>4, <2>1, <2>3, ElemCalls, Zenon DEF DumpThenElse, Continue
  <2>4. CASE DumpWhile
    BY <1>4, <2>1, <2>4, ElemCalls, Zenon DEF DumpWhile, Continue
  <2>5. CASE DumpWhileBody
    BY <1>4, <2>1, <2>5, ElemCalls, Zenon DEF DumpWhileBody, Continue
  <2> QED BY <1>4, <2>2, <2>3, <2>4, <2>5
<1>5. ASSUME dump # <<>>, DumpNested \/ DumpLogic \/ DumpLogicRhs PROVE NoElem(dump')
  <2>1. /\ \A x : ExpF(x).at # "ElemPtr" /\ BlockF(x).at # "ElemPtr"
        /\ \A x, y : [at |-> "LogicRhs", exp |-> x, temp |-> y].at # "ElemPtr"
        /\ \A a, b, c, d : [at |-> "LogicOp", tag |-> a, temp |-> b, lhs |-> c, n |-> d].at
                             # "ElemPtr"
    BY DEF ExpF, BlockF
  <2>2. CASE DumpNested
    BY <1>5, <2>1, <2>2, ElemCalls, Zenon DEF DumpNested, Continue
  <2>3. CASE DumpLogic
    BY <1>5, <2>1, <2>3, ElemCalls, Zenon DEF DumpLogic, Continue
  <2>4. CASE DumpLogicRhs
    BY <1>5, <2>1, <2>4, ElemCalls, Zenon DEF DumpLogicRhs, Continue
  <2> QED BY <1>5, <2>2, <2>3, <2>4
<1>6. ASSUME dump # <<>>, DumpBlockItem PROVE NoElem(dump')
  <2> PICK items : items = Head(dump).items
    OBVIOUS
  <2> PICK u, v : /\ u = IF Head(items).tag = 0 THEN <<ExpF(Head(items).exp), [at |-> "VarDef"]>>
                        ELSE <<StmtF(Head(items).stmt)>>
                  /\ v = <<BlockF(Tail(items))>>
    OBVIOUS
  <2>1. dump' = (u \o v) \o Tail(dump)
    BY <1>6 DEF DumpBlockItem, Continue
  <2> PICK G : G = {ExpF(Head(items).exp), [at |-> "VarDef"], StmtF(Head(items).stmt), BlockF(Tail(items))}
    OBVIOUS
  <2>2. \A x \in G : x.at # "ElemPtr"
    BY DEF ExpF, BlockF, StmtF
  <2>3. u \in Seq(G) /\ v \in Seq(G)
    <3>1. /\ ExpF(Head(items).exp) \in G /\ [at |-> "VarDef"] \in G
          /\ StmtF(Head(items).stmt) \in G /\ BlockF(Tail(items)) \in G
      OBVIOUS
    <3> QED BY <3>1, Tuples, ZenonT(40)
  <2>4. u \o v \in Seq(G)
    BY <2>3
  <2>5. NoElem(u \o v)
    BY <2>2, <2>4 DEF NoElem
  <2> QED BY <1>6, <2>1, <2>4, <2>5, ElemBelow
<1>7. DumpFuncDef \/ dump # <<>>
  <2>1. dump = <<>> => ~ Running("FuncEnd") /\ \A at : ~ Running(at)
    BY DEF Running
  <2> QED BY <2>1, Zenon
      DEF Next, DumpFuncEnd, DumpBlockItem, DumpBlockEnd, DumpVarDef, DumpAssign, DumpIndex,
          DumpElem, DumpStore, DumpNested, DumpIf, DumpThen, DumpThenElse, DumpJoin, DumpWhile,
          DumpWhileBody, DumpLoopExit, DumpReturn, DumpRet, DumpLeaf, DumpLogic, DumpLogicRhs,
          DumpLogicOp, RunningStmt
<1> QED BY <1>1, <1>2, <1>3, <1>4, <1>5, <1>6, <1>7 DEF Next

\* Behind an address there is nothing but a call that goes on from its register.
LEMMA ElemOnly ==
  ASSUME TypeOK, ElemInv, dump # <<>>, NEW indices, NEW exp,
         dump' = <<ElemPtr(indices, exp)>> \o Tail(dump)
  PROVE  \A i \in 2 .. Len(dump') : dump'[i].at # "ElemPtr"
<1> PICK F, n : F = Frames \cup {ElemPtr(indices, exp)} /\ n = <<ElemPtr(indices, exp)>>
  OBVIOUS
<1>1. dump \in Seq(F) /\ n \in Seq(F) /\ Len(n) = 1
  <2>1. ElemPtr(indices, exp) \in F
    OBVIOUS
  <2> QED BY <2>1, Widen DEF TypeOK
<1>2. ASSUME NEW d \in Seq(F), d # <<>>
      PROVE  /\ Len(n \o Tail(d)) = Len(d)
             /\ \A i \in 2 .. Len(d) : (n \o Tail(d))[i] = d[i]
  BY <1>1, <1>2
<1>3. Len(dump') = Len(dump) /\ \A i \in 2 .. Len(dump) : dump'[i] = dump[i]
  BY <1>1, <1>2
<1> QED BY <1>3 DEF ElemInv

LEMMA LastItem ==
  ASSUME NEW F, NEW k \in Seq(F), NEW t \in Seq(F), t # <<>>
  PROVE  k \o t # <<>> /\ (k \o t)[Len(k \o t)] = t[Len(t)]
<1>1. /\ Len(k \o t) = Len(k) + Len(t) /\ Len(k) \in Nat /\ Len(t) \in Nat /\ Len(t) > 0
      /\ \A i \in 1 .. Len(k) + Len(t) : (k \o t)[i] = IF i <= Len(k) THEN k[i] ELSE t[i - Len(k)]
  BY ConcatProperties
<1>2. /\ Len(k) + Len(t) \in 1 .. Len(k) + Len(t) /\ ~ (Len(k) + Len(t) <= Len(k))
      /\ Len(k) + Len(t) - Len(k) = Len(t)
  BY <1>1
<1> QED BY <1>1, <1>2

LEMMA ElemNext ==
  ASSUME TypeOK, ElemInv, [Next]_vars PROVE ElemInv'
<1>1. CASE Finish \/ UNCHANGED vars
  BY <1>1 DEF Finish, vars, counts, ElemInv
<1>2. CASE Next /\ ~ Finish /\ ~ DumpAddress /\ ~ DumpElemPtr
  <2>1. NoElem(dump')
    BY <1>2, ElemOthers
  <2>2. TypeOK'
    BY TypeNext
  <2>3. /\ \A i \in 2 .. Len(dump') : i \in 1 .. Len(dump')
        /\ dump' # <<>> => 1 \in 1 .. Len(dump')
    BY <2>2 DEF TypeOK
  <2> QED BY <2>1, <2>3 DEF ElemInv, NoElem
<1>3. CASE DumpAddress
  <2> PICK r, f, index : r = unused_koopa_count /\ f = Head(dump) /\ index = Head(Append(f.had, data))
    OBVIOUS
  <2>1. /\ dump # <<>> /\ dump' = <<ElemPtr(Tail(Append(f.had, data)), f.exp)>> \o Tail(dump)
        /\ k_str' = k_str \o AddressText(f.pointer, index, r)
        /\ unused_koopa_count' = r + AddressRegs(f.pointer)
    BY <1>3 DEF DumpAddress, Running, Continue
  <2>2. r \in Nat /\ k_str \in Seq(Items)
    BY DEF TypeOK
  <2>3. /\ k_str' # <<>> /\ unused_koopa_count' > 0
        /\ k_str'[Len(k_str')].dst = Reg(unused_koopa_count' - 1)
    <3> PICK t : t = AddressText(f.pointer, index, r)
      OBVIOUS
    <3>0. k_str' = k_str \o t
      BY <2>1
    <3>1. \E S : t \in Seq(S) /\ t # <<>> /\ t[Len(t)].dst = Reg(unused_koopa_count' - 1)
      <4>1. CASE f.pointer
        <5> PICK a, b : /\ a = Ins("load", Reg(r), <<Var(0)>>)
                        /\ b = Ins("getptr", Reg(r + 1), <<Reg(r), index>>)
          OBVIOUS
        <5>1. t = <<a, b>> /\ unused_koopa_count' = r + 2 /\ b.dst = Reg(r + 1)
          BY <2>1, <4>1 DEF AddressText, AddressRegs, Ins, Item
        <5>2. t \in Seq({a, b}) /\ t # <<>> /\ t[Len(t)] = b
          BY ONLY <5>1
        <5>3. unused_koopa_count' - 1 = r + 1
          BY <2>2, <5>1
        <5> QED BY <5>1, <5>2, <5>3
      <4>2. CASE ~ f.pointer
        <5> PICK a : a = Ins("getelemptr", Reg(r), <<Var(0), index>>)
          OBVIOUS
        <5>1. t = <<a>> /\ unused_koopa_count' = r + 1 /\ a.dst = Reg(r)
          BY <2>1, <4>2 DEF AddressText, AddressRegs, Ins, Item
        <5>2. t \in Seq({a}) /\ t # <<>> /\ t[Len(t)] = a
          BY ONLY <5>1
        <5>3. unused_koopa_count' - 1 = r
          BY <2>2, <5>1
        <5> QED BY <5>1, <5>2, <5>3
      <4> QED BY <4>1, <4>2
    <3> PICK S : t \in Seq(S) /\ t # <<>> /\ t[Len(t)].dst = Reg(unused_koopa_count' - 1)
      BY <3>1
    <3>2. k_str \in Seq(Items \cup S) /\ t \in Seq(Items \cup S)
      BY ONLY <2>2, <3>1, t \in Seq(S), Widen
    <3>3. k_str' # <<>> /\ k_str'[Len(k_str')] = t[Len(t)]
      <4>1. k_str \o t # <<>> /\ (k_str \o t)[Len(k_str \o t)] = t[Len(t)]
        BY ONLY <3>2, t # <<>>, LastItem
      <4>2. ASSUME NEW k, k = k_str \o t PROVE k # <<>> /\ k[Len(k)] = t[Len(t)]
        BY <4>1, <4>2
      <4> QED BY <3>0, <4>2
    <3>4. unused_koopa_count' > 0
      <4> PICK m : m = AddressRegs(f.pointer)
        OBVIOUS
      <4>1. m \in {1, 2}
        BY DEF AddressRegs
      <4>2. unused_koopa_count' = r + m
        BY <2>1
      <4> QED BY ONLY <2>2, <4>1, <4>2
    <3> QED BY <3>3, <3>4
  <2> QED BY <2>1, <2>3, ElemOnly DEF ElemInv
<1>4. CASE DumpElemPtr
  <2> PICK r, a : /\ r = unused_koopa_count
                  /\ a = Ins("getelemptr", Reg(r), <<Reg(r - 1), Head(Head(dump).indices)>>)
    OBVIOUS
  <2>1. /\ dump # <<>>
        /\ dump' = <<ElemPtr(Tail(Head(dump).indices), Head(dump).exp)>> \o Tail(dump)
        /\ k_str' = Append(k_str, a) /\ unused_koopa_count' = r + 1 /\ a.dst = Reg(r)
    BY <1>4 DEF DumpElemPtr, Running, Continue, Ins, Item
  <2>2. r \in Nat /\ k_str \in Seq(Items \cup {a})
    BY Widen DEF TypeOK
  <2>3. k_str' # <<>> /\ k_str'[Len(k_str')] = a
    BY <2>1, <2>2
  <2>4. unused_koopa_count' > 0 /\ unused_koopa_count' - 1 = r
    BY <2>1, <2>2
  <2> QED BY <2>1, <2>3, <2>4, ElemOnly DEF ElemInv
<1> QED BY <1>1, <1>2, <1>3, <1>4
-----------------------------------------------------------------------------
(***************************************************************************)
(* Names.  An item writes a name if it is a label, Entry apart, or if it   *)
(* defines a register or a temporary.                                      *)
(***************************************************************************)
Names(k) == {i \in 1 .. Len(k) : IF k[i].op = "label" THEN k[i].dst # Entry ELSE IsLocal(k[i].dst)}

\* The names that the counters have given out.
Spent(regs, temps, labels) ==
  ({"%"} \X (0 .. regs - 1)) \cup ({"%temp_l_result"} \X (0 .. temps - 1))
    \cup ((LabelKinds \ {"entry"}) \X (0 .. labels - 1))

\* The labels that an active call has numbered and will write.
Reserved(f) ==
  CASE f.at \in {"Join", "LoopJoin"} -> {f.label}
    [] f.at = "While" -> {Lab("while_true", f.n + 1), Lab("while_false", f.n + 2)}
    [] f.at = "LogicOp" -> {ShortLabel(f.tag, f.n), Lab("end", f.n + 2)}
    [] OTHER -> {}

\* The names of S suffice for the text k and the calls d: none is taken twice.
Fits(k, d, S) ==
  /\ \A i \in Names(k) : k[i].dst \in S /\ \A j \in Names(k) : j # i => k[j].dst # k[i].dst
  /\ \A i \in 1 .. Len(d) :
       /\ Reserved(d[i]) \subseteq S
       /\ \A j \in Names(k) : k[j].dst \notin Reserved(d[i])
       /\ \A j \in 1 .. Len(d) : j # i => Reserved(d[i]) \cap Reserved(d[j]) = {}

(***************************************************************************)
(* Functions.  The function that is being written begins at its fun item.  *)
(***************************************************************************)
Starts(k, s) == s \in 1 .. Len(k) /\ k[s].op = "fun" /\ \A j \in s + 1 .. Len(k) : k[j].op # "fun"

WrittenIn(k, s) == {k[i].dst : i \in {j \in s .. Len(k) : k[j].op = "label"}}
Defined(k, s) == {k[i].dst : i \in s .. Len(k)}

\* The labels that a jump may rely on: a while writes both or only one of its
\* labels, but jumps to neither before.
Owes(f) == IF f.at = "While" THEN {} ELSE Reserved(f)
Promised(d) == UNION {Owes(d[i]) : i \in 1 .. Len(d)}

\* The labels that an active call will jump to, its own apart.
Aims(f) ==
  CASE f.at \in {"Join", "LoopJoin"} -> {f.to}
    [] f.at = "While" -> {Lab("while", f.n)}
    [] OTHER -> {}

Lands(k, s, d) ==
  LET known == WrittenIn(k, s) \cup Promised(d)
  IN  /\ \A i \in s .. Len(k) : Range(k[i].to) \subseteq known
      /\ \A i \in 1 .. Len(d) : Aims(d[i]) \subseteq known

\* The operands that an active call keeps.
Holds(f) ==
  CASE f.at = "Store" -> {f.dst}
    [] f.at = "Index" -> Range(f.had)
    [] f.at = "ElemPtr" -> Range(f.indices)
    [] f.at = "LogicRhs" -> {f.temp}
    [] f.at = "LogicOp" -> {f.temp, f.lhs}
    [] OTHER -> {}

Backed(a, k, s) == IsLocal(a) => a \in Defined(k, s)
Used(k, s) == \A i \in s .. Len(k) : \A a \in Range(k[i].args) :
                 IsLocal(a) => \E j \in s .. i - 1 : k[j].dst = a

\* The calls that read data run directly after the call that returns it.
Readers == {"VarDef", "Store", "Index", "Branch", "While", "Ret", "LogicRhs", "LogicOp"}
Returners == {"Exp", "LogicRhs", "LogicOp"}
Ready(k, s, d, operand) ==
  /\ \A i \in 1 .. Len(d) : \A a \in Holds(d[i]) : Backed(a, k, s)
  /\ \A i \in 1 .. Len(d) - 1 : d[i + 1].at \in Readers => d[i].at \in Returners
  /\ d # <<>> /\ d[1].at \in Readers => Backed(operand, k, s)

\* What the invariant says of the text k, the function in it that begins at s,
\* the calls d and the operand that the last of them returned.
Numbered(k, d, regs, temps, labels) == Fits(k, d, Spent(regs, temps, labels))
Sound(k, s, d, operand) == Starts(k, s) /\ Lands(k, s, d) /\ Used(k, s) /\ Ready(k, s, d, operand)

Begun == FunctionStart(k_str)
TextInv ==
  /\ BlockInv
  /\ Numbered(k_str, dump, unused_koopa_count, unused_koopa_var_count, unused_koopa_label_count)
  /\ k_str # <<>> => Sound(k_str, Begun, dump, data)
  /\ ElemInv
-----------------------------------------------------------------------------
(* Text behind text, calls in the place of a call *)

LEMMA Behind ==
  ASSUME NEW k \in Seq(Items), NEW t \in Seq(Items)
  PROVE  /\ k \o t \in Seq(Items) /\ Len(k \o t) = Len(k) + Len(t)
         /\ Len(k) \in Nat /\ Len(t) \in Nat
         /\ \A i \in 1 .. Len(k) : (k \o t)[i] = k[i]
         /\ \A i \in 1 .. Len(t) : (k \o t)[Len(k) + i] = t[i]
         /\ \A i \in 1 .. Len(k \o t) : i \in 1 .. Len(k) \/ \E j \in 1 .. Len(t) : i = Len(k) + j
<1>1. /\ k \o t \in Seq(Items) /\ Len(k \o t) = Len(k) + Len(t)
      /\ Len(k) \in Nat /\ Len(t) \in Nat
      /\ \A i \in 1 .. Len(k) + Len(t) : (k \o t)[i] = IF i <= Len(k) THEN k[i] ELSE t[i - Len(k)]
  BY ConcatProperties
<1>2. ASSUME NEW i \in 1 .. Len(t) PROVE (k \o t)[Len(k) + i] = t[i]
  <2>1. Len(k) + i \in 1 .. Len(k) + Len(t) /\ ~ (Len(k) + i <= Len(k)) /\ Len(k) + i - Len(k) = i
    BY <1>1
  <2> QED BY <1>1, <2>1
<1>3. ASSUME NEW i \in 1 .. Len(k \o t), i \notin 1 .. Len(k)
      PROVE  \E j \in 1 .. Len(t) : i = Len(k) + j
  <2>1. i - Len(k) \in 1 .. Len(t) /\ i = Len(k) + (i - Len(k))
    BY <1>1, <1>3
  <2> QED BY <2>1
<1>4. \A i \in 1 .. Len(k) : (k \o t)[i] = k[i]
  <2> SUFFICES ASSUME NEW i \in 1 .. Len(k) PROVE (k \o t)[i] = k[i]
    OBVIOUS
  <2>1. i \in 1 .. Len(k) + Len(t) /\ i <= Len(k)
    BY <1>1
  <2> QED BY <1>1, <2>1
<1>5. \A i \in 1 .. Len(t) : (k \o t)[Len(k) + i] = t[i]
  BY <1>2, Zenon
<1>6. \A i \in 1 .. Len(k \o t) : i \in 1 .. Len(k) \/ \E j \in 1 .. Len(t) : i = Len(k) + j
  BY <1>3, Zenon
<1> QED BY <1>1, <1>4, <1>5, <1>6, Zenon

\* The calls n take the place of the call d[1].
LEMMA Instead ==
  ASSUME NEW d \in Seq(Frames), d # <<>>, NEW n \in Seq(Frames)
  PROVE  LET e == n \o Tail(d)
         IN  /\ e \in Seq(Frames) /\ Len(e) = Len(n) + Len(d) - 1 /\ Head(d) = d[1]
             /\ Len(d) \in Nat /\ Len(n) \in Nat /\ Len(d) > 0
             /\ \A i \in 1 .. Len(n) : e[i] = n[i]
             /\ \A i \in 2 .. Len(d) : e[Len(n) + i - 1] = d[i]
             /\ \A i \in 1 .. Len(e) :
                  i \in 1 .. Len(n) \/ \E j \in 2 .. Len(d) : i = Len(n) + j - 1
<1> DEFINE r == Tail(d)
           e == n \o r
<1>1. /\ r \in Seq(Frames) /\ Len(r) = Len(d) - 1 /\ \A i \in 1 .. Len(r) : r[i] = d[i + 1]
      /\ Head(d) = d[1] /\ Len(d) \in Nat /\ Len(d) > 0
  BY HeadTailProperties
<1> HIDE DEF r
<1>2. /\ e \in Seq(Frames) /\ Len(e) = Len(n) + Len(r) /\ Len(n) \in Nat
      /\ \A i \in 1 .. Len(n) + Len(r) : e[i] = IF i <= Len(n) THEN n[i] ELSE r[i - Len(n)]
  <2>1. PICK F : F = Frames
    OBVIOUS
  <2>2. n \in Seq(F) /\ r \in Seq(F)
    BY <1>1, <2>1
  <2>3. /\ n \o r \in Seq(F) /\ Len(n \o r) = Len(n) + Len(r) /\ Len(n) \in Nat
        /\ \A i \in 1 .. Len(n) + Len(r) : (n \o r)[i] = IF i <= Len(n) THEN n[i] ELSE r[i - Len(n)]
    BY ONLY <2>2, ConcatProperties
  <2> QED BY <2>1, <2>3
<1> HIDE DEF e
<1>3. ASSUME NEW i \in 2 .. Len(d) PROVE e[Len(n) + i - 1] = d[i]
  <2>1. /\ Len(n) + i - 1 \in 1 .. Len(n) + Len(r) /\ ~ (Len(n) + i - 1 <= Len(n))
        /\ Len(n) + i - 1 - Len(n) = i - 1 /\ i - 1 \in 1 .. Len(r) /\ i - 1 + 1 = i
    BY <1>1, <1>2
  <2>2. e[Len(n) + i - 1] = r[i - 1]
    BY <1>2, <2>1
  <2>3. r[i - 1] = d[i - 1 + 1]
    BY <1>1, <2>1
  <2> QED BY <2>1, <2>2, <2>3
<1>4. ASSUME NEW i \in 1 .. Len(e), i \notin 1 .. Len(n)
      PROVE  \E j \in 2 .. Len(d) : i = Len(n) + j - 1
  <2>1. i - Len(n) + 1 \in 2 .. Len(d) /\ i = Len(n) + (i - Len(n) + 1) - 1
    BY <1>1, <1>2, <1>4
  <2> QED BY <2>1
<1>5. ASSUME NEW i \in 1 .. Len(n) PROVE e[i] = n[i]
  <2>1. i \in 1 .. Len(n) + Len(r) /\ i <= Len(n)
    BY <1>1, <1>2
  <2> QED BY <1>2, <2>1
<1> QED BY <1>1, <1>2, <1>3, <1>4, <1>5 DEF e, r
-----------------------------------------------------------------------------
(* Names *)

\* Names are taken from those that the calls reserved and from new ones.
LEMMA FitsStep ==
  ASSUME NEW k \in Seq(Items), NEW t \in Seq(Items), NEW S, NEW New, New \cap S = {},
         NEW d \in Seq(Frames), d # <<>>, NEW n \in Seq(Frames),
         Fits(k, d, S), Fits(t, n, Reserved(d[1]) \cup New)
  PROVE  Fits(k \o t, n \o Tail(d), S \cup New)
<1> DEFINE r == k \o t
           e == n \o Tail(d)
<1>1. /\ Len(r) = Len(k) + Len(t) /\ Len(k) \in Nat /\ Len(t) \in Nat
      /\ \A i \in 1 .. Len(k) : r[i] = k[i]
      /\ \A i \in 1 .. Len(t) : r[Len(k) + i] = t[i]
      /\ \A i \in 1 .. Len(r) : i \in 1 .. Len(k) \/ \E j \in 1 .. Len(t) : i = Len(k) + j
  BY Behind
<1>2. /\ \A i \in 1 .. Len(n) : e[i] = n[i]
      /\ \A i \in 2 .. Len(d) : e[Len(n) + i - 1] = d[i]
      /\ \A i \in 1 .. Len(e) : i \in 1 .. Len(n) \/ \E j \in 2 .. Len(d) : i = Len(n) + j - 1
      /\ 1 \in 1 .. Len(d)
  BY Instead
<1> HIDE DEF r, e
\* A name of r is one of k or one of t.
<1>3. ASSUME NEW i \in Names(r)
      PROVE  \/ i \in Names(k) /\ r[i] = k[i]
             \/ \E j \in Names(t) : i = Len(k) + j /\ r[i] = t[j]
  <2>1. i \in 1 .. Len(r)
    BY DEF Names
  <2>2. CASE i \in 1 .. Len(k)
    BY <1>1, <2>2 DEF Names
  <2>3. CASE \E j \in 1 .. Len(t) : i = Len(k) + j
    <3>1. PICK j \in 1 .. Len(t) : i = Len(k) + j
      BY <2>3
    <3>2. r[i] = t[j]
      BY <1>1, <3>1
    <3> QED BY <3>1, <3>2 DEF Names
  <2> QED BY <1>1, <2>1, <2>2, <2>3
<1>4. ASSUME NEW i \in 1 .. Len(e)
      PROVE  \/ \E j \in 1 .. Len(n) : i = j /\ e[i] = n[j]
             \/ \E j \in 2 .. Len(d) : i = Len(n) + j - 1 /\ e[i] = d[j] /\ j \in 1 .. Len(d) /\ j # 1
  <2>1. CASE i \in 1 .. Len(n)
    BY <1>2, <2>1
  <2>2. CASE \E j \in 2 .. Len(d) : i = Len(n) + j - 1
    <3>1. PICK j \in 2 .. Len(d) : i = Len(n) + j - 1
      BY <2>2
    <3>2. e[Len(n) + j - 1] = d[j]
      BY <1>2
    <3>3. j \in 1 .. Len(d) /\ j # 1
      OBVIOUS
    <3> QED BY <3>1, <3>2, <3>3
  <2> QED BY <1>2, <2>1, <2>2
<1>k. /\ \A i \in Names(k) : k[i].dst \in S /\ \A j \in Names(k) : j # i => k[j].dst # k[i].dst
      /\ \A i \in 1 .. Len(d) :
           /\ Reserved(d[i]) \subseteq S
           /\ \A j \in Names(k) : k[j].dst \notin Reserved(d[i])
           /\ \A j \in 1 .. Len(d) : j # i => Reserved(d[i]) \cap Reserved(d[j]) = {}
  BY DEF Fits
<1>t. /\ \A i \in Names(t) : /\ t[i].dst \in Reserved(d[1]) \cup New
                             /\ \A j \in Names(t) : j # i => t[j].dst # t[i].dst
      /\ \A i \in 1 .. Len(n) :
           /\ Reserved(n[i]) \subseteq Reserved(d[1]) \cup New
           /\ \A j \in Names(t) : t[j].dst \notin Reserved(n[i])
           /\ \A j \in 1 .. Len(n) : j # i => Reserved(n[i]) \cap Reserved(n[j]) = {}
  BY DEF Fits
<1>d. Reserved(d[1]) \subseteq S
  BY <1>2, <1>k
<1>5. ASSUME NEW i \in Names(r), NEW j \in Names(r), j # i
      PROVE  r[i].dst \in S \cup New /\ r[j].dst # r[i].dst
  <2>1. \A a \in Names(k), c \in Names(t) : k[a].dst # t[c].dst
    BY <1>2, <1>k, <1>t
  <2>2. \A a \in Names(k) : k[a].dst \in S
    BY <1>k
  <2>3. \A a \in Names(t) : t[a].dst \in S \cup New
    BY <1>t, <1>d
  <2>4. CASE i \in Names(k) /\ r[i] = k[i]
    <3>1. CASE j \in Names(k) /\ r[j] = k[j]
      BY <1>5, <1>k, <2>4, <3>1
    <3>2. CASE \E b \in Names(t) : j = Len(k) + b /\ r[j] = t[b]
      BY <2>1, <2>2, <2>4, <3>2
    <3> QED BY <1>3, <1>k, <2>2, <2>4, <3>1, <3>2
  <2>5. CASE \E a \in Names(t) : i = Len(k) + a /\ r[i] = t[a]
    <3>1. PICK a \in Names(t) : i = Len(k) + a /\ r[i] = t[a]
      BY <2>5
    <3>2. CASE j \in Names(k) /\ r[j] = k[j]
      BY <2>1, <2>3, <3>1, <3>2
    <3>3. CASE \E b \in Names(t) : j = Len(k) + b /\ r[j] = t[b]
      <4>1. PICK b \in Names(t) : j = Len(k) + b /\ r[j] = t[b]
        BY <3>3
      <4>2. b # a
        BY <1>5, <3>1, <4>1
      <4> QED BY <1>t, <2>3, <3>1, <4>1, <4>2
    <3> QED BY <1>3, <2>3, <3>1, <3>2, <3>3
  <2> QED BY <1>3, <2>4, <2>5
<1>5a. \A i \in Names(r) : r[i].dst \in S \cup New
  BY <1>3, <1>k, <1>t, <1>d
<1>6. ASSUME NEW i \in 1 .. Len(e), NEW j \in Names(r)
      PROVE  Reserved(e[i]) \subseteq S \cup New /\ r[j].dst \notin Reserved(e[i])
  <2>1. CASE \E a \in 1 .. Len(n) : i = a /\ e[i] = n[a]
    <3>1. PICK a \in 1 .. Len(n) : e[i] = n[a]
      BY <2>1
    <3>2. Reserved(n[a]) \subseteq S \cup New /\ \A b \in Names(t) : t[b].dst \notin Reserved(n[a])
      BY <1>t, <1>d
    <3>3. \A b \in Names(k) : k[b].dst \in S /\ k[b].dst \notin Reserved(d[1])
      BY <1>2, <1>k
    <3>4. \A b \in Names(k) : k[b].dst \notin Reserved(n[a])
      BY <1>t, <3>3
    <3> QED BY <1>3, <3>1, <3>2, <3>4
  <2>2. CASE \E a \in 2 .. Len(d) : e[i] = d[a] /\ a \in 1 .. Len(d) /\ a # 1
    <3>1. PICK a \in 1 .. Len(d) : e[i] = d[a] /\ a # 1
      BY <2>2
    <3>2. Reserved(d[a]) \subseteq S /\ Reserved(d[a]) \cap Reserved(d[1]) = {}
      BY <1>2, <1>k, <3>1
    <3>3. \A b \in Names(t) : t[b].dst \notin Reserved(d[a])
      BY <1>t, <3>2
    <3> QED BY <1>3, <1>k, <3>1, <3>2, <3>3
  <2> QED BY <1>4, <2>1, <2>2
<1>6a. \A i \in 1 .. Len(e) : Reserved(e[i]) \subseteq S \cup New
  BY <1>4, <1>k, <1>t, <1>d
<1>7. ASSUME NEW i \in 1 .. Len(e), NEW j \in 1 .. Len(e), j # i
      PROVE  Reserved(e[i]) \cap Reserved(e[j]) = {}
  <2>1. \A a \in 1 .. Len(n), b \in 1 .. Len(d) : b # 1 => Reserved(n[a]) \cap Reserved(d[b]) = {}
    <3> SUFFICES ASSUME NEW a \in 1 .. Len(n), NEW b \in 1 .. Len(d), b # 1
                 PROVE  Reserved(n[a]) \cap Reserved(d[b]) = {}
      OBVIOUS
    <3>1. Reserved(d[b]) \subseteq S /\ Reserved(d[b]) \cap Reserved(d[1]) = {}
      BY <1>2, <1>k
    <3>2. Reserved(n[a]) \subseteq Reserved(d[1]) \cup New
      BY <1>t
    <3> QED BY <3>1, <3>2
  <2>2. CASE \E a \in 1 .. Len(n) : i = a /\ e[i] = n[a]
    <3>1. CASE \E b \in 1 .. Len(n) : j = b /\ e[j] = n[b]
      BY <1>t, <1>7, <2>2, <3>1
    <3>2. CASE \E b \in 2 .. Len(d) : e[j] = d[b] /\ b \in 1 .. Len(d) /\ b # 1
      BY <2>1, <2>2, <3>2
    <3> QED BY <1>4, <3>1, <3>2
  <2>3. CASE \E a \in 2 .. Len(d) : i = Len(n) + a - 1 /\ e[i] = d[a] /\ a \in 1 .. Len(d) /\ a # 1
    <3>1. CASE \E b \in 1 .. Len(n) : j = b /\ e[j] = n[b]
      BY <2>1, <2>3, <3>1
    <3>2. CASE \E b \in 2 .. Len(d) : j = Len(n) + b - 1 /\ e[j] = d[b] /\ b \in 1 .. Len(d) /\ b # 1
      BY <1>k, <1>7, <2>3, <3>2
    <3> QED BY <1>4, <3>1, <3>2
  <2> QED BY <1>4, <2>2, <2>3
<1>8. Fits(r, e, S \cup New)
  BY <1>5, <1>5a, <1>6, <1>6a, <1>7 DEF Fits
<1> QED BY <1>8 DEF r, e
-----------------------------------------------------------------------------
(* Functions *)

\* The text t, written in the function of k that begins at s, jumps to labels
\* that are known there; with the calls n it keeps the promises of d[1].
Leads(k, s, d, t, n) ==
  LET new == WrittenIn(t, 1) \cup Promised(n)
      known == WrittenIn(k, s) \cup Promised(d) \cup new
  IN  /\ \A i \in 1 .. Len(t) : t[i].op # "fun" /\ Range(t[i].to) \subseteq known
      /\ \A i \in 1 .. Len(n) : Aims(n[i]) \subseteq known
      /\ Owes(d[1]) \subseteq new

\* It uses operands that are defined, and hands on such an operand.
Feeds(k, s, d, t, n, operand) ==
  LET defined == Defined(k, s) \cup Defined(t, 1)
  IN  /\ \A i \in 1 .. Len(t) : \A a \in Range(t[i].args) :
           IsLocal(a) => a \in Defined(k, s) \/ \E j \in 1 .. i - 1 : t[j].dst = a
      /\ \A i \in 1 .. Len(n) : \A a \in Holds(n[i]) : IsLocal(a) => a \in defined
      /\ \A i \in 1 .. Len(n) - 1 : n[i + 1].at \in Readers => n[i].at \in Returners
      /\ n # <<>> => /\ n[1].at \in Readers => (IsLocal(operand) => operand \in defined)
                     /\ d[1].at \in Returners => n[Len(n)].at \in Returners
      /\ n = <<>> /\ d[1].at \in Returners => (IsLocal(operand) => operand \in defined)

LEMMA StartStays ==
  ASSUME NEW k \in Seq(Items), NEW t \in Seq(Items), NEW s, Starts(k, s),
         \A i \in 1 .. Len(t) : t[i].op # "fun"
  PROVE  Starts(k \o t, s) /\ s \in Nat /\ s <= Len(k)
<1> DEFINE r == k \o t
<1>1. /\ Len(r) = Len(k) + Len(t) /\ Len(k) \in Nat /\ Len(t) \in Nat
      /\ \A i \in 1 .. Len(k) : r[i] = k[i]
      /\ \A i \in 1 .. Len(t) : r[Len(k) + i] = t[i]
      /\ \A i \in 1 .. Len(r) : i \in 1 .. Len(k) \/ \E j \in 1 .. Len(t) : i = Len(k) + j
  BY Behind
<1>2. s \in 1 .. Len(k) /\ k[s].op = "fun" /\ \A j \in s + 1 .. Len(k) : k[j].op # "fun"
  BY DEF Starts
<1> HIDE DEF r
<1>3. s \in 1 .. Len(r) /\ r[s].op = "fun"
  BY <1>1, <1>2
<1>4. ASSUME NEW j \in s + 1 .. Len(r) PROVE r[j].op # "fun"
  <2>1. j \in 1 .. Len(r)
    BY <1>2
  <2>2. CASE j \in 1 .. Len(k)
    BY <1>1, <1>2, <2>2
  <2>3. CASE \E i \in 1 .. Len(t) : j = Len(k) + i
    BY <1>1, <2>3
  <2> QED BY <1>1, <2>1, <2>2, <2>3
<1>5. Starts(r, s)
  BY <1>3, <1>4 DEF Starts
<1> QED BY <1>2, <1>5 DEF r

LEMMA StartIs ==
  ASSUME NEW k \in Seq(Items), NEW s, Starts(k, s)
  PROVE  FunctionStart(k) = s
<1> DEFINE P(i) == k[i].op = "fun" /\ \A j \in i + 1 .. Len(k) : k[j].op # "fun"
<1>1. s \in 1 .. Len(k) /\ P(s) /\ DOMAIN k = 1 .. Len(k) /\ Len(k) \in Nat
  BY DEF Starts
<1>2. ASSUME NEW i \in DOMAIN k, P(i) PROVE i = s
  <2>1. ~ (i < s) /\ ~ (s < i)
    BY <1>1, <1>2
  <2> QED BY <1>1, <2>1
<1>3. FunctionStart(k) = CHOOSE i \in DOMAIN k : P(i)
  BY DEF FunctionStart
<1> HIDE DEF P
<1> QED BY <1>1, <1>2, <1>3

\* What is written, and what is defined, in a longer text.
LEMMA Grown ==
  ASSUME NEW k \in Seq(Items), NEW t \in Seq(Items), NEW s \in Nat, 1 <= s, s <= Len(k)
  PROVE  /\ WrittenIn(k \o t, s) = WrittenIn(k, s) \cup WrittenIn(t, 1)
         /\ Defined(k \o t, s) = Defined(k, s) \cup Defined(t, 1)
<1> DEFINE r == k \o t
<1>1. /\ Len(r) = Len(k) + Len(t) /\ Len(k) \in Nat /\ Len(t) \in Nat
      /\ \A i \in 1 .. Len(k) : r[i] = k[i]
      /\ \A i \in 1 .. Len(t) : r[Len(k) + i] = t[i]
      /\ \A i \in 1 .. Len(r) : i \in 1 .. Len(k) \/ \E j \in 1 .. Len(t) : i = Len(k) + j
  BY Behind
<1> HIDE DEF r
<1>2. ASSUME NEW i \in s .. Len(r)
      PROVE  \/ i \in s .. Len(k) /\ r[i] = k[i]
             \/ \E j \in 1 .. Len(t) : r[i] = t[j]
  <2>1. i \in 1 .. Len(r)
    OBVIOUS
  <2>2. CASE i \in 1 .. Len(k)
    BY <1>1, <2>2
  <2>3. CASE \E j \in 1 .. Len(t) : i = Len(k) + j
    BY <1>1, <2>3
  <2> QED BY <1>1, <2>1, <2>2, <2>3
<1>3. \A i \in s .. Len(k) : i \in s .. Len(r) /\ r[i] = k[i]
  BY <1>1
<1>4. \A i \in 1 .. Len(t) : Len(k) + i \in s .. Len(r) /\ r[Len(k) + i] = t[i]
  BY <1>1
<1>5. WrittenIn(r, s) = WrittenIn(k, s) \cup WrittenIn(t, 1)
  <2>1. \A x \in WrittenIn(r, s) : x \in WrittenIn(k, s) \cup WrittenIn(t, 1)
    BY <1>2 DEF WrittenIn
  <2>2. \A x \in WrittenIn(k, s) : x \in WrittenIn(r, s)
    BY <1>3 DEF WrittenIn
  <2>3. \A x \in WrittenIn(t, 1) : x \in WrittenIn(r, s)
    BY <1>4 DEF WrittenIn
  <2> QED BY <2>1, <2>2, <2>3
<1>6. Defined(r, s) = Defined(k, s) \cup Defined(t, 1)
  <2>1. \A x \in Defined(r, s) : x \in Defined(k, s) \cup Defined(t, 1)
    BY <1>2 DEF Defined
  <2>2. \A x \in Defined(k, s) : x \in Defined(r, s)
    BY <1>3 DEF Defined
  <2>3. \A x \in Defined(t, 1) : x \in Defined(r, s)
    BY <1>4 DEF Defined
  <2> QED BY <2>1, <2>2, <2>3
<1> QED BY <1>5, <1>6 DEF r

LEMMA LandsStep ==
  ASSUME NEW k \in Seq(Items), NEW t \in Seq(Items), NEW s, Starts(k, s),
         NEW d \in Seq(Frames), d # <<>>, NEW n \in Seq(Frames),
         Lands(k, s, d), Leads(k, s, d, t, n)
  PROVE  Lands(k \o t, s, n \o Tail(d))
<1> DEFINE r == k \o t
           e == n \o Tail(d)
           new == WrittenIn(t, 1) \cup Promised(n)
           old == WrittenIn(k, s) \cup Promised(d)
           known == WrittenIn(r, s) \cup Promised(e)
<1>1. /\ Len(r) = Len(k) + Len(t) /\ Len(k) \in Nat /\ Len(t) \in Nat
      /\ \A i \in 1 .. Len(k) : r[i] = k[i]
      /\ \A i \in 1 .. Len(t) : r[Len(k) + i] = t[i]
      /\ \A i \in 1 .. Len(r) : i \in 1 .. Len(k) \/ \E j \in 1 .. Len(t) : i = Len(k) + j
  BY Behind
<1>2. /\ Len(e) = Len(n) + Len(d) - 1 /\ Len(d) \in Nat /\ Len(n) \in Nat /\ Len(d) > 0
      /\ \A i \in 1 .. Len(n) : e[i] = n[i]
      /\ \A i \in 2 .. Len(d) : e[Len(n) + i - 1] = d[i]
      /\ \A i \in 1 .. Len(e) : i \in 1 .. Len(n) \/ \E j \in 2 .. Len(d) : i = Len(n) + j - 1
  BY Instead
<1>3. s \in Nat /\ 1 <= s /\ s <= Len(k)
  BY <1>1 DEF Starts
<1>4. WrittenIn(r, s) = WrittenIn(k, s) \cup WrittenIn(t, 1)
  BY <1>3, Grown
<1>l. /\ \A i \in 1 .. Len(t) : Range(t[i].to) \subseteq old \cup new
      /\ \A i \in 1 .. Len(n) : Aims(n[i]) \subseteq old \cup new
      /\ Owes(d[1]) \subseteq new
  BY Zenon DEF Leads
<1>m. /\ \A i \in s .. Len(k) : Range(k[i].to) \subseteq old
      /\ \A i \in 1 .. Len(d) : Aims(d[i]) \subseteq old
  BY Zenon DEF Lands
<1> HIDE DEF r, e
<1>5. Promised(n) \subseteq Promised(e)
  <2> SUFFICES ASSUME NEW i \in 1 .. Len(n) PROVE Owes(n[i]) \subseteq Promised(e)
    BY DEF Promised
  <2>1. i \in 1 .. Len(e) /\ e[i] = n[i]
    BY <1>2
  <2> QED BY <2>1 DEF Promised
<1>6. \A i \in 2 .. Len(d) : Owes(d[i]) \subseteq Promised(e)
  <2> SUFFICES ASSUME NEW i \in 2 .. Len(d) PROVE Owes(d[i]) \subseteq Promised(e)
    OBVIOUS
  <2>1. Len(n) + i - 1 \in 1 .. Len(e) /\ e[Len(n) + i - 1] = d[i]
    BY <1>2
  <2> QED BY <2>1 DEF Promised
<1>7. new \subseteq known
  BY <1>4, <1>5
<1>8. old \subseteq known
  <2>1. WrittenIn(k, s) \subseteq known
    BY <1>4
  <2>2. ASSUME NEW i \in 1 .. Len(d) PROVE Owes(d[i]) \subseteq known
    <3>1. CASE i = 1
      BY <1>7, <1>l, <3>1
    <3>2. CASE i # 1
      <4>1. i \in 2 .. Len(d)
        BY <3>2
      <4> QED BY <1>6, <4>1
    <3> QED BY <3>1, <3>2
  <2>3. Promised(d) \subseteq known
    BY <2>2 DEF Promised
  <2> QED BY <2>1, <2>3
<1> HIDE DEF old, new, known
<1>9. ASSUME NEW i \in s .. Len(r) PROVE Range(r[i].to) \subseteq known
  <2>1. i \in 1 .. Len(r)
    BY <1>3
  <2>2. CASE i \in 1 .. Len(k)
    BY <1>1, <1>8, <1>m, <2>2
  <2>3. CASE \E j \in 1 .. Len(t) : i = Len(k) + j
    BY <1>1, <1>7, <1>8, <1>l, <2>3
  <2> QED BY <1>1, <2>1, <2>2, <2>3
<1>10. ASSUME NEW i \in 1 .. Len(e) PROVE Aims(e[i]) \subseteq known
  <2>1. CASE i \in 1 .. Len(n)
    BY <1>2, <1>7, <1>8, <1>l, <2>1
  <2>2. CASE \E j \in 2 .. Len(d) : i = Len(n) + j - 1
    <3>1. PICK j \in 2 .. Len(d) : i = Len(n) + j - 1
      BY <2>2
    <3>2. e[i] = d[j] /\ j \in 1 .. Len(d)
      BY <1>2, <3>1
    <3> QED BY <1>8, <1>m, <3>2
  <2> QED BY <1>2, <2>1, <2>2
<1> QED BY <1>9, <1>10 DEF Lands, known, r, e

LEMMA UsedStep ==
  ASSUME NEW k \in Seq(Items), NEW t \in Seq(Items), NEW s, Starts(k, s),
         NEW d, NEW n, NEW operand, Used(k, s), Feeds(k, s, d, t, n, operand)
  PROVE  Used(k \o t, s)
<1> DEFINE r == k \o t
<1>1. /\ Len(r) = Len(k) + Len(t) /\ Len(k) \in Nat /\ Len(t) \in Nat
      /\ \A i \in 1 .. Len(k) : r[i] = k[i]
      /\ \A i \in 1 .. Len(t) : r[Len(k) + i] = t[i]
      /\ \A i \in 1 .. Len(r) : i \in 1 .. Len(k) \/ \E j \in 1 .. Len(t) : i = Len(k) + j
  BY Behind
<1>3. s \in Nat /\ 1 <= s /\ s <= Len(k)
  BY <1>1 DEF Starts
<1> HIDE DEF r
<1>4. ASSUME NEW i \in s .. Len(r), NEW a \in Range(r[i].args), IsLocal(a)
      PROVE  \E j \in s .. i - 1 : r[j].dst = a
  <2>1. i \in 1 .. Len(r)
    BY <1>3
  <2>2. CASE i \in 1 .. Len(k)
    <3>1. i \in s .. Len(k) /\ r[i] = k[i]
      BY <1>1, <1>3, <2>2
    <3>2. PICK j \in s .. i - 1 : k[j].dst = a
      BY <1>4, <3>1 DEF Used
    <3>3. j \in 1 .. Len(k)
      BY <1>3, <3>1
    <3> QED BY <1>1, <3>2, <3>3
  <2>3. CASE \E j \in 1 .. Len(t) : i = Len(k) + j
    <3>1. PICK c \in 1 .. Len(t) : i = Len(k) + c
      BY <2>3
    <3>2. r[i] = t[c]
      BY <1>1, <3>1
    <3>3. a \in Defined(k, s) \/ \E j \in 1 .. c - 1 : t[j].dst = a
      BY <1>4, <3>2 DEF Feeds
    <3>4. CASE a \in Defined(k, s)
      <4>1. PICK j \in s .. Len(k) : k[j].dst = a
        BY <3>4 DEF Defined
      <4>2. j \in s .. i - 1 /\ j \in 1 .. Len(k)
        BY <1>1, <1>3, <3>1
      <4> QED BY <1>1, <4>1, <4>2
    <3>5. CASE \E j \in 1 .. c - 1 : t[j].dst = a
      <4>1. PICK j \in 1 .. c - 1 : t[j].dst = a
        BY <3>5
      <4>2. j \in 1 .. Len(t) /\ Len(k) + j \in s .. i - 1
        BY <1>1, <1>3, <3>1
      <4>3. r[Len(k) + j] = t[j]
        BY <1>1, <4>2
      <4> QED BY <4>1, <4>2, <4>3
    <3> QED BY <3>3, <3>4, <3>5
  <2> QED BY <1>1, <2>1, <2>2, <2>3
<1> QED BY <1>4 DEF Used, r

LEMMA ReadyStep ==
  ASSUME NEW k \in Seq(Items), NEW t \in Seq(Items), NEW s, Starts(k, s),
         NEW d \in Seq(Frames), d # <<>>, NEW n \in Seq(Frames), NEW before, NEW operand,
         Ready(k, s, d, before), Feeds(k, s, d, t, n, operand)
  PROVE  Ready(k \o t, s, n \o Tail(d), operand)
<1> DEFINE r == k \o t
           e == n \o Tail(d)
<1>2. /\ Len(e) = Len(n) + Len(d) - 1 /\ Len(d) \in Nat /\ Len(n) \in Nat /\ Len(d) > 0
      /\ \A i \in 1 .. Len(n) : e[i] = n[i]
      /\ \A i \in 2 .. Len(d) : e[Len(n) + i - 1] = d[i]
      /\ \A i \in 1 .. Len(e) : i \in 1 .. Len(n) \/ \E j \in 2 .. Len(d) : i = Len(n) + j - 1
      /\ e \in Seq(Frames)
  BY Instead
<1>3. Defined(r, s) = Defined(k, s) \cup Defined(t, 1)
  <2>1. s \in Nat /\ 1 <= s /\ s <= Len(k)
    BY DEF Starts
  <2> QED BY <2>1, Grown
<1>f. /\ \A i \in 1 .. Len(n) : \A a \in Holds(n[i]) : IsLocal(a) => a \in Defined(r, s)
      /\ \A i \in 1 .. Len(n) - 1 : n[i + 1].at \in Readers => n[i].at \in Returners
      /\ n # <<>> => /\ n[1].at \in Readers => (IsLocal(operand) => operand \in Defined(r, s))
                     /\ d[1].at \in Returners => n[Len(n)].at \in Returners
      /\ n = <<>> /\ d[1].at \in Returners => (IsLocal(operand) => operand \in Defined(r, s))
  BY <1>3, Zenon DEF Feeds
<1>r. /\ \A i \in 1 .. Len(d) : \A a \in Holds(d[i]) : IsLocal(a) => a \in Defined(r, s)
      /\ \A i \in 1 .. Len(d) - 1 : d[i + 1].at \in Readers => d[i].at \in Returners
  BY <1>3 DEF Ready, Backed
<1> HIDE DEF r, e
<1>4. ASSUME NEW i \in 1 .. Len(e)
      PROVE  \/ i \in 1 .. Len(n) /\ e[i] = n[i]
             \/ \E j \in 2 .. Len(d) : i = Len(n) + j - 1 /\ e[i] = d[j]
  BY <1>2
<1>5. ASSUME NEW i \in 1 .. Len(e), NEW a \in Holds(e[i]) PROVE Backed(a, r, s)
  <2>1. CASE i \in 1 .. Len(n) /\ e[i] = n[i]
    BY <1>f, <2>1 DEF Backed
  <2>2. CASE \E j \in 2 .. Len(d) : e[i] = d[j]
    <3>1. PICK j \in 1 .. Len(d) : e[i] = d[j]
      BY <2>2
    <3> QED BY <1>r, <3>1 DEF Backed
  <2> QED BY <1>4, <2>1, <2>2
<1>n. Len(e) = Len(n) + Len(d) - 1 /\ Len(d) \in Nat /\ Len(n) \in Nat /\ Len(d) > 0
  BY <1>2
<1>6. ASSUME NEW i \in 1 .. Len(e) - 1, e[i + 1].at \in Readers PROVE e[i].at \in Returners
  <2>1. CASE i < Len(n)
    <3>1. i \in 1 .. Len(n) - 1 /\ e[i] = n[i] /\ e[i + 1] = n[i + 1]
      BY <1>2, <2>1
    <3> QED BY <1>6, <1>f, <3>1
  <2>2. CASE i = Len(n)
    <3>1. /\ e[i] = n[Len(n)] /\ n # <<>> /\ e[Len(n) + 2 - 1] = d[2] /\ Len(n) + 2 - 1 = i + 1
          /\ 1 \in 1 .. Len(d) - 1 /\ d[1 + 1] = d[2]
      BY <1>2, <2>2
    <3>2. d[1].at \in Returners
      BY <1>6, <1>r, <3>1
    <3> QED BY <1>f, <3>1, <3>2
  <2>3. CASE i > Len(n)
    <3>0. PICK j : j = i - Len(n) + 1
      OBVIOUS
    <3>1. /\ j \in 2 .. Len(d) /\ j + 1 \in 2 .. Len(d) /\ j \in 1 .. Len(d) - 1
          /\ Len(n) + j - 1 = i /\ Len(n) + (j + 1) - 1 = i + 1
      BY ONLY <1>n, <2>3, <3>0, i \in 1 .. Len(e) - 1
    <3>2. e[i] = d[j] /\ e[i + 1] = d[j + 1]
      <4>1. e[Len(n) + j - 1] = d[j] /\ e[Len(n) + (j + 1) - 1] = d[j + 1]
        BY <1>2, <3>1
      <4> QED BY <3>1, <4>1
    <3> QED BY <1>6, <1>r, <3>1, <3>2
  <2> QED BY <1>2, <2>1, <2>2, <2>3
<1>7. ASSUME e # <<>>, e[1].at \in Readers PROVE Backed(operand, r, s)
  <2>1. CASE n # <<>>
    <3>1. 1 \in 1 .. Len(n)
      BY <2>1
    <3> QED BY <1>2, <1>7, <1>f, <2>1, <3>1 DEF Backed
  <2>2. CASE n = <<>>
    <3>1. /\ Len(e) > 0 /\ Len(n) = 0
      BY <1>2, <1>7, <2>2
    <3>2. 2 \in 2 .. Len(d) /\ Len(n) + 2 - 1 = 1 /\ 1 \in 1 .. Len(d) - 1 /\ d[1 + 1] = d[2]
      BY <1>2, <3>1
    <3>3. e[1] = d[2]
      BY <1>2, <3>2
    <3>4. d[1].at \in Returners
      BY <1>7, <1>r, <3>2, <3>3
    <3> QED BY <1>f, <2>2, <3>4 DEF Backed
  <2> QED BY <2>1, <2>2
<1>8. Ready(r, s, e, operand)
  BY <1>5, <1>6, <1>7 DEF Ready
<1> QED BY <1>8 DEF r, e

\* A step: the call d[1] writes t and leaves the calls n.
LEMMA TextAndCalls ==
  ASSUME NEW k \in Seq(Items), NEW t \in Seq(Items), NEW s, NEW d \in Seq(Frames), d # <<>>,
         NEW n \in Seq(Frames), NEW before, NEW operand, NEW S, NEW New, New \cap S = {},
         Fits(k, d, S), Sound(k, s, d, before), Fits(t, n, Reserved(d[1]) \cup New),
         Leads(k, s, d, t, n), Feeds(k, s, d, t, n, operand)
  PROVE  /\ Fits(k \o t, n \o Tail(d), S \cup New)
         /\ Sound(k \o t, s, n \o Tail(d), operand)
<1>1. Starts(k, s) /\ Lands(k, s, d) /\ Used(k, s) /\ Ready(k, s, d, before)
  BY DEF Sound
<1>2. Fits(k \o t, n \o Tail(d), S \cup New)
  BY FitsStep
<1>3. Starts(k \o t, s)
  <2>1. \A i \in 1 .. Len(t) : t[i].op # "fun"
    BY DEF Leads
  <2> QED BY <1>1, <2>1, StartStays
<1>4. Lands(k \o t, s, n \o Tail(d))
  BY <1>1, LandsStep
<1>5. Used(k \o t, s)
  BY <1>1, UsedStep
<1>6. Ready(k \o t, s, n \o Tail(d), operand)
  BY <1>1, ReadyStep
<1> QED BY <1>2, <1>3, <1>4, <1>5, <1>6 DEF Sound
-----------------------------------------------------------------------------
(* What a text and the calls of a handler take and refer to *)

NameOf(it) ==
  IF it.op = "label" THEN {it.dst} \ {Entry}
  ELSE IF IsLocal(it.dst) THEN {it.dst} ELSE {}

Taken(t) == {t[i].dst : i \in Names(t)}
Tos(t) == UNION {Range(t[i].to) : i \in 1 .. Len(t)}
LocalArgs(t) == {a \in UNION {Range(t[i].args) : i \in 1 .. Len(t)} : IsLocal(a)}
\* The local operands that a text uses before it defines them.
Needs(t) ==
  {a \in LocalArgs(t) : \E i \in 1 .. Len(t) : a \in Range(t[i].args) /\ \A j \in 1 .. i - 1 : t[j].dst # a}
NamesFit(t, S) ==
  \A i \in Names(t) : t[i].dst \in S /\ \A j \in Names(t) : j # i => t[j].dst # t[i].dst

Pending(n) == UNION {Reserved(n[i]) : i \in 1 .. Len(n)}
Goals(n) == UNION {Aims(n[i]) : i \in 1 .. Len(n)}
Held(n) == {a \in UNION {Holds(n[i]) : i \in 1 .. Len(n)} : IsLocal(a)}
CallsFit(n, S) ==
  \A i \in 1 .. Len(n) : /\ Reserved(n[i]) \subseteq S
                         /\ \A j \in 1 .. Len(n) : j # i => Reserved(n[i]) \cap Reserved(n[j]) = {}
Ordered(n) ==
  /\ \A i \in 1 .. Len(n) - 1 : n[i + 1].at \in Readers => n[i].at \in Returners
  /\ n # <<>> => n[1].at \notin Readers

LEMMA FitsIf ==
  ASSUME NEW t, NEW n, NEW S, NamesFit(t, S), CallsFit(n, S), Taken(t) \cap Pending(n) = {}
  PROVE  Fits(t, n, S)
<1>1. \A i \in 1 .. Len(n) : \A j \in Names(t) : t[j].dst \notin Reserved(n[i])
  <2> SUFFICES ASSUME NEW i \in 1 .. Len(n), NEW j \in Names(t), t[j].dst \in Reserved(n[i]) PROVE FALSE
    OBVIOUS
  <2>1. t[j].dst \in Taken(t) /\ t[j].dst \in Pending(n)
    BY DEF Taken, Pending
  <2> QED BY <2>1
<1> QED BY <1>1 DEF Fits, NamesFit, CallsFit

LEMMA LeadsIf ==
  ASSUME NEW k, NEW s, NEW d, NEW t, NEW n, \A i \in 1 .. Len(t) : t[i].op # "fun",
         NEW new, new = WrittenIn(t, 1) \cup Promised(n),
         NEW known, known = WrittenIn(k, s) \cup Promised(d) \cup new,
         Tos(t) \subseteq known, Goals(n) \subseteq known, Owes(d[1]) \subseteq new
  PROVE  Leads(k, s, d, t, n)
<1>1. \A i \in 1 .. Len(t) : Range(t[i].to) \subseteq Tos(t)
  BY DEF Tos
<1>2. \A i \in 1 .. Len(n) : Aims(n[i]) \subseteq Goals(n)
  BY DEF Goals
<1> QED BY <1>1, <1>2 DEF Leads

LEMMA FeedsIf ==
  ASSUME NEW k, NEW s, NEW d, NEW t, NEW n, NEW operand,
         Needs(t) \subseteq Defined(k, s), Held(n) \subseteq Defined(k, s) \cup Defined(t, 1),
         Ordered(n), n # <<>> /\ d[1].at \in Returners => n[Len(n)].at \in Returners,
         n = <<>> /\ d[1].at \in Returners =>
           (IsLocal(operand) => operand \in Defined(k, s) \cup Defined(t, 1))
  PROVE  Feeds(k, s, d, t, n, operand)
<1>1. ASSUME NEW i \in 1 .. Len(t), NEW a \in Range(t[i].args), IsLocal(a)
      PROVE  a \in Defined(k, s) \/ \E j \in 1 .. i - 1 : t[j].dst = a
  <2>1. a \in LocalArgs(t)
    BY <1>1 DEF LocalArgs
  <2>2. (\E j \in 1 .. i - 1 : t[j].dst = a) \/ a \in Needs(t)
    BY <2>1 DEF Needs
  <2> QED BY <2>2
<1>2. ASSUME NEW i \in 1 .. Len(n), NEW a \in Holds(n[i]), IsLocal(a)
      PROVE  a \in Defined(k, s) \cup Defined(t, 1)
  <2>1. a \in Held(n)
    BY <1>2 DEF Held
  <2> QED BY <2>1
<1> QED BY <1>1, <1>2 DEF Feeds, Ordered

LEMMA NoText ==
  /\ Taken(<<>>) = {} /\ Tos(<<>>) = {} /\ LocalArgs(<<>>) = {}
  /\ WrittenIn(<<>>, 1) = {} /\ Defined(<<>>, 1) = {}
  /\ \A S : NamesFit(<<>>, S)
  /\ \A i \in 1 .. Len(<<>>) : <<>>[i].op # "fun"
<1>1. Len(<<>>) = 0 /\ 1 .. 0 = {}
  OBVIOUS
<1>2. Names(<<>>) = {}
  BY <1>1 DEF Names
<1> QED BY <1>1, <1>2 DEF Taken, Tos, LocalArgs, WrittenIn, Defined, NamesFit

LEMMA OneItem ==
  ASSUME NEW a \in Items
  PROVE  LET t == <<a>>
         IN  /\ Taken(t) = NameOf(a) /\ Tos(t) = Range(a.to)
             /\ LocalArgs(t) = {x \in Range(a.args) : IsLocal(x)}
             /\ WrittenIn(t, 1) = (IF a.op = "label" THEN {a.dst} ELSE {}) /\ Defined(t, 1) = {a.dst}
             /\ \A S : NameOf(a) \subseteq S => NamesFit(t, S)
             /\ a.op # "fun" => \A i \in 1 .. Len(t) : t[i].op # "fun"
<1> DEFINE t == <<a>>
<1>1. Len(t) = 1 /\ t[1] = a
  OBVIOUS
<1>2. 1 .. 1 = {1}
  OBVIOUS
<1> HIDE DEF t
<1>3. /\ \A i \in Names(t) : i = 1 /\ NameOf(a) = {a.dst}
      /\ NameOf(a) # {} => 1 \in Names(t) /\ NameOf(a) = {a.dst}
  BY <1>1, <1>2 DEF Names, NameOf
<1>4. Taken(t) = NameOf(a)
  BY <1>1, <1>3 DEF Taken
<1>5. \A S : NameOf(a) \subseteq S => NamesFit(t, S)
  BY <1>1, <1>3 DEF NamesFit
<1>6. Tos(t) = Range(a.to) /\ LocalArgs(t) = {x \in Range(a.args) : IsLocal(x)}
  BY <1>1, <1>2, Zenon DEF Tos, LocalArgs
<1>7. WrittenIn(t, 1) = (IF a.op = "label" THEN {a.dst} ELSE {}) /\ Defined(t, 1) = {a.dst}
  BY <1>1, <1>2 DEF WrittenIn, Defined
<1> QED BY <1>1, <1>2, <1>4, <1>5, <1>6, <1>7 DEF t

LEMMA TwoItems ==
  ASSUME NEW a \in Items, NEW b \in Items
  PROVE  LET t == <<a, b>>
         IN  /\ Taken(t) = NameOf(a) \cup NameOf(b) /\ Tos(t) = Range(a.to) \cup Range(b.to)
             /\ LocalArgs(t) = {x \in Range(a.args) \cup Range(b.args) : IsLocal(x)}
             /\ WrittenIn(t, 1) = (IF a.op = "label" THEN {a.dst} ELSE {})
                                  \cup (IF b.op = "label" THEN {b.dst} ELSE {})
             /\ Defined(t, 1) = {a.dst, b.dst}
             /\ \A S : NameOf(a) \cup NameOf(b) \subseteq S /\ NameOf(a) \cap NameOf(b) = {}
                       => NamesFit(t, S)
             /\ a.op # "fun" /\ b.op # "fun" => \A i \in 1 .. Len(t) : t[i].op # "fun"
<1> DEFINE t == <<a, b>>
<1>1. Len(t) = 2 /\ t[1] = a /\ t[2] = b
  OBVIOUS
<1>2. 1 .. 2 = {1, 2}
  OBVIOUS
<1> HIDE DEF t
<1>3. /\ \A i \in Names(t) : (i = 1 /\ NameOf(a) = {a.dst}) \/ (i = 2 /\ NameOf(b) = {b.dst})
      /\ NameOf(a) # {} => 1 \in Names(t) /\ NameOf(a) = {a.dst}
      /\ NameOf(b) # {} => 2 \in Names(t) /\ NameOf(b) = {b.dst}
  BY <1>1, <1>2 DEF Names, NameOf
<1>4. Taken(t) = NameOf(a) \cup NameOf(b)
  BY <1>1, <1>3 DEF Taken
<1>5. \A S : NameOf(a) \cup NameOf(b) \subseteq S /\ NameOf(a) \cap NameOf(b) = {} => NamesFit(t, S)
  BY <1>1, <1>3 DEF NamesFit
<1>6. Tos(t) = Range(a.to) \cup Range(b.to)
  BY <1>1, <1>2, Zenon DEF Tos
<1>7. LocalArgs(t) = {x \in Range(a.args) \cup Range(b.args) : IsLocal(x)}
  BY <1>1, <1>2, Zenon DEF LocalArgs
<1>8. Defined(t, 1) = {a.dst, b.dst}
  BY <1>1, <1>2 DEF Defined
<1>9. WrittenIn(t, 1) = (IF a.op = "label" THEN {a.dst} ELSE {})
                        \cup (IF b.op = "label" THEN {b.dst} ELSE {})
  BY <1>1, <1>2 DEF WrittenIn
<1> QED BY <1>1, <1>2, <1>4, <1>5, <1>6, <1>7, <1>8, <1>9 DEF t

\* What the text t says: it takes the names `names`, jumps only to `to`, needs
\* no local operand but those of `args`, writes `labels` and defines `defs`.
Says(t, names, to, args, labels, defs) ==
  /\ t \in Seq(Items) /\ \A i \in 1 .. Len(t) : t[i].op # "fun"
  /\ Taken(t) = names /\ \A S : names \subseteq S => NamesFit(t, S)
  /\ Tos(t) \subseteq to /\ \A a \in Needs(t) : a \in args
  /\ labels \subseteq WrittenIn(t, 1) /\ defs \subseteq Defined(t, 1)

\* What the calls n leave to be done: they write `pending`, jump to `goals`
\* and keep the operands `held`; others may jump to `owed`.
Leaves(n, pending, goals, held, owed) ==
  /\ n \in Seq(Frames) /\ Ordered(n)
  /\ Pending(n) = pending /\ \A S : pending \subseteq S => CallsFit(n, S)
  /\ Goals(n) \subseteq goals /\ \A a \in Held(n) : a \in held
  /\ owed \subseteq Promised(n)

LEMMA ItemFields ==
  /\ Ret(<<>>).args = <<>> /\ Ret(<<>>).to = <<>> /\ NameOf(Ret(<<>>)) = {}
  /\ End.args = <<>> /\ End.to = <<>> /\ NameOf(End) = {}
  /\ \A l : Label(l).dst = l /\ Label(l).args = <<>> /\ Label(l).to = <<>>
            /\ NameOf(Label(l)) = {l} \ {Entry}
  /\ \A l : Jump(l).args = <<>> /\ Jump(l).to = <<l>> /\ NameOf(Jump(l)) = {}
  /\ \A c, t, f : Br(c, t, f).args = <<c>> /\ Br(c, t, f).to = <<t, f>> /\ NameOf(Br(c, t, f)) = {}
  /\ \A args : Ret(args).args = args /\ Ret(args).to = <<>> /\ NameOf(Ret(args)) = {}
  /\ \A v : Alloc(v).dst = v /\ Alloc(v).args = <<>> /\ Alloc(v).to = <<>>
            /\ NameOf(Alloc(v)) = (IF IsLocal(v) THEN {v} ELSE {})
  /\ \A a, d : Store(a, d).args = <<a, d>> /\ Store(a, d).to = <<>> /\ NameOf(Store(a, d)) = {}
  /\ \A op, r, args : /\ Ins(op, r, args).dst = r /\ Ins(op, r, args).args = args
                      /\ Ins(op, r, args).to = <<>>
                      /\ op # "label" /\ IsLocal(r) => NameOf(Ins(op, r, args)) = {r}
  BY DEF Ret, End, Label, Jump, Br, Alloc, Store, Ins, Item, NameOf, IsLocal, None, Entry

LEMMA Ranges ==
  /\ Range(<<>>) = {}
  /\ \A a : Range(<<a>>) = {a}
  /\ \A a, b : Range(<<a, b>>) = {a, b}
  BY DEF Range

LEMMA RangeParts ==
  ASSUME NEW S, NEW s \in Seq(S)
  PROVE  /\ \A x \in S : Range(Append(s, x)) = Range(s) \cup {x}
         /\ s # <<>> => /\ Head(s) \in S /\ Head(s) \in Range(s)
                        /\ Tail(s) \in Seq(S) /\ Range(Tail(s)) \subseteq Range(s)
<1>1. ASSUME NEW x \in S PROVE Range(Append(s, x)) = Range(s) \cup {x}
  <2> PICK t, n : t = Append(s, x) /\ n = Len(s)
    OBVIOUS
  <2>1. /\ n \in Nat /\ DOMAIN t = 1 .. n + 1 /\ DOMAIN s = 1 .. n
        /\ t[n + 1] = x /\ \A i \in 1 .. n : t[i] = s[i]
    OBVIOUS
  <2>2. 1 .. n + 1 = (1 .. n) \cup {n + 1}
    BY <2>1
  <2> QED BY <2>1, <2>2 DEF Range
<1>2. ASSUME s # <<>>
      PROVE  /\ Head(s) \in S /\ Head(s) \in Range(s)
             /\ Tail(s) \in Seq(S) /\ Range(Tail(s)) \subseteq Range(s)
  <2> PICK t : t = Tail(s)
    OBVIOUS
  <2>1. /\ Head(s) = s[1] /\ 1 \in DOMAIN s /\ Head(s) \in S /\ t \in Seq(S)
        /\ \A i \in DOMAIN t : i + 1 \in DOMAIN s /\ t[i] = s[i + 1]
    BY <1>2
  <2>2. Range(t) \subseteq Range(s) /\ Head(s) \in Range(s)
    BY <2>1 DEF Range
  <2> QED BY <2>1, <2>2
<1> QED BY <1>1, <1>2

LEMMA Locals ==
  /\ \A n : IsLocal(Reg(n)) /\ IsLocal(Temp(n))
  /\ \A n : ~ IsLocal(Imm(n)) /\ ~ IsLocal(Var(n)) /\ ~ IsLocal(<<"leaf", n>>)
  /\ \A kind, n : kind # "entry" => Lab(kind, n) # Entry
  BY DEF IsLocal, Reg, Temp, Imm, Var, Lab, Entry

-----------------------------------------------------------------------------
(* The texts of the handlers *)

LEMMA EmptyText == Says(<<>>, {}, {}, {}, {}, {})
  BY NoText, Tuples DEF Says, Needs

LEMMA OneText ==
  ASSUME NEW a \in Items, a.op # "fun", NEW to, NEW args, Range(a.to) \subseteq to,
         \A x \in Range(a.args) : IsLocal(x) => x \in args
  PROVE  Says(<<a>>, NameOf(a), to, args, IF a.op = "label" THEN {a.dst} ELSE {}, {a.dst})
<1> PICK t : t = <<a>>
  OBVIOUS
<1>1. t \in Seq(Items)
  BY Tuples
<1>2. /\ Taken(t) = NameOf(a) /\ Tos(t) = Range(a.to)
      /\ LocalArgs(t) = {x \in Range(a.args) : IsLocal(x)}
      /\ WrittenIn(t, 1) = (IF a.op = "label" THEN {a.dst} ELSE {}) /\ Defined(t, 1) = {a.dst}
      /\ \A S : NameOf(a) \subseteq S => NamesFit(t, S)
      /\ \A i \in 1 .. Len(t) : t[i].op # "fun"
  BY OneItem
<1>3. \A x \in Needs(t) : x \in args
  BY <1>2 DEF Needs
<1> QED BY <1>1, <1>2, <1>3, Zenon DEF Says

LEMMA TwoText ==
  ASSUME NEW a \in Items, a.op # "fun", NEW b \in Items, b.op # "fun",
         NameOf(a) \cap NameOf(b) = {}, NEW to, NEW args,
         Range(a.to) \cup Range(b.to) \subseteq to,
         \A x \in Range(a.args) \cup Range(b.args) : IsLocal(x) => x \in args
  PROVE  Says(<<a, b>>, NameOf(a) \cup NameOf(b), to, args,
              (IF a.op = "label" THEN {a.dst} ELSE {}) \cup (IF b.op = "label" THEN {b.dst} ELSE {}),
              {a.dst, b.dst})
<1> PICK t : t = <<a, b>>
  OBVIOUS
<1>1. t \in Seq(Items)
  BY Tuples
<1>2. /\ Taken(t) = NameOf(a) \cup NameOf(b) /\ Tos(t) = Range(a.to) \cup Range(b.to)
      /\ LocalArgs(t) = {x \in Range(a.args) \cup Range(b.args) : IsLocal(x)}
      /\ WrittenIn(t, 1) = (IF a.op = "label" THEN {a.dst} ELSE {})
                           \cup (IF b.op = "label" THEN {b.dst} ELSE {})
      /\ Defined(t, 1) = {a.dst, b.dst}
      /\ \A S : NameOf(a) \cup NameOf(b) \subseteq S => NamesFit(t, S)
      /\ \A i \in 1 .. Len(t) : t[i].op # "fun"
  BY TwoItems
<1>3. \A x \in Needs(t) : x \in args
  BY <1>2 DEF Needs
<1> QED BY <1>1, <1>2, <1>3, Zenon DEF Says

\* A text behind another may use what the other defines.
LEMMA BothTexts ==
  ASSUME NEW t, NEW names, NEW to, NEW args, NEW labels, NEW defs,
         Says(t, names, to, args, labels, defs),
         NEW u, NEW names2, NEW to2, NEW args2, NEW labels2, NEW defs2,
         Says(u, names2, to2, args2, labels2, defs2), names \cap names2 = {}
  PROVE  Says(t \o u, names \cup names2, to \cup to2, args \cup (args2 \ defs),
              labels \cup labels2, defs \cup defs2)
<1> DEFINE r == t \o u
<1>0. t \in Seq(Items) /\ u \in Seq(Items)
  BY DEF Says
<1>1. /\ r \in Seq(Items) /\ Len(r) = Len(t) + Len(u) /\ Len(t) \in Nat /\ Len(u) \in Nat
      /\ \A i \in 1 .. Len(t) : r[i] = t[i]
      /\ \A i \in 1 .. Len(u) : r[Len(t) + i] = u[i]
      /\ \A i \in 1 .. Len(r) : i \in 1 .. Len(t) \/ \E j \in 1 .. Len(u) : i = Len(t) + j
  BY <1>0, Behind
<1> HIDE DEF r
<1>2. ASSUME NEW i \in 1 .. Len(r)
      PROVE  \/ i \in 1 .. Len(t) /\ r[i] = t[i]
             \/ \E j \in 1 .. Len(u) : i = Len(t) + j /\ r[i] = u[j]
  BY <1>1
<1>3. /\ \A i \in 1 .. Len(t) : i \in 1 .. Len(r) /\ r[i] = t[i]
      /\ \A i \in 1 .. Len(u) : Len(t) + i \in 1 .. Len(r) /\ r[Len(t) + i] = u[i]
  BY <1>1
<1>4. \A i \in 1 .. Len(r) : r[i].op # "fun"
  BY <1>2 DEF Says
<1>5. ASSUME NEW i \in Names(r)
      PROVE  \/ i \in Names(t) /\ r[i] = t[i]
             \/ \E j \in Names(u) : i = Len(t) + j /\ r[i] = u[j]
  BY <1>2 DEF Names
<1>6. /\ \A i \in Names(t) : i \in Names(r) /\ r[i] = t[i]
      /\ \A i \in Names(u) : Len(t) + i \in Names(r) /\ r[Len(t) + i] = u[i]
  BY <1>3 DEF Names
<1>7. Taken(t) = names /\ Taken(u) = names2
  BY DEF Says
<1>8. Taken(r) = names \cup names2
  <2>1. \A x \in Taken(r) : x \in Taken(t) \cup Taken(u)
    BY <1>5 DEF Taken
  <2>2. \A x \in Taken(t) \cup Taken(u) : x \in Taken(r)
    BY <1>6 DEF Taken
  <2> QED BY <1>7, <2>1, <2>2
<1>9. ASSUME NEW S, names \cup names2 \subseteq S PROVE NamesFit(r, S)
  <2>1. NamesFit(t, S) /\ NamesFit(u, S)
    BY <1>9 DEF Says
  <2>2. \A i \in Names(t), j \in Names(u) : t[i].dst # u[j].dst
    <3>1. /\ \A i \in Names(t) : t[i].dst \in Taken(t)
          /\ \A j \in Names(u) : u[j].dst \in Taken(u)
      BY DEF Taken
    <3> QED BY <1>7, <3>1
  <2>3. ASSUME NEW i \in Names(r) PROVE r[i].dst \in S
    BY <1>5, <2>1 DEF NamesFit
  <2>4. ASSUME NEW i \in Names(r), NEW j \in Names(r), j # i PROVE r[j].dst # r[i].dst
    <3>1. CASE i \in Names(t) /\ r[i] = t[i]
      <4>1. CASE j \in Names(t) /\ r[j] = t[j]
        BY <2>1, <2>4, <3>1, <4>1 DEF NamesFit
      <4>2. CASE \E b \in Names(u) : j = Len(t) + b /\ r[j] = u[b]
        BY <2>2, <3>1, <4>2
      <4> QED BY <1>5, <4>1, <4>2
    <3>2. CASE \E a \in Names(u) : i = Len(t) + a /\ r[i] = u[a]
      <4>0. PICK a \in Names(u) : i = Len(t) + a /\ r[i] = u[a]
        BY <3>2
      <4>1. CASE j \in Names(t) /\ r[j] = t[j]
        BY <2>2, <4>0, <4>1
      <4>2. CASE \E b \in Names(u) : j = Len(t) + b /\ r[j] = u[b]
        <5>1. PICK b \in Names(u) : j = Len(t) + b /\ r[j] = u[b]
          BY <4>2
        <5>2. b # a
          BY <2>4, <4>0, <5>1
        <5>3. u[b].dst # u[a].dst
          BY <2>1, <5>2 DEF NamesFit
        <5> QED BY <4>0, <5>1, <5>3
      <4> QED BY <1>5, <4>1, <4>2
    <3> QED BY <1>5, <3>1, <3>2
  <2> QED BY <2>3, <2>4 DEF NamesFit
<1>10. Tos(r) \subseteq to \cup to2
  <2>1. \A x \in Tos(r) : x \in Tos(t) \cup Tos(u)
    BY <1>2 DEF Tos
  <2> QED BY <2>1 DEF Says
<1>11. ASSUME NEW a \in Needs(r) PROVE a \in args \cup (args2 \ defs)
  <2>0. IsLocal(a)
    BY DEF Needs, LocalArgs
  <2>1. PICK i \in 1 .. Len(r) : a \in Range(r[i].args) /\ \A j \in 1 .. i - 1 : r[j].dst # a
    BY DEF Needs
  <2>2. CASE i \in 1 .. Len(t) /\ r[i] = t[i]
    <3>1. \A j \in 1 .. i - 1 : t[j].dst # a
      BY <1>1, <2>1, <2>2
    <3>2. a \in Needs(t)
      BY <2>0, <2>1, <2>2, <3>1 DEF Needs, LocalArgs
    <3> QED BY <3>2 DEF Says
  <2>3. CASE \E c \in 1 .. Len(u) : i = Len(t) + c /\ r[i] = u[c]
    <3>1. PICK c \in 1 .. Len(u) : i = Len(t) + c /\ r[i] = u[c]
      BY <2>3
    <3>2. ASSUME NEW j \in 1 .. c - 1 PROVE u[j].dst # a
      <4>1. j \in 1 .. Len(u) /\ Len(t) + j \in 1 .. i - 1
        BY <1>1, <3>1
      <4> QED BY <1>1, <2>1, <4>1
    <3>3. a \in Needs(u)
      BY <2>0, <2>1, <3>1, <3>2 DEF Needs, LocalArgs
    <3>4. a \notin Defined(t, 1)
      <4>1. \A j \in 1 .. Len(t) : j \in 1 .. i - 1 /\ r[j] = t[j]
        BY <1>1, <3>1
      <4> QED BY <2>1, <4>1 DEF Defined
    <3> QED BY <3>3, <3>4 DEF Says
  <2> QED BY <1>2, <2>2, <2>3
<1>12. labels \cup labels2 \subseteq WrittenIn(r, 1)
  <2>1. WrittenIn(t, 1) \subseteq WrittenIn(r, 1) /\ WrittenIn(u, 1) \subseteq WrittenIn(r, 1)
    BY <1>3 DEF WrittenIn
  <2> QED BY <2>1 DEF Says
<1>13. defs \cup defs2 \subseteq Defined(r, 1)
  <2>1. Defined(t, 1) \subseteq Defined(r, 1) /\ Defined(u, 1) \subseteq Defined(r, 1)
    BY <1>3 DEF Defined
  <2> QED BY <2>1 DEF Says
<1> QED BY <1>1, <1>4, <1>8, <1>9, <1>10, <1>11, <1>12, <1>13 DEF Says, r

LEMMA SaysLess ==
  ASSUME NEW t, NEW names, NEW to, NEW args, NEW labels, NEW defs,
         Says(t, names, to, args, labels, defs),
         NEW to2, NEW args2, NEW labels2, NEW defs2,
         to \subseteq to2, args \subseteq args2, labels2 \subseteq labels, defs2 \subseteq defs
  PROVE  Says(t, names, to2, args2, labels2, defs2)
  BY DEF Says

LEMMA LabelText ==
  ASSUME NEW l \in Labels, l # Entry
  PROVE  Says(<<Label(l)>>, {l}, {}, {}, {l}, {})
<1> PICK a : a = Label(l)
  OBVIOUS
<1>1. /\ a \in Items /\ a.op = "label" /\ a.dst = l /\ Range(a.to) = {} /\ Range(a.args) = {}
      /\ NameOf(a) = {l}
  BY ControlItems, ItemFields, Ranges
<1>2. Says(<<a>>, NameOf(a), {}, {}, IF a.op = "label" THEN {a.dst} ELSE {}, {a.dst})
  BY <1>1, OneText
<1> QED BY <1>1, <1>2 DEF Says

LEMMA JumpText ==
  ASSUME NEW to \in Labels, NEW l \in Labels, l # Entry
  PROVE  Says(<<Jump(to), Label(l)>>, {l}, {to}, {}, {l}, {})
<1> PICK a, b : a = Jump(to) /\ b = Label(l)
  OBVIOUS
<1>a. a \in Items /\ a.op = "jump" /\ a.to = <<to>> /\ a.args = <<>> /\ NameOf(a) = {}
  BY ControlItems, ItemFields
<1>0. Range(a.to) = {to} /\ Range(a.args) = {}
  BY <1>a, Ranges
<1>1. /\ b \in Items /\ b.op = "label" /\ b.dst = l /\ Range(b.to) = {} /\ Range(b.args) = {}
      /\ NameOf(b) = {l}
  BY ControlItems, ItemFields, Ranges
<1>2. Says(<<a, b>>, NameOf(a) \cup NameOf(b), {to}, {},
           (IF a.op = "label" THEN {a.dst} ELSE {}) \cup (IF b.op = "label" THEN {b.dst} ELSE {}),
           {a.dst, b.dst})
  BY <1>a, <1>0, <1>1, TwoText
<1> QED BY <1>a, <1>0, <1>1, <1>2 DEF Says

LEMMA BrText ==
  ASSUME NEW c \in Operands, NEW f \in Labels, NEW g \in Labels, NEW l \in Labels, l # Entry
  PROVE  Says(<<Br(c, f, g), Label(l)>>, {l}, {f, g}, {c}, {l}, {})
<1> PICK a, b : a = Br(c, f, g) /\ b = Label(l)
  OBVIOUS
<1>a. a \in Items /\ a.op = "br" /\ a.to = <<f, g>> /\ a.args = <<c>> /\ NameOf(a) = {}
  BY ControlItems, ItemFields
<1>0. Range(a.to) = {f, g} /\ Range(a.args) = {c}
  BY <1>a, Ranges
<1>1. /\ b \in Items /\ b.op = "label" /\ b.dst = l /\ Range(b.to) = {} /\ Range(b.args) = {}
      /\ NameOf(b) = {l}
  BY ControlItems, ItemFields, Ranges
<1>2. Says(<<a, b>>, NameOf(a) \cup NameOf(b), {f, g}, {c},
           (IF a.op = "label" THEN {a.dst} ELSE {}) \cup (IF b.op = "label" THEN {b.dst} ELSE {}),
           {a.dst, b.dst})
  BY <1>a, <1>0, <1>1, TwoText
<1> QED BY <1>a, <1>0, <1>1, <1>2 DEF Says

LEMMA JoinSays ==
  ASSUME NEW is_ret \in BOOLEAN, NEW to \in Labels, NEW l \in Labels, l # Entry
  PROVE  Says(JoinText(is_ret, to, l), {l}, {to}, {}, {l}, {})
<1>1. Says(<<Label(l)>>, {l}, {to}, {}, {l}, {})
  BY LabelText DEF Says
<1>2. Says(<<Jump(to), Label(l)>>, {l}, {to}, {}, {l}, {})
  BY JumpText
<1> QED BY <1>1, <1>2 DEF JoinText

LEMMA CloseText == Says(<<End>>, {}, {}, {}, {}, {}) /\ Says(<<Ret(<<>>), End>>, {}, {}, {}, {}, {})
<1> PICK a, b : a = Ret(<<>>) /\ b = End
  OBVIOUS
<1>1. /\ a \in Items /\ a.op = "ret" /\ Range(a.to) = {} /\ Range(a.args) = {} /\ NameOf(a) = {}
      /\ b \in Items /\ b.op = "end" /\ Range(b.to) = {} /\ Range(b.args) = {} /\ NameOf(b) = {}
  BY ControlItems, ItemFields, Ranges, Tuples
<1>2. Says(<<b>>, NameOf(b), {}, {}, IF b.op = "label" THEN {b.dst} ELSE {}, {b.dst})
  BY <1>1, OneText
<1>3. Says(<<a, b>>, NameOf(a) \cup NameOf(b), {}, {},
           (IF a.op = "label" THEN {a.dst} ELSE {}) \cup (IF b.op = "label" THEN {b.dst} ELSE {}),
           {a.dst, b.dst})
  BY <1>1, TwoText
<1> QED BY <1>1, <1>2, <1>3 DEF Says

LEMMA RetText ==
  /\ \A v \in Operands : Says(<<Ret(<<v>>)>>, {}, {}, {v}, {}, {})
  /\ Says(<<Ret(<<>>)>>, {}, {}, {}, {}, {})
<1>1. ASSUME NEW args \in Seq(Operands), NEW held, Range(args) = held
      PROVE  Says(<<Ret(args)>>, {}, {}, held, {}, {})
  <2> PICK a : a = Ret(args)
    OBVIOUS
  <2>1. a \in Items /\ a.op = "ret" /\ Range(a.to) = {} /\ Range(a.args) = held /\ NameOf(a) = {}
    BY <1>1, ControlItems, ItemFields, Ranges
  <2>2. Says(<<a>>, NameOf(a), {}, held, IF a.op = "label" THEN {a.dst} ELSE {}, {a.dst})
    BY <2>1, OneText
  <2> QED BY <2>1, <2>2 DEF Says
<1>2. \A v \in Operands : <<v>> \in Seq(Operands) /\ Range(<<v>>) = {v}
  BY Ranges, Tuples
<1>3. <<>> \in Seq(Operands) /\ Range(<<>>) = {}
  BY Ranges, Tuples
<1> QED BY <1>1, <1>2, <1>3

LEMMA StoreText ==
  ASSUME NEW v \in Operands, NEW x \in Operands
  PROVE  Says(<<Store(v, x)>>, {}, {}, {v, x}, {}, {})
<1> PICK a : a = Store(v, x)
  OBVIOUS
<1>0. /\ a \in Items /\ a.op = "store" /\ a.to = <<>> /\ a.args = <<v, x>> /\ NameOf(a) = {}
  BY PlainItems, ItemFields
<1>1. a \in Items /\ a.op = "store" /\ Range(a.to) = {} /\ Range(a.args) = {v, x} /\ NameOf(a) = {}
  BY <1>0, Ranges
<1>2. Says(<<a>>, NameOf(a), {}, {v, x}, IF a.op = "label" THEN {a.dst} ELSE {}, {a.dst})
  BY <1>1, OneText
<1> QED BY <1>1, <1>2 DEF Says

LEMMA VarText ==
  ASSUME NEW v \in Operands, NEW n \in Nat
  PROVE  Says(<<Alloc(Var(n)), Store(v, Var(n))>>, {}, {}, {v}, {}, {})
<1> PICK a, b : a = Alloc(Var(n)) /\ b = Store(v, Var(n))
  OBVIOUS
<1>0. Var(n) \in Operands /\ ~ IsLocal(Var(n))
  BY OperandType, Locals
<1>a. a \in Items /\ a.op = "alloc" /\ a.to = <<>> /\ a.args = <<>> /\ NameOf(a) = {}
  BY <1>0, PlainItems, ItemFields
<1>b. b \in Items /\ b.op = "store" /\ b.to = <<>> /\ b.args = <<v, Var(n)>> /\ NameOf(b) = {}
  BY <1>0, PlainItems, ItemFields
<1>1. /\ a \in Items /\ a.op = "alloc" /\ Range(a.to) = {} /\ Range(a.args) = {} /\ NameOf(a) = {}
      /\ b \in Items /\ b.op = "store" /\ Range(b.to) = {} /\ Range(b.args) = {v, Var(n)}
      /\ NameOf(b) = {}
  BY <1>a, <1>b, Ranges
<1>2. Says(<<a, b>>, NameOf(a) \cup NameOf(b), {}, {v},
           (IF a.op = "label" THEN {a.dst} ELSE {}) \cup (IF b.op = "label" THEN {b.dst} ELSE {}),
           {a.dst, b.dst})
  BY <1>0, <1>1, TwoText
<1> QED BY <1>1, <1>2 DEF Says

LEMMA AllocText ==
  ASSUME NEW n \in Nat
  PROVE  Says(<<Alloc(Temp(n))>>, {Temp(n)}, {}, {}, {}, {Temp(n)})
<1> PICK a : a = Alloc(Temp(n))
  OBVIOUS
<1>1. /\ a \in Items /\ a.op = "alloc" /\ Range(a.to) = {} /\ Range(a.args) = {} /\ a.dst = Temp(n)
      /\ NameOf(a) = {Temp(n)}
  BY OperandType, Locals, PlainItems, ItemFields, Ranges
<1>2. Says(<<a>>, NameOf(a), {}, {}, IF a.op = "label" THEN {a.dst} ELSE {}, {a.dst})
  BY <1>1, OneText
<1> QED BY <1>1, <1>2 DEF Says

LEMMA InsText ==
  ASSUME NEW op \in {"ins", "getelemptr", "getptr", "or", "ne", "and", "load"}, NEW n \in Nat,
         NEW args \in Seq(Operands), NEW held, \A x \in Range(args) : IsLocal(x) => x \in held
  PROVE  Says(<<Ins(op, Reg(n), args)>>, {Reg(n)}, {}, held, {}, {Reg(n)})
<1> PICK a : a = Ins(op, Reg(n), args)
  OBVIOUS
<1>0. Reg(n) \in Operands /\ IsLocal(Reg(n)) /\ op # "label"
  BY OperandType, Locals
<1>a. a \in Items /\ a.op = op
  BY <1>0, PlainItems
<1>b. a.to = <<>> /\ a.args = args /\ a.dst = Reg(n) /\ NameOf(a) = {Reg(n)}
  BY <1>0, ItemFields
<1>1. /\ a \in Items /\ a.op = op /\ Range(a.to) = {} /\ a.args = args /\ a.dst = Reg(n)
      /\ NameOf(a) = {Reg(n)}
  BY <1>a, <1>b, Ranges
<1>2. Says(<<a>>, NameOf(a), {}, held, IF a.op = "label" THEN {a.dst} ELSE {}, {a.dst})
  BY <1>1, OneText
<1> QED BY <1>1, <1>2 DEF Says

-----------------------------------------------------------------------------
(* The calls of the handlers *)

LEMMA PlainCalls ==
  ASSUME NEW f, f.at \in {"Stmt", "Exp", "Block", "FuncEnd", "VarDef", "Ret", "Branch"}
  PROVE  Reserved(f) = {} /\ Aims(f) = {} /\ Holds(f) = {} /\ Owes(f) = {}
  BY DEF Reserved, Aims, Holds, Owes

LEMMA PlaceCalls ==
  ASSUME NEW f
  PROVE  /\ f.at \in {"Index", "ElemPtr"} =>
              /\ Reserved(f) = {} /\ Aims(f) = {} /\ Owes(f) = {} /\ f.at \notin Returners
         /\ f.at = "Index" => Holds(f) = Range(f.had) /\ f.at \in Readers
         /\ f.at = "ElemPtr" => Holds(f) = Range(f.indices) /\ f.at \notin Readers
  BY DEF Reserved, Aims, Holds, Owes, Returners, Readers

LEMMA NoCalls == Leaves(<<>>, {}, {}, {}, {})
<1>1. Len(<<>>) = 0 /\ 1 .. 0 = {} /\ <<>> \in Seq(Frames) /\ 1 .. 0 - 1 = {}
  OBVIOUS
<1> QED BY <1>1 DEF Leaves, Ordered, Pending, CallsFit, Goals, Held, Promised

LEMMA OneCall ==
  ASSUME NEW g \in Frames, g.at \in {"Stmt", "Exp", "Block"}
  PROVE  Leaves(<<g>>, {}, {}, {}, {})
<1> PICK n : n = <<g>>
  OBVIOUS
<1>1. /\ n \in Seq(Frames) /\ n[1] = g /\ 1 .. Len(n) = {1} /\ 1 .. Len(n) - 1 = {}
  <2>1. n \in Seq(Frames)
    BY Tuples
  <2> QED BY <2>1
<1>2. Reserved(g) = {} /\ Aims(g) = {} /\ Holds(g) = {} /\ g.at \notin Readers
  BY PlainCalls DEF Readers
<1>3. Ordered(n)
  BY <1>1, <1>2 DEF Ordered
<1>4. Pending(n) = {} /\ Goals(n) = {} /\ Held(n) = {}
  BY <1>1, <1>2 DEF Pending, Goals, Held
<1>5. \A S : CallsFit(n, S)
  BY <1>1, <1>2 DEF CallsFit
<1> QED BY <1>1, <1>3, <1>4, <1>5 DEF Leaves

LEMMA TwoCalls ==
  ASSUME NEW g \in Frames, g.at \in {"Stmt", "Exp", "Block"}, NEW f \in Frames,
         f.at \in Readers => g.at = "Exp",
         NEW held, \A a \in Holds(f) : IsLocal(a) => a \in held
  PROVE  Leaves(<<g, f>>, Reserved(f), Aims(f), held, Owes(f))
<1> PICK n : n = <<g, f>>
  OBVIOUS
<1>1. /\ n \in Seq(Frames) /\ n[1] = g /\ n[2] = f /\ 1 .. Len(n) = {1, 2} /\ 1 .. Len(n) - 1 = {1}
  <2>1. n \in Seq(Frames)
    BY Tuples
  <2>2. Len(n) = 2 /\ 1 .. 2 = {1, 2} /\ 1 .. 2 - 1 = {1}
    OBVIOUS
  <2> QED BY <2>1, <2>2
<1>2. Reserved(g) = {} /\ Aims(g) = {} /\ Holds(g) = {} /\ Owes(g) = {} /\ g.at \notin Readers
  BY PlainCalls DEF Readers
<1>3. Ordered(n)
  BY <1>1, <1>2 DEF Ordered, Returners
<1>4. Pending(n) = Reserved(f)
  BY <1>1, <1>2 DEF Pending
<1>5. Goals(n) = Aims(f) /\ Owes(f) \subseteq Promised(n)
  BY <1>1, <1>2 DEF Goals, Promised
<1>6. \A a \in Held(n) : a \in held
  BY <1>1, <1>2 DEF Held
<1>7. \A S : Reserved(f) \subseteq S => CallsFit(n, S)
  BY <1>1, <1>2 DEF CallsFit
<1> QED BY <1>1, <1>3, <1>4, <1>5, <1>6, <1>7 DEF Leaves

LEMMA DeclCalls ==
  ASSUME NEW g \in Frames, g.at = "Exp", NEW f \in Frames, f.at = "VarDef",
         NEW h \in Frames, h.at = "Block"
  PROVE  Leaves(<<g, f, h>>, {}, {}, {}, {})
<1> PICK n : n = <<g, f, h>>
  OBVIOUS
<1>1. /\ n \in Seq(Frames) /\ n[1] = g /\ n[2] = f /\ n[3] = h
      /\ 1 .. Len(n) = {1, 2, 3} /\ 1 .. Len(n) - 1 = {1, 2}
  <2>1. n \in Seq(Frames)
    BY Tuples
  <2>2. Len(n) = 3 /\ 1 .. 3 = {1, 2, 3} /\ 1 .. 3 - 1 = {1, 2}
    OBVIOUS
  <2> QED BY <2>1, <2>2
<1>2. /\ \A x \in {g, f, h} : Reserved(x) = {} /\ Aims(x) = {} /\ Holds(x) = {}
      /\ g.at \notin Readers /\ h.at \notin Readers
  BY PlainCalls DEF Readers
<1>3. Ordered(n)
  BY <1>1, <1>2 DEF Ordered, Returners
<1>4. Pending(n) = {} /\ Goals(n) = {} /\ Held(n) = {}
  BY <1>1, <1>2 DEF Pending, Goals, Held
<1>5. \A S : CallsFit(n, S)
  BY <1>1, <1>2 DEF CallsFit
<1> QED BY <1>1, <1>3, <1>4, <1>5 DEF Leaves

LEMMA ElseCalls ==
  ASSUME NEW s \in Stmts, NEW r \in Stmts, NEW e \in Labels, NEW l \in Labels, e # l
  PROVE  Leaves(<<StmtF(s), Join(e, l), StmtF(r), Join(e, e)>>, {e, l}, {e}, {}, {e, l})
<1> PICK g, f, h, j : g = StmtF(s) /\ f = Join(e, l) /\ h = StmtF(r) /\ j = Join(e, e)
  OBVIOUS
<1> PICK n : n = <<g, f, h, j>>
  OBVIOUS
<1>0. /\ g \in Frames /\ f \in Frames /\ h \in Frames /\ j \in Frames
      /\ g.at = "Stmt" /\ h.at = "Stmt" /\ f.at = "Join" /\ j.at = "Join"
      /\ Reserved(f) = {l} /\ Reserved(j) = {e} /\ Aims(f) = {e} /\ Aims(j) = {e}
      /\ Owes(f) = {l} /\ Owes(j) = {e} /\ Holds(f) = {} /\ Holds(j) = {}
  BY FrameType DEF StmtF, Join, Reserved, Aims, Owes, Holds
<1>1. /\ n \in Seq(Frames) /\ n[1] = g /\ n[2] = f /\ n[3] = h /\ n[4] = j
      /\ 1 .. Len(n) = {1, 2, 3, 4} /\ 1 .. Len(n) - 1 = {1, 2, 3}
  <2>1. n \in Seq(Frames)
    BY <1>0, Tuples
  <2>2. Len(n) = 4 /\ 1 .. 4 = {1, 2, 3, 4} /\ 1 .. 4 - 1 = {1, 2, 3}
    OBVIOUS
  <2> QED BY <2>1, <2>2
<1>2. /\ \A x \in {g, h} : Reserved(x) = {} /\ Aims(x) = {} /\ Holds(x) = {}
      /\ \A x \in {g, f, h, j} : x.at \notin Readers
  BY <1>0, PlainCalls DEF Readers
<1>3. Ordered(n)
  BY <1>1, <1>2 DEF Ordered
<1>4. Pending(n) = {e, l}
  BY <1>0, <1>1, <1>2 DEF Pending
<1>5. Goals(n) = {e} /\ {e, l} \subseteq Promised(n)
  BY <1>0, <1>1, <1>2 DEF Goals, Promised
<1>6. Held(n) = {}
  BY <1>0, <1>1, <1>2 DEF Held
<1>7. \A S : {e, l} \subseteq S => CallsFit(n, S)
  BY <1>0, <1>1, <1>2 DEF CallsFit
<1> QED BY <1>1, <1>3, <1>4, <1>5, <1>6, <1>7 DEF Leaves
-----------------------------------------------------------------------------
(* A step *)

\* The names that this step takes from the counters.
NewNames ==
  Spent(unused_koopa_count', unused_koopa_var_count', unused_koopa_label_count')
    \ Spent(unused_koopa_count, unused_koopa_var_count, unused_koopa_label_count)

\* What is known in the function that is being written.
Known == WrittenIn(k_str, Begun) \cup Promised(dump)
Here == Defined(k_str, Begun)

\* The step only adds text: to the function that is being written, or a new one.
Grows ==
  \E t \in Seq(Items) : /\ k_str' = k_str \o t
                        /\ IF dump # <<>> THEN \A i \in 1 .. Len(t) : t[i].op # "fun"
                                          ELSE Begun' = Len(k_str) + 1

\* What a step has to establish besides BlockInv.
TextNext ==
  /\ Numbered(k_str', dump', unused_koopa_count', unused_koopa_var_count', unused_koopa_label_count')
  /\ Sound(k_str', Begun', dump', data')
  /\ Grows

Counting ==
  /\ unused_koopa_count' \in Nat /\ unused_koopa_count <= unused_koopa_count'
  /\ unused_koopa_var_count' \in Nat /\ unused_koopa_var_count <= unused_koopa_var_count'
  /\ unused_koopa_label_count' \in Nat /\ unused_koopa_label_count <= unused_koopa_label_count'

\* A counter that moves on gives out new names.
LEMMA FreshNames ==
  ASSUME TypeOK, Counting
  PROVE  /\ \A n \in unused_koopa_count .. unused_koopa_count' - 1 : Reg(n) \in NewNames
         /\ \A n \in unused_koopa_var_count .. unused_koopa_var_count' - 1 : Temp(n) \in NewNames
         /\ \A kind \in LabelKinds \ {"entry"} :
              \A n \in unused_koopa_label_count .. unused_koopa_label_count' - 1 :
                Lab(kind, n) \in NewNames
         /\ Spent(unused_koopa_count', unused_koopa_var_count', unused_koopa_label_count')
              = Spent(unused_koopa_count, unused_koopa_var_count, unused_koopa_label_count)
                  \cup NewNames
         /\ NewNames
              \cap Spent(unused_koopa_count, unused_koopa_var_count, unused_koopa_label_count) = {}
<1> PICK c, v, l, c1, v1, l1 :
      /\ c = unused_koopa_count /\ v = unused_koopa_var_count /\ l = unused_koopa_label_count
      /\ c1 = unused_koopa_count' /\ v1 = unused_koopa_var_count' /\ l1 = unused_koopa_label_count'
  OBVIOUS
<1>1. /\ c \in Nat /\ v \in Nat /\ l \in Nat /\ c1 \in Nat /\ v1 \in Nat /\ l1 \in Nat
      /\ c <= c1 /\ v <= v1 /\ l <= l1
  BY DEF TypeOK, Counting
<1> PICK new : new = Spent(c1, v1, l1) \ Spent(c, v, l)
  OBVIOUS
<1>2. /\ Spent(c1, v1, l1) = Spent(c, v, l) \cup new /\ new \cap Spent(c, v, l) = {}
      /\ \A n \in c .. c1 - 1 : Reg(n) \in new
      /\ \A n \in v .. v1 - 1 : Temp(n) \in new
      /\ \A kind \in LabelKinds \ {"entry"} : \A n \in l .. l1 - 1 : Lab(kind, n) \in new
  <2>1. /\ 0 .. c - 1 \subseteq 0 .. c1 - 1 /\ 0 .. v - 1 \subseteq 0 .. v1 - 1
        /\ 0 .. l - 1 \subseteq 0 .. l1 - 1
    BY ONLY <1>1
  <2>2. /\ \A n \in c .. c1 - 1 : n \in 0 .. c1 - 1 /\ n \notin 0 .. c - 1
        /\ \A n \in v .. v1 - 1 : n \in 0 .. v1 - 1 /\ n \notin 0 .. v - 1
        /\ \A n \in l .. l1 - 1 : n \in 0 .. l1 - 1 /\ n \notin 0 .. l - 1
    BY ONLY <1>1
  <2>3. "%" # "%temp_l_result" /\ "%" \notin LabelKinds /\ "%temp_l_result" \notin LabelKinds
    BY DEF LabelKinds
  <2> QED BY <2>1, <2>2, <2>3 DEF Spent, Reg, Temp, Lab
<1> QED BY <1>2 DEF NewNames

\* The calls from which the innermost one was made, and the text so far.
LEMMA Inside ==
  ASSUME TextInv, dump # <<>>
  PROVE  /\ TypeOK /\ k_str \in Seq(Items) /\ dump \in Seq(Frames) /\ data \in Operands /\ k_str # <<>>
         /\ Head(dump) = dump[1] /\ 1 \in 1 .. Len(dump) /\ dump[1] \in Frames
         /\ unused_koopa_count \in Nat /\ unused_koopa_var_count \in Nat
         /\ unused_koopa_label_count \in Nat /\ last_ins_is_ret \in BOOLEAN
         /\ Sound(k_str, Begun, dump, data)
         /\ dump[1].at \in Readers => (IsLocal(data) => data \in Here)
         /\ \A i \in 1 .. Len(dump) : Aims(dump[i]) \subseteq Known
         /\ \A i \in 1 .. Len(dump) : \A a \in Holds(dump[i]) : IsLocal(a) => a \in Here
<1>1. /\ TypeOK /\ k_str \in Seq(Items) /\ dump \in Seq(Frames) /\ data \in Operands /\ k_str # <<>>
      /\ unused_koopa_count \in Nat /\ unused_koopa_var_count \in Nat
      /\ unused_koopa_label_count \in Nat /\ last_ins_is_ret \in BOOLEAN
      /\ Sound(k_str, Begun, dump, data)
  BY DEF TextInv, BlockInv, TypeOK, EndOfText
<1>2. Head(dump) = dump[1] /\ 1 \in 1 .. Len(dump) /\ dump[1] \in Frames
  BY <1>1
<1>3. Lands(k_str, Begun, dump) /\ Ready(k_str, Begun, dump, data)
  BY <1>1 DEF Sound
<1> QED BY <1>1, <1>2, <1>3, Zenon DEF Lands, Ready, Known, Here, Backed

\* The innermost call writes t and leaves the calls n; what they take, write,
\* refer to and define is in order.
Moves(t, names, to, args, labels, defs, n, pending, goals, held, owed) ==
  /\ Says(t, names, to, args, labels, defs) /\ k_str' = k_str \o t
  /\ Leaves(n, pending, goals, held, owed) /\ dump' = n \o Tail(dump)
  /\ Counting
  /\ names \cup pending \subseteq Reserved(dump[1]) \cup NewNames /\ names \cap pending = {}
  /\ to \cup goals \subseteq Known \cup labels \cup owed /\ Owes(dump[1]) \subseteq labels \cup owed
  /\ \A a \in args : IsLocal(a) => a \in Here
  /\ \A a \in held : IsLocal(a) => a \in Here \cup defs
  /\ dump[1].at \in Returners =>
       IF n = <<>> THEN IsLocal(data') => data' \in Here \cup defs
       ELSE n[Len(n)].at \in Returners

LEMMA TextStep ==
  ASSUME TextInv, dump # <<>>,
         NEW t, NEW names, NEW to, NEW args, NEW labels, NEW defs,
         NEW n, NEW pending, NEW goals, NEW held, NEW owed,
         Moves(t, names, to, args, labels, defs, n, pending, goals, held, owed)
  PROVE  TextNext
<1>0. /\ Says(t, names, to, args, labels, defs) /\ k_str' = k_str \o t
      /\ Leaves(n, pending, goals, held, owed) /\ dump' = n \o Tail(dump)
      /\ Counting
      /\ names \cup pending \subseteq Reserved(dump[1]) \cup NewNames /\ names \cap pending = {}
      /\ to \cup goals \subseteq Known \cup labels \cup owed
      /\ Owes(dump[1]) \subseteq labels \cup owed
      /\ \A a \in args : IsLocal(a) => a \in Here
      /\ \A a \in held : IsLocal(a) => a \in Here \cup defs
      /\ n # <<>> /\ dump[1].at \in Returners => n[Len(n)].at \in Returners
      /\ n = <<>> /\ dump[1].at \in Returners => (IsLocal(data') => data' \in Here \cup defs)
  BY DEF Moves
<1> PICK S, all, new : /\ S = Spent(unused_koopa_count, unused_koopa_var_count, unused_koopa_label_count)
                       /\ all = Known \cup labels \cup owed /\ new = NewNames
  OBVIOUS
<1>1. /\ k_str \in Seq(Items) /\ dump \in Seq(Frames) /\ Sound(k_str, Begun, dump, data)
      /\ Fits(k_str, dump, S)
  BY Inside DEF TextInv, Numbered
<1>2. /\ Spent(unused_koopa_count', unused_koopa_var_count', unused_koopa_label_count') = S \cup new
      /\ new \cap S = {}
  BY <1>0, Inside, FreshNames
<1>3. /\ names \cup pending \subseteq Reserved(dump[1]) \cup new
      /\ all = WrittenIn(k_str, Begun) \cup Promised(dump) \cup labels \cup owed
      /\ to \cup goals \subseteq all
      /\ \A a \in args : IsLocal(a) => a \in Defined(k_str, Begun)
      /\ \A a \in held : IsLocal(a) => a \in Defined(k_str, Begun) \cup defs
      /\ n = <<>> /\ dump[1].at \in Returners =>
           (IsLocal(data') => data' \in Defined(k_str, Begun) \cup defs)
  BY <1>0 DEF Known, Here
<1>4. /\ Fits(k_str \o t, n \o Tail(dump), S \cup new)
      /\ Sound(k_str \o t, Begun, n \o Tail(dump), data')
  <2> PICK k, s, d, before, operand :
        k = k_str /\ s = Begun /\ d = dump /\ before = data /\ operand = data'
    OBVIOUS
  <2>1. k \in Seq(Items) /\ d \in Seq(Frames) /\ d # <<>> /\ Sound(k, s, d, before) /\ Fits(k, d, S)
    BY <1>1
  <2>2. /\ names \cup pending \subseteq Reserved(d[1]) \cup new
        /\ all = WrittenIn(k, s) \cup Promised(d) \cup labels \cup owed
        /\ to \cup goals \subseteq all /\ Owes(d[1]) \subseteq labels \cup owed
        /\ \A a \in args : IsLocal(a) => a \in Defined(k, s)
        /\ \A a \in held : IsLocal(a) => a \in Defined(k, s) \cup defs
        /\ n # <<>> /\ d[1].at \in Returners => n[Len(n)].at \in Returners
        /\ n = <<>> /\ d[1].at \in Returners => (IsLocal(operand) => operand \in Defined(k, s) \cup defs)
    BY <1>0, <1>3
  <2>3. /\ t \in Seq(Items) /\ \A i \in 1 .. Len(t) : t[i].op # "fun"
        /\ Taken(t) = names /\ NamesFit(t, Reserved(d[1]) \cup new)
        /\ Tos(t) \subseteq to /\ Needs(t) \subseteq Defined(k, s)
        /\ labels \subseteq WrittenIn(t, 1) /\ defs \subseteq Defined(t, 1)
    <3>1. \A a \in Needs(t) : a \in args /\ IsLocal(a)
      BY <1>0 DEF Says, Needs, LocalArgs
    <3> QED BY <1>0, <2>2, <3>1 DEF Says
  <2>4. /\ n \in Seq(Frames) /\ Ordered(n)
        /\ Pending(n) = pending /\ CallsFit(n, Reserved(d[1]) \cup new)
        /\ Goals(n) \subseteq goals /\ Held(n) \subseteq Defined(k, s) \cup Defined(t, 1)
        /\ owed \subseteq Promised(n)
    <3>1. \A a \in Held(n) : a \in held /\ IsLocal(a)
      BY <1>0 DEF Leaves, Held
    <3> QED BY <1>0, <2>2, <2>3, <3>1 DEF Leaves
  <2>5. Fits(t, n, Reserved(d[1]) \cup new)
    BY <1>0, <2>3, <2>4, FitsIf
  <2>6. Leads(k, s, d, t, n)
    <3> PICK here, whole : /\ here = WrittenIn(t, 1) \cup Promised(n)
                           /\ whole = WrittenIn(k, s) \cup Promised(d) \cup here
      OBVIOUS
    <3>1. Tos(t) \subseteq whole /\ Goals(n) \subseteq whole /\ Owes(d[1]) \subseteq here
      BY <1>0, <2>2, <2>3, <2>4
    <3> QED BY <2>3, <3>1, LeadsIf
  <2>7. Feeds(k, s, d, t, n, operand)
    BY <1>0, <2>2, <2>3, <2>4, FeedsIf
  <2>8. Fits(k \o t, n \o Tail(d), S \cup new) /\ Sound(k \o t, s, n \o Tail(d), operand)
    BY <1>2, <2>1, <2>3, <2>4, <2>5, <2>6, <2>7, TextAndCalls
  <2> QED BY <2>8
<1>5. Begun' = Begun
  <2>1. Starts(k_str \o t, Begun) /\ t \in Seq(Items)
    BY <1>0, <1>4 DEF Sound, Says
  <2>2. k_str \o t \in Seq(Items)
    BY <1>1, <2>1, Behind
  <2>3. FunctionStart(k_str \o t) = Begun
    BY <2>1, <2>2, StartIs
  <2> QED BY <1>0, <2>3 DEF Begun
<1>6. Grows
  BY <1>0 DEF Says, Grows
<1> QED BY <1>0, <1>2, <1>4, <1>5, <1>6 DEF TextNext, Numbered

-----------------------------------------------------------------------------
(* One lemma per handler *)

LEMMA TextFuncEnd == ASSUME TextInv, DumpFuncEnd PROVE TextNext
<1>1. /\ dump # <<>> /\ dump[1].at = "FuncEnd" /\ dump' = <<>> \o Tail(dump) /\ Counting
  BY Inside DEF DumpFuncEnd, Running, Continue, counts, Counting
<1>2. PICK t : k_str' = k_str \o t /\ Says(t, {}, {}, {}, {}, {})
  BY CloseText DEF DumpFuncEnd
<1>3. Reserved(dump[1]) = {} /\ Owes(dump[1]) = {} /\ dump[1].at \notin Returners
  BY <1>1, PlainCalls DEF Returners
<1>4. Moves(t, {}, {}, {}, {}, {}, <<>>, {}, {}, {}, {})
  BY <1>1, <1>2, <1>3, NoCalls DEF Moves
<1> QED BY <1>1, <1>4, TextStep

\* A sequence that one more element makes longer.
LEMMA Longer ==
  ASSUME NEW S, NEW u \in Seq(S), NEW v \in Seq(S), NEW w \in Seq(S),
         Len(v) = 1, Len(w) = Len(u) + 1,
         \A i \in 1 .. Len(u) : w[i] = u[i], w[Len(u) + 1] = v[1]
  PROVE  u \o v = w
<1>1. /\ u \o v \in Seq(S) /\ Len(u \o v) = Len(u) + 1 /\ Len(u) \in Nat
      /\ \A i \in 1 .. Len(u) + Len(v) : (u \o v)[i] = IF i <= Len(u) THEN u[i] ELSE v[i - Len(u)]
  <2>1. /\ u \o v \in Seq(S) /\ Len(u \o v) = Len(u) + Len(v) /\ Len(u) \in Nat
        /\ \A i \in 1 .. Len(u) + Len(v) :
             (u \o v)[i] = IF i <= Len(u) THEN u[i] ELSE v[i - Len(u)]
    BY ONLY u \in Seq(S), v \in Seq(S), ConcatProperties
  <2> QED BY <2>1
<1>2. ASSUME NEW i \in 1 .. Len(u) + 1 PROVE (u \o v)[i] = w[i]
  <2>1. CASE i <= Len(u)
    BY <1>1, <2>1
  <2>2. CASE i = Len(u) + 1
    <3>1. i \in 1 .. Len(u) + Len(v) /\ ~ (i <= Len(u)) /\ i - Len(u) = 1
      BY <1>1, <2>2
    <3> QED BY <1>1, <2>2, <3>1
  <2> QED BY <1>1, <2>1, <2>2
<1> QED BY <1>1, <1>2, SeqEqual

LEMMA ThreeJoined ==
  ASSUME NEW S, NEW a \in S, NEW b \in S, NEW c \in S
  PROVE  <<a, b>> \o <<c>> = <<a, b, c>>
<1>1. ASSUME NEW u, NEW v, NEW w, u = <<a, b>>, v = <<c>>, w = <<a, b, c>> PROVE u \o v = w
  <2>1. /\ u \in Seq(S) /\ v \in Seq(S) /\ w \in Seq(S) /\ Len(u) = 2 /\ Len(v) = 1 /\ Len(w) = 3
        /\ u[1] = a /\ u[2] = b /\ v[1] = c /\ w[1] = a /\ w[2] = b /\ w[3] = c
    BY <1>1
  <2>2. /\ Len(w) = Len(u) + 1 /\ w[Len(u) + 1] = v[1] /\ \A i \in 1 .. Len(u) : w[i] = u[i]
    BY ONLY <2>1
  <2> QED BY ONLY <2>1, <2>2, Longer
<1> QED BY <1>1

LEMMA FourJoined ==
  ASSUME NEW S, NEW a \in S, NEW b \in S, NEW c \in S, NEW d \in S
  PROVE  <<a, b, c>> \o <<d>> = <<a, b, c, d>>
<1>1. ASSUME NEW u, NEW v, NEW w, u = <<a, b, c>>, v = <<d>>, w = <<a, b, c, d>> PROVE u \o v = w
  <2>1. /\ u \in Seq(S) /\ v \in Seq(S) /\ w \in Seq(S) /\ Len(u) = 3 /\ Len(v) = 1 /\ Len(w) = 4
        /\ u[1] = a /\ u[2] = b /\ u[3] = c /\ v[1] = d
        /\ w[1] = a /\ w[2] = b /\ w[3] = c /\ w[4] = d
    BY <1>1
  <2>2. /\ Len(w) = Len(u) + 1 /\ w[Len(u) + 1] = v[1] /\ \A i \in 1 .. Len(u) : w[i] = u[i]
    BY ONLY <2>1
  <2> QED BY ONLY <2>1, <2>2, Longer
<1> QED BY <1>1

LEMMA Joined ==
  ASSUME NEW S, NEW a \in S, NEW b \in S, NEW c \in S, NEW d \in S
  PROVE  /\ <<a>> \o <<b>> = <<a, b>> /\ <<a, b>> \o <<c>> = <<a, b, c>>
         /\ <<a, b, c>> \o <<d>> = <<a, b, c, d>>
<1>1. ASSUME NEW u, NEW v, NEW w, u = <<a>>, v = <<b>>, w = <<a, b>> PROVE u \o v = w
  <2>1. /\ u \in Seq(S) /\ v \in Seq(S) /\ w \in Seq(S) /\ Len(u) = 1 /\ Len(v) = 1 /\ Len(w) = 2
        /\ u[1] = a /\ v[1] = b /\ w[1] = a /\ w[2] = b
    BY <1>1
  <2>2. /\ Len(w) = Len(u) + 1 /\ w[Len(u) + 1] = v[1] /\ \A i \in 1 .. Len(u) : w[i] = u[i]
    BY ONLY <2>1
  <2> QED BY ONLY <2>1, <2>2, Longer
<1>2. <<a, b>> \o <<c>> = <<a, b, c>>
  BY ThreeJoined
<1>3. <<a, b, c>> \o <<d>> = <<a, b, c, d>>
  BY FourJoined
<1> QED BY <1>1, <1>2, <1>3

LEMMA Added ==
  ASSUME NEW k \in Seq(Items), NEW a \in Items
  PROVE  Append(k, a) = k \o <<a>>
  OBVIOUS

LEMMA TextBlockItem == ASSUME TextInv, DumpBlockItem PROVE TextNext
<1>1. /\ dump # <<>> /\ dump[1].at = "Block" /\ Counting
  BY Inside, SMTT(30) DEF DumpBlockItem, Running, counts, Counting
<1>2. PICK l, t : /\ l = Lab("block", unused_koopa_label_count) /\ k_str' = k_str \o t
                  /\ \/ Says(t, {}, {}, {}, {}, {})
                     \/ Says(t, {l}, {}, {}, {l}, {}) /\ l \in NewNames
  <2> PICK l : l = Lab("block", unused_koopa_label_count)
    OBVIOUS
  <2>1. CASE last_ins_is_ret
    <3>1. /\ k_str' = k_str \o <<Label(l)>>
          /\ unused_koopa_label_count' = unused_koopa_label_count + 1
          /\ unused_koopa_label_count \in Nat
      <4>1. /\ k_str' = k_str \o <<Label(l)>>
            /\ unused_koopa_label_count' = unused_koopa_label_count + 1
        <5>1. /\ k_str' = Append(k_str, Label(l))
              /\ unused_koopa_label_count' = unused_koopa_label_count + 1
          BY <2>1 DEF DumpBlockItem
        <5>2. k_str \in Seq(Items) /\ Label(l) \in Items
          BY <1>1, Inside, LabelType, ControlItems DEF LabelKinds
        <5> QED BY <5>1, <5>2, Added
      <4> QED BY <1>1, <4>1, Inside
    <3>2. Says(<<Label(l)>>, {l}, {}, {}, {l}, {})
      BY <1>1, Inside, LabelType, Locals, LabelText DEF LabelKinds
    <3>3. l \in NewNames
      BY <1>1, <3>1, Inside, FreshNames DEF LabelKinds
    <3> QED BY <3>1, <3>2, <3>3
  <2>2. CASE ~ last_ins_is_ret
    <3>1. k_str' = k_str \o <<>>
      BY <1>1, <2>2, Inside DEF DumpBlockItem
    <3> QED BY <3>1, EmptyText
  <2> QED BY <2>1, <2>2
<1>3. PICK n : dump' = n \o Tail(dump) /\ Leaves(n, {}, {}, {}, {})
  <2> PICK items : items = dump[1].items
    OBVIOUS
  <2>1. items \in Blocks /\ items # <<>> /\ GrammarItem(Head(items)) /\ Tail(items) \in Blocks
    BY <1>1, Inside, FrameFields, Grammar DEF DumpBlockItem
  <2>2. CASE Head(items).tag = 0
    <3> PICK g, f, h : /\ g = ExpF(Head(items).exp) /\ f = [at |-> "VarDef"]
                       /\ h = BlockF(Tail(items))
      OBVIOUS
    <3>0. Head(items).exp \in Exps
      BY <2>1, <2>2 DEF GrammarItem
    <3>1. /\ g \in Frames /\ g.at = "Exp" /\ f \in Frames /\ f.at = "VarDef"
          /\ h \in Frames /\ h.at = "Block"
      BY <2>1, <3>0, FrameType DEF ExpF, BlockF
    <3>2. dump' = (<<g, f>> \o <<h>>) \o Tail(dump)
      BY <1>1, <2>2, Inside DEF DumpBlockItem, Continue
    <3>3. <<g, f>> \o <<h>> = <<g, f, h>>
      <4>1. g \in Frames /\ f \in Frames /\ h \in Frames
        BY <3>1
      <4> QED BY ONLY <4>1, Joined
    <3> QED BY <3>1, <3>2, <3>3, DeclCalls
  <2>3. CASE Head(items).tag # 0
    <3> PICK g, h : g = StmtF(Head(items).stmt) /\ h = BlockF(Tail(items))
      OBVIOUS
    <3>1. g \in Frames /\ g.at = "Stmt" /\ h \in Frames /\ h.at = "Block"
      BY <2>1, <2>3, FrameType DEF GrammarItem, StmtF, BlockF
    <3>2. dump' = (<<g>> \o <<h>>) \o Tail(dump)
      BY <1>1, <2>3, Inside DEF DumpBlockItem, Continue
    <3>3. <<g>> \o <<h>> = <<g, h>>
      BY <3>1, Joined
    <3>4. Reserved(h) = {} /\ Aims(h) = {} /\ Holds(h) = {} /\ Owes(h) = {} /\ h.at \notin Readers
      BY <3>1, PlainCalls DEF Readers
    <3>5. Leaves(<<g, h>>, Reserved(h), Aims(h), {}, Owes(h))
      BY <3>1, <3>4, TwoCalls
    <3> QED BY <3>2, <3>3, <3>4, <3>5
  <2> QED BY <2>2, <2>3
<1>4. Reserved(dump[1]) = {} /\ Owes(dump[1]) = {} /\ dump[1].at \notin Returners
  BY <1>1, PlainCalls DEF Returners
<1>5. CASE Says(t, {}, {}, {}, {}, {})
  <2>1. Moves(t, {}, {}, {}, {}, {}, n, {}, {}, {}, {})
    BY <1>1, <1>2, <1>3, <1>4, <1>5 DEF Moves
  <2> QED BY <1>1, <2>1, TextStep
<1>6. CASE Says(t, {l}, {}, {}, {l}, {}) /\ l \in NewNames
  <2>1. Moves(t, {l}, {}, {}, {l}, {}, n, {}, {}, {}, {})
    BY <1>1, <1>2, <1>3, <1>4, <1>6 DEF Moves
  <2> QED BY <1>1, <2>1, TextStep
<1> QED BY <1>2, <1>5, <1>6

\* The handlers that write nothing.
LEMMA TextSilent ==
  ASSUME TextInv, dump # <<>>, dump[1].at \in {"Stmt", "Block"},
         k_str' = k_str, UNCHANGED counts,
         NEW n, Leaves(n, {}, {}, {}, {}), dump' = n \o Tail(dump)
  PROVE  TextNext
<1>1. k_str' = k_str \o <<>> /\ Counting
  BY Inside DEF counts, Counting
<1>2. Reserved(dump[1]) = {} /\ Owes(dump[1]) = {} /\ dump[1].at \notin Returners
  BY PlainCalls DEF Returners
<1>3. Moves(<<>>, {}, {}, {}, {}, {}, n, {}, {}, {}, {})
  BY <1>1, <1>2, EmptyText DEF Moves
<1> QED BY <1>3, TextStep

LEMMA TextBlockEnd == ASSUME TextInv, DumpBlockEnd PROVE TextNext
<1>1. /\ dump # <<>> /\ dump[1].at = "Block" /\ k_str' = k_str /\ UNCHANGED counts
      /\ dump' = <<>> \o Tail(dump)
  BY Inside DEF DumpBlockEnd, Running, Continue
<1> QED BY <1>1, NoCalls, TextSilent

\* An expression, and the call that reads its value.
LEMMA ReadCalls ==
  ASSUME NEW e \in Exps, NEW f \in Frames, NEW held, \A a \in Holds(f) : IsLocal(a) => a \in held,
         f.at \in Readers
  PROVE  Leaves(<<ExpF(e), f>>, Reserved(f), Aims(f), held, Owes(f))
<1>1. ExpF(e) \in Frames /\ ExpF(e).at = "Exp"
  BY FrameType DEF ExpF
<1> QED BY <1>1, TwoCalls

LEMMA TextStatement ==
  ASSUME TextInv, DumpAssign \/ DumpNested \/ DumpIf \/ DumpReturn
  PROVE  TextNext
<1>1. /\ dump # <<>> /\ dump[1].at = "Stmt" /\ k_str' = k_str /\ UNCHANGED counts
      /\ Head(dump) = dump[1]
  BY Inside DEF DumpAssign, DumpNested, DumpIf, DumpReturn, RunningStmt, Running
<1> PICK s : s = dump[1].stmt
  OBVIOUS
<1>2. s \in Stmts /\ GrammarStmt(s)
  BY <1>1, Inside, FrameFields, Grammar
<1> SUFFICES \E n : Leaves(n, {}, {}, {}, {}) /\ dump' = n \o Tail(dump)
  BY <1>1, TextSilent
<1>3. ASSUME NEW e \in Exps, NEW f \in Frames, f.at \in {"Ret", "Branch", "Index", "Store"},
             \A a \in Holds(f) : ~ IsLocal(a), dump' = <<ExpF(e), f>> \o Tail(dump)
      PROVE  \E n : Leaves(n, {}, {}, {}, {}) /\ dump' = n \o Tail(dump)
  <2>1. Reserved(f) = {} /\ Aims(f) = {} /\ Owes(f) = {} /\ f.at \in Readers
    BY <1>3 DEF Reserved, Aims, Owes, Readers
  <2>2. Leaves(<<ExpF(e), f>>, Reserved(f), Aims(f), {}, Owes(f))
    BY <1>3, <2>1, ReadCalls
  <2> QED BY <1>3, <2>1, <2>2
<1>4. CASE DumpAssign
  <2>1. s.tag = 0 /\ s.l_val \in Seq(Exps) /\ s.exp \in Exps /\ s.pointer \in BOOLEAN
    BY <1>1, <1>2, <1>4 DEF DumpAssign, RunningStmt, GrammarStmt
  <2>2. CASE s.l_val = <<>>
    <3> PICK f : f = [at |-> "Store", dst |-> Var(0)]
      OBVIOUS
    <3>1. f \in Frames /\ f.at = "Store" /\ \A a \in Holds(f) : ~ IsLocal(a)
      BY OperandType, FrameType, Locals DEF Holds
    <3>2. dump' = <<ExpF(s.exp), f>> \o Tail(dump)
      BY <1>1, <1>4, <2>2 DEF DumpAssign, Continue
    <3> QED BY <1>3, <2>1, <3>1, <3>2
  <2>3. CASE s.l_val # <<>>
    <3> PICK f : f = Index(Tail(s.l_val), <<>>, s)
      OBVIOUS
    <3>1. f \in Frames /\ f.at = "Index" /\ Holds(f) = {} /\ Head(s.l_val) \in Exps
      <4>1. Head(s.l_val) \in Exps /\ Tail(s.l_val) \in Seq(Exps)
        BY <2>1, <2>3, RangeParts
      <4>2. <<>> \in Seq(Operands) /\ f.at = "Index" /\ f.had = <<>>
        BY DEF Index
      <4>3. f \in Frames
        BY <2>1, <4>1, <4>2, PlaceFrameType DEF Index
      <4> QED BY <4>1, <4>2, <4>3, PlaceCalls, Ranges
    <3>2. dump' = <<ExpF(Head(s.l_val)), f>> \o Tail(dump)
      BY <1>1, <1>4, <2>3 DEF DumpAssign, Continue
    <3> QED BY <1>3, <3>1, <3>2
  <2> QED BY <2>2, <2>3
<1>5. CASE DumpNested
  <2>1. /\ s.tag \in {1, 2, 3}
        /\ s.tag = 1 => dump' = <<>> \o Tail(dump)
        /\ s.tag = 2 => dump' = <<ExpF(s.exp)>> \o Tail(dump)
        /\ s.tag = 3 => dump' = <<BlockF(s.block)>> \o Tail(dump)
    BY <1>1, <1>5 DEF DumpNested, Continue
  <2>2. CASE s.tag = 1
    BY <2>1, <2>2, NoCalls, Zenon
  <2>3. CASE s.tag = 2
    <3>0. s.exp \in Exps
      BY <1>2, <2>3 DEF GrammarStmt
    <3>1. ExpF(s.exp) \in Frames /\ ExpF(s.exp).at = "Exp"
      BY <3>0, FrameType DEF ExpF
    <3>2. Leaves(<<ExpF(s.exp)>>, {}, {}, {}, {})
      BY <3>1, OneCall
    <3> QED BY <2>1, <2>3, <3>2, Zenon
  <2>4. CASE s.tag = 3
    <3>1. BlockF(s.block) \in Frames /\ BlockF(s.block).at = "Block"
      BY <1>2, <2>4, FrameType DEF GrammarStmt, BlockF
    <3>2. Leaves(<<BlockF(s.block)>>, {}, {}, {}, {})
      BY <3>1, OneCall
    <3> QED BY <2>1, <2>4, <3>2, Zenon
  <2> QED BY <2>1, <2>2, <2>3, <2>4
<1>6. CASE DumpIf
  <2> PICK f : f = [at |-> "Branch", stmt |-> s]
    OBVIOUS
  <2>1. f \in Frames /\ f.at = "Branch" /\ Holds(f) = {} /\ s.exp \in Exps
    BY <1>1, <1>2, <1>6, FrameType DEF DumpIf, RunningStmt, GrammarStmt, Holds
  <2>2. dump' = <<ExpF(s.exp), f>> \o Tail(dump)
    BY <1>1, <1>6 DEF DumpIf, Continue
  <2> QED BY <1>3, <2>1, <2>2
<1>7. CASE DumpReturn
  <2> PICK f : f = [at |-> "Ret"]
    OBVIOUS
  <2>1. f \in Frames /\ f.at = "Ret" /\ Holds(f) = {} /\ s.exp \in Exps
    BY <1>1, <1>2, <1>7, FrameType DEF DumpReturn, RunningStmt, GrammarStmt, Holds
  <2>2. dump' = <<ExpF(s.exp), f>> \o Tail(dump)
    BY <1>1, <1>7 DEF DumpReturn, Continue
  <2> QED BY <1>3, <2>1, <2>2
<1> QED BY <1>4, <1>5, <1>6, <1>7

\* The handlers that read data where it was returned.
LEMMA TextReader ==
  ASSUME TextInv, dump # <<>>, dump[1].at \in {"VarDef", "Store", "Ret"}, Counting,
         dump' = <<>> \o Tail(dump),
         NEW t, NEW args, Says(t, {}, {}, args, {}, {}), k_str' = k_str \o t,
         \A a \in args : IsLocal(a) => a = data \/ a \in Here
  PROVE  TextNext
<1>1. /\ Reserved(dump[1]) = {} /\ Owes(dump[1]) = {}
      /\ dump[1].at \notin Returners /\ dump[1].at \in Readers
  BY DEF Reserved, Owes, Returners, Readers
<1>2. \A a \in args : IsLocal(a) => a \in Here
  BY <1>1, Inside
<1>3. Moves(t, {}, {}, args, {}, {}, <<>>, {}, {}, {}, {})
  BY <1>1, <1>2, NoCalls DEF Moves
<1> QED BY <1>3, TextStep

LEMMA TextVarDef == ASSUME TextInv, DumpVarDef PROVE TextNext
<1>1. /\ dump # <<>> /\ dump[1].at = "VarDef" /\ dump' = <<>> \o Tail(dump) /\ Counting
  BY Inside DEF DumpVarDef, Running, Continue, Counting
<1> PICK t : t = <<Alloc(Var(unused_koopa_var_count)), Store(data, Var(unused_koopa_var_count))>>
  OBVIOUS
<1>2. Says(t, {}, {}, {data}, {}, {}) /\ k_str' = k_str \o t
  BY <1>1, Inside, VarText DEF DumpVarDef
<1> QED BY <1>1, <1>2, TextReader

LEMMA TextStore == ASSUME TextInv, DumpStore PROVE TextNext
<1>1. /\ dump # <<>> /\ dump[1].at = "Store" /\ dump' = <<>> \o Tail(dump) /\ Counting
  BY Inside DEF DumpStore, Running, Continue, counts, Counting
<1> PICK x : x = dump[1].dst
  OBVIOUS
<1>2. x \in Operands /\ (IsLocal(x) => x \in Here) /\ data \in Operands
  BY <1>1, Inside, FrameFields DEF Holds
<1>3. k_str' = k_str \o <<Store(data, x)>>
  <2>1. Head(dump) = dump[1] /\ k_str \in Seq(Items)
    BY <1>1, Inside
  <2>2. k_str' = Append(k_str, Store(data, x))
    BY <2>1 DEF DumpStore
  <2>3. Store(data, x) \in Items
    BY <1>2, PlainItems
  <2> QED BY <2>1, <2>2, <2>3, Added
<1>4. Says(<<Store(data, x)>>, {}, {}, {data, x}, {}, {})
  BY <1>2, StoreText
<1> QED BY <1>1, <1>2, <1>3, <1>4, TextReader

LEMMA TextRet == ASSUME TextInv, DumpRet PROVE TextNext
<1>1. /\ dump # <<>> /\ dump[1].at \in {"Ret", "Stmt"} /\ dump' = <<>> \o Tail(dump) /\ Counting
      /\ data \in Operands /\ k_str \in Seq(Items) /\ Head(dump) = dump[1]
  BY Inside DEF DumpRet, RunningStmt, Running, Continue, counts, Counting
<1>2. Ret(<<data>>) \in Items /\ Ret(<<>>) \in Items
  <2>1. <<data>> \in Seq(Operands) /\ <<>> \in Seq(Operands)
    BY <1>1, Tuples
  <2> QED BY <2>1, ControlItems
<1>3. CASE dump[1].at = "Ret"
  <2>1. k_str' = k_str \o <<Ret(<<data>>)>>
    BY <1>1, <1>2, <1>3, Added DEF DumpRet, RunningStmt, Running
  <2>2. Says(<<Ret(<<data>>)>>, {}, {}, {data}, {}, {})
    BY <1>1, RetText
  <2> QED BY <1>1, <1>3, <2>1, <2>2, TextReader
<1>4. CASE dump[1].at = "Stmt"
  <2>1. k_str' = k_str \o <<Ret(<<>>)>>
    BY <1>1, <1>2, <1>4, Added DEF DumpRet, RunningStmt, Running
  <2>2. Reserved(dump[1]) = {} /\ Owes(dump[1]) = {} /\ dump[1].at \notin Returners
    BY <1>4, PlainCalls DEF Returners
  <2>3. Moves(<<Ret(<<>>)>>, {}, {}, {}, {}, {}, <<>>, {}, {}, {}, {})
    BY <1>1, <2>1, <2>2, RetText, NoCalls DEF Moves
  <2> QED BY <1>1, <2>3, TextStep
<1> QED BY <1>1, <1>3, <1>4

\* The handlers that build the address of an element.
LEMMA ElemCall ==
  ASSUME NEW f \in Frames, f.at = "ElemPtr", NEW held, Range(f.indices) \subseteq held
  PROVE  Leaves(<<f>>, {}, {}, held, {})
<1> PICK n : n = <<f>>
  OBVIOUS
<1>1. n \in Seq(Frames) /\ n[1] = f /\ 1 .. Len(n) = {1} /\ 1 .. Len(n) - 1 = {}
  <2>1. n \in Seq(Frames)
    BY Tuples
  <2> QED BY <2>1
<1>2. /\ Reserved(f) = {} /\ Aims(f) = {} /\ Holds(f) \subseteq held /\ f.at \notin Readers
  BY PlaceCalls
<1>3. Ordered(n)
  BY <1>1, <1>2 DEF Ordered
<1>4. Pending(n) = {} /\ Goals(n) = {} /\ \A a \in Held(n) : a \in held
  BY <1>1, <1>2 DEF Pending, Goals, Held
<1>5. \A S : CallsFit(n, S)
  BY <1>1, <1>2 DEF CallsFit
<1> QED BY <1>1, <1>3, <1>4, <1>5 DEF Leaves

LEMMA TextPlace ==
  ASSUME TextInv, dump # <<>>, dump[1].at \in {"Index", "ElemPtr"}, Counting,
         NEW t, NEW names, NEW args, Says(t, names, {}, args, {}, names), k_str' = k_str \o t,
         names \subseteq NewNames, \A a \in args : IsLocal(a) => a \in Here,
         NEW n, NEW held, Leaves(n, {}, {}, held, {}), dump' = n \o Tail(dump),
         \A a \in held : IsLocal(a) => a \in Here
  PROVE  TextNext
<1>1. Reserved(dump[1]) = {} /\ Owes(dump[1]) = {} /\ dump[1].at \notin Returners
  BY PlaceCalls
<1>2. Moves(t, names, {}, args, {}, names, n, {}, {}, held, {})
  BY <1>1 DEF Moves
<1> QED BY <1>2, TextStep

LEMMA TextIndex == ASSUME TextInv, DumpIndex PROVE TextNext
<1> PICK f : f = dump[1]
  OBVIOUS
<1>1. /\ dump # <<>> /\ f.at = "Index" /\ f.left # <<>> /\ Head(dump) = f
      /\ k_str' = k_str /\ UNCHANGED counts
      /\ dump' = <<ExpF(Head(f.left)), Index(Tail(f.left), Append(f.had, data), f)>> \o Tail(dump)
  BY Inside DEF DumpIndex, Running, Continue
<1>2. /\ f \in Frames /\ f.left \in Seq(Exps) /\ f.had \in Seq(Operands) /\ f.pointer \in BOOLEAN
      /\ f.exp \in Exps /\ data \in Operands
  BY <1>1, Inside, FrameFields
<1>3. k_str' = k_str \o <<>> /\ Counting
  BY <1>1, Inside DEF counts, Counting
<1> PICK g, held : /\ g = Index(Tail(f.left), Append(f.had, data), f)
                   /\ held = Range(f.had) \cup {data}
  OBVIOUS
<1>4. g \in Frames /\ g.at = "Index" /\ Head(f.left) \in Exps /\ Holds(g) = held
  <2>1. Head(f.left) \in Exps /\ Tail(f.left) \in Seq(Exps)
    BY <1>1, <1>2, RangeParts
  <2>2. Append(f.had, data) \in Seq(Operands) /\ Range(Append(f.had, data)) = held
    BY <1>2, RangeParts
  <2>3. g.at = "Index" /\ g.had = Append(f.had, data)
    BY DEF Index
  <2>4. g \in Frames
    BY <1>2, <2>1, <2>2, PlaceFrameType DEF Index
  <2> QED BY <2>1, <2>2, <2>3, <2>4, PlaceCalls
<1>5. Leaves(<<ExpF(Head(f.left)), g>>, {}, {}, held, {})
  <2>1. Reserved(g) = {} /\ Aims(g) = {} /\ Owes(g) = {} /\ g.at \in Readers
    BY <1>4, PlaceCalls
  <2>2. Leaves(<<ExpF(Head(f.left)), g>>, Reserved(g), Aims(g), held, Owes(g))
    BY <1>4, <2>1, ReadCalls
  <2> QED BY <2>1, <2>2
<1>6. \A a \in held : IsLocal(a) => a \in Here
  <2>1. Holds(f) = Range(f.had) /\ f.at \in Readers
    BY <1>1, PlaceCalls
  <2> QED BY <1>1, <2>1, Inside
<1> PICK n, t, none : n = <<ExpF(Head(f.left)), g>> /\ t = <<>> /\ none = {}
  OBVIOUS
<1>a. /\ dump # <<>> /\ dump[1].at \in {"Index", "ElemPtr"} /\ dump' = n \o Tail(dump)
      /\ k_str' = k_str \o t
  BY <1>1, <1>3
<1>b. Says(t, none, {}, none, {}, none) /\ Leaves(n, {}, {}, held, {})
  BY <1>5, EmptyText
<1>c. none \subseteq NewNames /\ \A a \in none : IsLocal(a) => a \in Here
  OBVIOUS
<1>d. Counting /\ \A a \in held : IsLocal(a) => a \in Here
  BY <1>3, <1>6
<1> QED BY <1>a, <1>b, <1>c, <1>d, TextPlace

\* What AddressText says: it uses the index and defines the registers it takes.
LEMMA AddressSays ==
  ASSUME NEW p \in BOOLEAN, NEW index \in Operands, NEW r \in Nat
  PROVE  LET names == {Reg(n) : n \in r .. r + AddressRegs(p) - 1}
         IN  Says(AddressText(p, index, r), names, {}, {index}, {}, names)
<1> PICK names : names = {Reg(n) : n \in r .. r + AddressRegs(p) - 1}
  OBVIOUS
<1>1. Var(0) \in Operands /\ ~ IsLocal(Var(0)) /\ Reg(r) \in Operands
  BY OperandType, Locals
<1>2. CASE ~ p
  <2> PICK args : args = <<Var(0), index>>
    OBVIOUS
  <2>1. args \in Seq(Operands) /\ \A x \in Range(args) : IsLocal(x) => x \in {index}
    BY <1>1, Tuples, Ranges
  <2>2. Says(<<Ins("getelemptr", Reg(r), args)>>, {Reg(r)}, {}, {index}, {}, {Reg(r)})
    BY <2>1, InsText
  <2>3. names = {Reg(r)} /\ AddressText(p, index, r) = <<Ins("getelemptr", Reg(r), args)>>
    <3>1. AddressRegs(p) = 1 /\ r .. r + 1 - 1 = {r}
      BY <1>2 DEF AddressRegs
    <3> QED BY <1>2, <3>1 DEF AddressText
  <2> QED BY <2>2, <2>3
<1>3. CASE p
  <2> PICK a, b : /\ a = Ins("load", Reg(r), <<Var(0)>>)
                  /\ b = Ins("getptr", Reg(r + 1), <<Reg(r), index>>)
    OBVIOUS
  <2>1. Says(<<a>>, {Reg(r)}, {}, {}, {}, {Reg(r)})
    <3> PICK args : args = <<Var(0)>>
      OBVIOUS
    <3>1. args \in Seq(Operands) /\ \A x \in Range(args) : IsLocal(x) => x \in {}
      BY <1>1, Tuples, Ranges
    <3> QED BY <3>1, InsText
  <2>2. Says(<<b>>, {Reg(r + 1)}, {}, {index, Reg(r)}, {}, {Reg(r + 1)})
    <3> PICK args : args = <<Reg(r), index>>
      OBVIOUS
    <3>1. args \in Seq(Operands) /\ \A x \in Range(args) : IsLocal(x) => x \in {index, Reg(r)}
      BY <1>1, Tuples, Ranges
    <3>2. r + 1 \in Nat
      OBVIOUS
    <3> QED BY <3>1, <3>2, InsText
  <2>3. {Reg(r)} \cap {Reg(r + 1)} = {}
    BY DEF Reg
  <2>4. Says(<<a>> \o <<b>>, {Reg(r)} \cup {Reg(r + 1)}, {} \cup {},
             {} \cup ({index, Reg(r)} \ {Reg(r)}), {} \cup {}, {Reg(r)} \cup {Reg(r + 1)})
    BY <2>1, <2>2, <2>3, BothTexts
  <2>5. /\ names = {Reg(r)} \cup {Reg(r + 1)}
        /\ AddressText(p, index, r) = <<a>> \o <<b>>
    <3>1. AddressRegs(p) = 2 /\ r .. r + 2 - 1 = {r, r + 1}
      BY <1>3 DEF AddressRegs
    <3>2. <<a>> \o <<b>> = <<a, b>>
      <4>1. a \in {a, b} /\ b \in {a, b}
        OBVIOUS
      <4> QED BY <4>1, Joined, Zenon
    <3> QED BY <1>3, <3>1, <3>2 DEF AddressText
  <2>6. Says(<<a>> \o <<b>>, names, {}, {index}, {}, names)
    <3> PICK u, args : u = <<a>> \o <<b>> /\ args = {index, Reg(r)} \ {Reg(r)}
      OBVIOUS
    <3>1. Says(u, names, {}, args, {}, names) /\ args \subseteq {index}
      BY <2>4, <2>5
    <3>2. Says(u, names, {}, {index}, {}, names)
      BY <3>1 DEF Says
    <3> QED BY <3>2
  <2> QED BY <2>5, <2>6
<1> QED BY <1>2, <1>3

LEMMA TextAddress == ASSUME TextInv, DumpAddress PROVE TextNext
<1> PICK f, r, m, indices : /\ f = dump[1] /\ r = unused_koopa_count
                            /\ m = AddressRegs(f.pointer) /\ indices = Append(f.had, data)
  OBVIOUS
<1>1. /\ dump # <<>> /\ f.at = "Index" /\ Head(dump) = f
      /\ k_str' = k_str \o AddressText(f.pointer, Head(indices), r)
      /\ unused_koopa_count' = r + m
      /\ UNCHANGED <<unused_koopa_var_count, unused_koopa_label_count>>
      /\ dump' = <<ElemPtr(Tail(indices), f.exp)>> \o Tail(dump)
  BY Inside DEF DumpAddress, Running, Continue
<1>2. /\ f \in Frames /\ f.had \in Seq(Operands) /\ f.pointer \in BOOLEAN
      /\ f.exp \in Exps /\ data \in Operands /\ r \in Nat /\ m \in {1, 2}
  BY <1>1, Inside, FrameFields DEF AddressRegs
<1>3. Counting
  BY <1>1, <1>2, Inside DEF Counting
<1>4. /\ Head(indices) \in Operands /\ Head(indices) \in Range(indices)
      /\ Tail(indices) \in Seq(Operands) /\ Range(Tail(indices)) \subseteq Range(indices)
      /\ Range(indices) = Range(f.had) \cup {data}
  <2>1. indices \in Seq(Operands) /\ indices # <<>>
    BY <1>2
  <2>2. /\ Head(indices) \in Operands /\ Head(indices) \in Range(indices)
        /\ Tail(indices) \in Seq(Operands) /\ Range(Tail(indices)) \subseteq Range(indices)
    BY <2>1, RangeParts, Zenon
  <2>3. Range(indices) = Range(f.had) \cup {data}
    <3> PICK had : had = f.had
      OBVIOUS
    <3>1. had \in Seq(Operands) /\ data \in Operands /\ indices = Append(had, data)
      BY <1>2
    <3>2. \A x \in Operands : Range(Append(had, x)) = Range(had) \cup {x}
      BY <3>1, RangeParts, Zenon
    <3> QED BY <3>1, <3>2
  <2> QED BY <2>2, <2>3, Zenon
<1>5. \A a \in Range(indices) : IsLocal(a) => a \in Here
  <2>1. Holds(f) = Range(f.had) /\ f.at \in Readers
    BY <1>1, PlaceCalls
  <2> QED BY <1>1, <1>4, <2>1, Inside
<1> PICK names, held, t : /\ names = {Reg(n) : n \in r .. r + m - 1} /\ held = Range(indices)
                          /\ t = AddressText(f.pointer, Head(indices), r)
  OBVIOUS
<1>6. Says(t, names, {}, {Head(indices)}, {}, names)
  BY <1>2, <1>4, AddressSays
<1>7. names \subseteq NewNames
  <2>1. /\ TypeOK /\ unused_koopa_count' - 1 = r + m - 1
    BY <1>1, <1>2, Inside
  <2>2. \A n \in r .. r + m - 1 : Reg(n) \in NewNames
    BY <1>3, <2>1, FreshNames
  <2> QED BY <2>2
<1> PICK g : g = ElemPtr(Tail(indices), f.exp)
  OBVIOUS
<1>8. Leaves(<<g>>, {}, {}, held, {})
  <2>1. g \in Frames /\ g.at = "ElemPtr" /\ g.indices = Tail(indices)
    BY <1>2, <1>4, PlaceFrameType DEF ElemPtr
  <2> QED BY <1>4, <2>1, ElemCall
<1>9. \A a \in {Head(indices)} : IsLocal(a) => a \in Here
  BY <1>4, <1>5
<1> PICK n, args : n = <<g>> /\ args = {Head(indices)}
  OBVIOUS
<1>a. /\ dump # <<>> /\ dump[1].at \in {"Index", "ElemPtr"} /\ dump' = n \o Tail(dump)
      /\ k_str' = k_str \o t
  BY <1>1
<1>b. Says(t, names, {}, args, {}, names) /\ Leaves(n, {}, {}, held, {})
  BY <1>6, <1>8
<1>c. names \subseteq NewNames /\ \A a \in args : IsLocal(a) => a \in Here
  BY <1>7, <1>9
<1>d. Counting /\ \A a \in held : IsLocal(a) => a \in Here
  BY <1>3, <1>5
<1> QED BY <1>a, <1>b, <1>c, <1>d, TextPlace

\* The last register given out is that of the address.
LEMMA LastHere ==
  ASSUME TextInv, dump # <<>>, dump[1].at = "ElemPtr"
  PROVE  unused_koopa_count - 1 \in Nat /\ Reg(unused_koopa_count - 1) \in Here
<1>1. /\ k_str # <<>> /\ unused_koopa_count > 0 /\ unused_koopa_count \in Nat
      /\ k_str[Len(k_str)].dst = Reg(unused_koopa_count - 1)
  BY Inside DEF TextInv, ElemInv
<1>2. Begun \in 1 .. Len(k_str) /\ k_str \in Seq(Items)
  BY <1>1, Inside DEF Sound, Starts
<1>3. Len(k_str) \in Begun .. Len(k_str)
  BY <1>2
<1> QED BY <1>1, <1>3 DEF Here, Defined

LEMMA TextElemPtr == ASSUME TextInv, DumpElemPtr PROVE TextNext
<1> PICK f, r, c, index, indices :
      /\ f = dump[1] /\ c = unused_koopa_count /\ r = Reg(c)
      /\ index = Head(f.indices) /\ indices = Tail(f.indices)
  OBVIOUS
<1>1. /\ dump # <<>> /\ f.at = "ElemPtr" /\ f.indices # <<>> /\ Head(dump) = f
      /\ k_str' = Append(k_str, Ins("getelemptr", r, <<Reg(c - 1), index>>))
      /\ unused_koopa_count' = c + 1
      /\ UNCHANGED <<unused_koopa_var_count, unused_koopa_label_count>>
      /\ dump' = <<ElemPtr(indices, f.exp)>> \o Tail(dump)
  BY Inside DEF DumpElemPtr, Running, Continue
<1>2. /\ f \in Frames /\ f.indices \in Seq(Operands) /\ f.exp \in Exps
      /\ c \in Nat /\ k_str \in Seq(Items)
  BY <1>1, Inside, FrameFields
<1>3. Counting
  BY <1>1, <1>2, Inside, SMTT(40) DEF Counting
<1>4. /\ index \in Operands /\ index \in Range(f.indices)
      /\ indices \in Seq(Operands) /\ Range(indices) \subseteq Range(f.indices)
  BY <1>1, <1>2, RangeParts
<1>5. c - 1 \in Nat /\ Reg(c - 1) \in Here
  BY <1>1, LastHere
<1>6. \A a \in Range(f.indices) : IsLocal(a) => a \in Here
  <2>1. Holds(f) = Range(f.indices)
    BY <1>1, PlaceCalls
  <2> QED BY <1>1, <2>1, Inside
<1> PICK args, it, held : /\ args = <<Reg(c - 1), index>> /\ it = Ins("getelemptr", r, args)
                          /\ held = Range(f.indices)
  OBVIOUS
<1>7. /\ args \in Seq(Operands) /\ \A x \in Range(args) : x \in {Reg(c - 1), index}
  BY <1>4, <1>5, OperandType, Tuples, Ranges
<1>8. it \in Items /\ Says(<<it>>, {r}, {}, {Reg(c - 1), index}, {}, {r})
  <2>1. it \in Items
    BY <1>2, <1>7, OperandType, PlainItems
  <2> QED BY <1>2, <1>7, <2>1, InsText
<1>9. k_str' = k_str \o <<it>>
  BY <1>1, <1>2, <1>8, Added
<1>10. {r} \subseteq NewNames
  <2>1. TypeOK /\ c \in unused_koopa_count .. unused_koopa_count' - 1
    BY <1>1, <1>2, Inside
  <2> QED BY <1>3, <2>1, FreshNames
<1> PICK g : g = ElemPtr(indices, f.exp)
  OBVIOUS
<1>11. Leaves(<<g>>, {}, {}, held, {})
  <2>1. g \in Frames /\ g.at = "ElemPtr" /\ g.indices = indices
    BY <1>2, <1>4, PlaceFrameType DEF ElemPtr
  <2> QED BY <1>4, <2>1, ElemCall
<1>12. \A a \in {Reg(c - 1), index} : IsLocal(a) => a \in Here
  BY <1>4, <1>5, <1>6
<1> PICK n, t, names, others :
      n = <<g>> /\ t = <<it>> /\ names = {r} /\ others = {Reg(c - 1), index}
  OBVIOUS
<1>a. /\ dump # <<>> /\ dump[1].at \in {"Index", "ElemPtr"} /\ dump' = n \o Tail(dump)
      /\ k_str' = k_str \o t
  BY <1>1, <1>9
<1>b. Says(t, names, {}, others, {}, names) /\ Leaves(n, {}, {}, held, {})
  BY <1>8, <1>11
<1>c. names \subseteq NewNames /\ \A a \in others : IsLocal(a) => a \in Here
  BY <1>10, <1>12
<1>d. Counting /\ \A a \in held : IsLocal(a) => a \in Here
  BY <1>3, <1>6
<1> QED BY <1>a, <1>b, <1>c, <1>d, TextPlace

LEMMA TextElem == ASSUME TextInv, DumpElem PROVE TextNext
<1> PICK f, r : f = dump[1] /\ r = Reg(unused_koopa_count - 1)
  OBVIOUS
<1>1. /\ dump # <<>> /\ f.at = "ElemPtr" /\ Head(dump) = f
      /\ k_str' = k_str /\ UNCHANGED counts
      /\ dump' = <<ExpF(f.exp), [at |-> "Store", dst |-> r]>> \o Tail(dump)
  BY Inside DEF DumpElem, Running, Continue
<1>2. f.exp \in Exps /\ r \in Here /\ r \in Operands
  BY <1>1, Inside, FrameFields, LastHere, OperandType
<1>3. k_str' = k_str \o <<>> /\ Counting
  BY <1>1, Inside DEF counts, Counting
<1> PICK g : g = [at |-> "Store", dst |-> r]
  OBVIOUS
<1>4. Leaves(<<ExpF(f.exp), g>>, {}, {}, {r}, {})
  <2>1. g \in Frames /\ g.at \in Readers /\ Holds(g) = {r}
    BY <1>2, FrameType DEF Readers, Holds
  <2>2. Reserved(g) = {} /\ Aims(g) = {} /\ Owes(g) = {}
    BY DEF Reserved, Aims, Owes
  <2>3. Leaves(<<ExpF(f.exp), g>>, Reserved(g), Aims(g), {r}, Owes(g))
    BY <1>2, <2>1, ReadCalls
  <2> QED BY <2>2, <2>3
<1>5. \A a \in {r} : IsLocal(a) => a \in Here
  BY <1>2
<1> PICK n, t, none, held :
      n = <<ExpF(f.exp), g>> /\ t = <<>> /\ none = {} /\ held = {r}
  OBVIOUS
<1>a. /\ dump # <<>> /\ dump[1].at \in {"Index", "ElemPtr"} /\ dump' = n \o Tail(dump)
      /\ k_str' = k_str \o t
  BY <1>1, <1>3
<1>b. Says(t, none, {}, none, {}, none) /\ Leaves(n, {}, {}, held, {})
  BY <1>4, EmptyText
<1>c. none \subseteq NewNames /\ \A a \in none : IsLocal(a) => a \in Here
  OBVIOUS
<1>d. Counting /\ \A a \in held : IsLocal(a) => a \in Here
  BY <1>3, <1>5
<1> QED BY <1>a, <1>b, <1>c, <1>d, TextPlace

LEMMA TextLeaf == ASSUME TextInv, DumpLeaf PROVE TextNext
<1> PICK r, c, e : c = unused_koopa_count /\ r = Reg(c) /\ e = dump[1].exp
  OBVIOUS
<1>1. /\ dump # <<>> /\ dump[1].at = "Exp" /\ dump' = <<>> \o Tail(dump) /\ Head(dump) = dump[1]
      /\ c \in Nat /\ k_str \in Seq(Items) /\ e \in Exps /\ GrammarExp(e)
  BY Inside, FrameFields, Grammar DEF DumpLeaf, Running, Continue
<1>2. Reserved(dump[1]) = {} /\ Owes(dump[1]) = {}
  BY <1>1, PlainCalls
<1>3. CASE e.tag = "num"
  <2>1. k_str' = k_str \o <<>> /\ Counting /\ data' = Imm(e.val)
    BY <1>1, <1>3, Inside DEF DumpLeaf, Counting
  <2>2. ~ IsLocal(data')
    BY <2>1, Locals
  <2>3. Moves(<<>>, {}, {}, {}, {}, {}, <<>>, {}, {}, {}, {})
    BY <1>1, <1>2, <2>1, <2>2, EmptyText, NoCalls DEF Moves
  <2> QED BY <1>1, <2>3, TextStep
<1>4. CASE e.tag = "ins"
  <2> PICK it : it = Ins("ins", r, <<<<"leaf", e.name>>>>)
    OBVIOUS
  <2>1. it \in Items /\ Says(<<it>>, {r}, {}, {}, {}, {r})
    <3>1. <<"leaf", e.name>> \in Operands
      BY <1>1, <1>4 DEF GrammarExp, Operands
    <3>2. /\ <<<<"leaf", e.name>>>> \in Seq(Operands) /\ r \in Operands
          /\ Range(<<<<"leaf", e.name>>>>) = {<<"leaf", e.name>>}
      BY <1>1, <3>1, OperandType, Tuples, Ranges
    <3> PICK args : args = <<<<"leaf", e.name>>>>
      OBVIOUS
    <3>3. args \in Seq(Operands) /\ \A x \in Range(args) : IsLocal(x) => x \in {}
      BY <3>2, Locals
    <3>4. Ins("ins", r, args) \in Items
      BY <3>2, <3>3, PlainItems
    <3>5. Says(<<Ins("ins", Reg(c), args)>>, {Reg(c)}, {}, {}, {}, {Reg(c)})
      BY <1>1, <3>3, InsText
    <3> QED BY <3>4, <3>5
  <2>2. /\ k_str' = k_str \o <<it>> /\ data' = r /\ unused_koopa_count' = c + 1 /\ Counting
    <3>1. /\ data' = r /\ k_str' = Append(k_str, it) /\ unused_koopa_count' = c + 1
          /\ UNCHANGED <<unused_koopa_var_count, unused_koopa_label_count>>
      BY <1>1, <1>4 DEF DumpLeaf
    <3>2. k_str' = k_str \o <<it>>
      BY <1>1, <2>1, <3>1, Added
    <3>3. Counting
      BY <1>1, <3>1, Inside DEF Counting
    <3> QED BY <3>1, <3>2, <3>3
  <2>3. r \in NewNames
    <3>1. c \in unused_koopa_count .. unused_koopa_count' - 1
      BY <1>1, <2>2
    <3> QED BY <2>2, <3>1, Inside, FreshNames, <1>1
  <2>4. Moves(<<it>>, {r}, {}, {}, {}, {r}, <<>>, {}, {}, {}, {})
    BY <1>1, <1>2, <2>1, <2>2, <2>3, NoCalls DEF Moves
  <2> QED BY <1>1, <2>4, TextStep
<1> QED BY <1>1, <1>3, <1>4 DEF DumpLeaf

\* The handlers that take new labels.
LEMMA NewLabel ==
  ASSUME TextInv, Counting, NEW kind \in LabelKinds \ {"entry"},
         NEW n, n \in unused_koopa_label_count .. unused_koopa_label_count' - 1, dump # <<>>
  PROVE  Lab(kind, n) \in Labels /\ Lab(kind, n) # Entry /\ Lab(kind, n) \in NewNames
<1>1. n \in Nat
  BY Inside DEF Counting
<1> QED BY <1>1, Inside, FreshNames, LabelType, Locals

LEMMA TextThen == ASSUME TextInv, DumpThen PROVE TextNext
<1> PICK n, f, e : n = unused_koopa_label_count /\ f = Lab("then", n) /\ e = Lab("end", n + 1)
  OBVIOUS
<1>1. /\ dump # <<>> /\ dump[1].at = "Branch" /\ Head(dump) = dump[1] /\ Counting
      /\ n \in Nat /\ data \in Operands /\ unused_koopa_label_count' = n + 2
      /\ (IsLocal(data) => data \in Here)
  BY Inside DEF DumpThen, Running, Counting, Readers
<1> PICK s : s = dump[1].stmt
  OBVIOUS
<1>2. s.stmt \in Stmts
  <2>1. s \in Stmts /\ s.tag = 4 /\ GrammarStmt(s)
    BY <1>1, Inside, FrameFields, Grammar DEF DumpThen
  <2> QED BY <2>1 DEF GrammarStmt
<1>3. /\ f \in Labels /\ f # Entry /\ f \in NewNames /\ e \in Labels /\ e # Entry /\ e \in NewNames
      /\ f # e
  <2>1. /\ n \in unused_koopa_label_count .. unused_koopa_label_count' - 1
        /\ n + 1 \in unused_koopa_label_count .. unused_koopa_label_count' - 1
    BY <1>1
  <2>2. f # e
    BY DEF Lab
  <2> QED BY <1>1, <2>1, <2>2, NewLabel DEF LabelKinds
<1> PICK g, j : g = StmtF(s.stmt) /\ j = Join(e, e)
  OBVIOUS
<1>4. k_str' = k_str \o <<Br(data, f, e), Label(f)>> /\ dump' = <<g, j>> \o Tail(dump)
  BY <1>1 DEF DumpThen, Continue
<1>5. Says(<<Br(data, f, e), Label(f)>>, {f}, {f, e}, {data}, {f}, {})
  BY <1>1, <1>3, BrText
<1>6. Leaves(<<g, j>>, {e}, {e}, {}, {e})
  <2>1. /\ g \in Frames /\ g.at = "Stmt" /\ j \in Frames /\ j.at = "Join"
    BY <1>2, <1>3, FrameType DEF StmtF, Join
  <2>2. Reserved(j) = {e} /\ Aims(j) = {e} /\ Holds(j) = {} /\ Owes(j) = {e} /\ j.at \notin Readers
    BY DEF Join, Reserved, Aims, Holds, Owes, Readers
  <2>3. Leaves(<<g, j>>, Reserved(j), Aims(j), {}, Owes(j))
    BY <2>1, <2>2, TwoCalls
  <2> QED BY <2>2, <2>3
<1>7. Reserved(dump[1]) = {} /\ Owes(dump[1]) = {} /\ dump[1].at \notin Returners
  BY <1>1, PlainCalls DEF Returners
<1>8. Moves(<<Br(data, f, e), Label(f)>>, {f}, {f, e}, {data}, {f}, {}, <<g, j>>, {e}, {e}, {}, {e})
  BY <1>1, <1>3, <1>4, <1>5, <1>6, <1>7 DEF Moves
<1> QED BY <1>1, <1>8, TextStep

LEMMA TextThenElse == ASSUME TextInv, DumpThenElse PROVE TextNext
<1> PICK n, f, g, e : /\ n = unused_koopa_label_count /\ f = Lab("then", n)
                      /\ g = Lab("else", n + 1) /\ e = Lab("end", n + 2)
  OBVIOUS
<1>1. /\ dump # <<>> /\ dump[1].at = "Branch" /\ Head(dump) = dump[1] /\ Counting
      /\ n \in Nat /\ data \in Operands /\ unused_koopa_label_count' = n + 3
      /\ (IsLocal(data) => data \in Here)
  <2>1. dump # <<>> /\ Head(dump).at = "Branch" /\ unused_koopa_label_count' = n + 3
        /\ unused_koopa_count' = unused_koopa_count
        /\ unused_koopa_var_count' = unused_koopa_var_count
    BY DEF DumpThenElse, Running
  <2>2. /\ Head(dump) = dump[1] /\ n \in Nat /\ data \in Operands
        /\ unused_koopa_count \in Nat /\ unused_koopa_var_count \in Nat
    BY <2>1, Inside
  <2>3. IsLocal(data) => data \in Here
    BY <2>1, <2>2, Inside DEF Readers
  <2>4. Counting
    BY ONLY <2>1, <2>2, n = unused_koopa_label_count DEF Counting
  <2> QED BY <2>1, <2>2, <2>3, <2>4
<1> PICK s : s = dump[1].stmt
  OBVIOUS
<1>2. s.stmt_if \in Stmts /\ s.stmt_else \in Stmts
  <2>1. s \in Stmts /\ s.tag = 5 /\ GrammarStmt(s)
    BY <1>1, Inside, FrameFields, Grammar DEF DumpThenElse
  <2> QED BY <2>1 DEF GrammarStmt
<1>3. /\ f \in Labels /\ f # Entry /\ f \in NewNames /\ g \in Labels /\ g # Entry /\ g \in NewNames
      /\ e \in Labels /\ e # Entry /\ e \in NewNames /\ f # e /\ f # g /\ e # g
  <2>1. /\ n \in unused_koopa_label_count .. unused_koopa_label_count' - 1
        /\ n + 1 \in unused_koopa_label_count .. unused_koopa_label_count' - 1
        /\ n + 2 \in unused_koopa_label_count .. unused_koopa_label_count' - 1
    BY <1>1
  <2>2. f # e /\ f # g /\ e # g
    BY DEF Lab
  <2> QED BY <1>1, <2>1, <2>2, NewLabel DEF LabelKinds
<1> PICK c : c = <<StmtF(s.stmt_if), Join(e, g), StmtF(s.stmt_else), Join(e, e)>>
  OBVIOUS
<1>4. k_str' = k_str \o <<Br(data, f, g), Label(f)>> /\ dump' = c \o Tail(dump)
  BY <1>1 DEF DumpThenElse, Continue
<1>5. Says(<<Br(data, f, g), Label(f)>>, {f}, {f, g}, {data}, {f}, {})
  BY <1>1, <1>3, BrText
<1>6. Leaves(c, {e, g}, {e}, {}, {e, g})
  BY <1>2, <1>3, ElseCalls
<1>7. Reserved(dump[1]) = {} /\ Owes(dump[1]) = {} /\ dump[1].at \notin Returners
  BY <1>1, PlainCalls DEF Returners
<1>8. Moves(<<Br(data, f, g), Label(f)>>, {f}, {f, g}, {data}, {f}, {}, c, {e, g}, {e}, {}, {e, g})
  BY <1>1, <1>3, <1>4, <1>5, <1>6, <1>7 DEF Moves
<1> QED BY <1>1, <1>8, TextStep

\* What a call has reserved was numbered once, and is no entry label.
LEMMA ReservedLabels ==
  ASSUME TextInv, dump # <<>>
  PROVE  Entry \notin Reserved(dump[1])
<1>1. Reserved(dump[1]) \subseteq
        Spent(unused_koopa_count, unused_koopa_var_count, unused_koopa_label_count)
  BY Inside DEF TextInv, Numbered, Fits
<1>2. "entry" \notin {"%"} \cup {"%temp_l_result"} \cup (LabelKinds \ {"entry"})
  OBVIOUS
<1>3. Entry \notin Spent(unused_koopa_count, unused_koopa_var_count, unused_koopa_label_count)
  BY <1>2 DEF Entry, Spent
<1> QED BY <1>1, <1>3

LEMMA TextJoin == ASSUME TextInv, DumpJoin PROVE TextNext
<1> PICK f, to, l : f = dump[1] /\ to = f.to /\ l = f.label
  OBVIOUS
<1>1. /\ dump # <<>> /\ f.at \in {"Join", "LoopJoin"} /\ Head(dump) = f /\ Counting
      /\ dump' = <<>> \o Tail(dump) /\ f \in Frames /\ last_ins_is_ret \in BOOLEAN
  BY Inside DEF DumpJoin, Running, Continue, counts, Counting
<1>2. /\ to \in Labels /\ l \in Labels /\ Reserved(f) = {l} /\ Owes(f) = {l} /\ Aims(f) = {to}
      /\ f.at \notin Returners
  BY <1>1, FrameFields DEF Reserved, Owes, Aims, Returners
<1>3. l # Entry /\ to \in Known
  BY <1>1, <1>2, Inside, ReservedLabels
<1> PICK t : t = JoinText(last_ins_is_ret, to, l)
  OBVIOUS
<1>4. Says(t, {l}, {to}, {}, {l}, {}) /\ k_str' = k_str \o t
  BY <1>1, <1>2, <1>3, JoinSays DEF DumpJoin
<1>5. Moves(t, {l}, {to}, {}, {l}, {}, <<>>, {}, {}, {}, {})
  BY <1>1, <1>2, <1>3, <1>4, NoCalls DEF Moves
<1> QED BY <1>1, <1>5, TextStep

LEMMA TextWhile == ASSUME TextInv, DumpWhile PROVE TextNext
<1> PICK n, l : n = unused_koopa_label_count /\ l = Lab("while", n)
  OBVIOUS
<1>1. /\ dump # <<>> /\ dump[1].at = "Stmt" /\ Head(dump) = dump[1] /\ Counting
      /\ n \in Nat /\ unused_koopa_label_count' = n + 3 /\ last_ins_is_ret \in BOOLEAN
  BY Inside DEF DumpWhile, RunningStmt, Running, Counting
<1> PICK s : s = dump[1].stmt
  OBVIOUS
<1>2. s.exp \in Exps /\ s.stmt \in Stmts
  <2>1. s \in Stmts /\ s.tag = 6 /\ GrammarStmt(s)
    BY <1>1, Inside, FrameFields, Grammar DEF DumpWhile, RunningStmt
  <2> QED BY <2>1 DEF GrammarStmt
<1> PICK g, h : g = Lab("while_true", n + 1) /\ h = Lab("while_false", n + 2)
  OBVIOUS
<1>3. l \in Labels /\ l # Entry /\ {l, g, h} \subseteq NewNames /\ l # g /\ l # h
  <2>1. /\ n \in unused_koopa_label_count .. unused_koopa_label_count' - 1
        /\ n + 1 \in unused_koopa_label_count .. unused_koopa_label_count' - 1
        /\ n + 2 \in unused_koopa_label_count .. unused_koopa_label_count' - 1
    BY <1>1
  <2>2. l # g /\ l # h
    BY DEF Lab
  <2> QED BY <1>1, <2>1, <2>2, NewLabel DEF LabelKinds
<1> PICK t, f : t = JoinText(last_ins_is_ret, l, l) /\ f = [at |-> "While", stmt |-> s.stmt, n |-> n]
  OBVIOUS
<1>4. k_str' = k_str \o t /\ dump' = <<ExpF(s.exp), f>> \o Tail(dump)
  BY <1>1 DEF DumpWhile, Continue
<1>5. Says(t, {l}, {l}, {}, {l}, {})
  BY <1>1, <1>3, JoinSays
<1>6. Leaves(<<ExpF(s.exp), f>>, {g, h}, {l}, {}, {})
  <2>1. f \in Frames /\ f.at \in Readers /\ Holds(f) = {}
    BY <1>1, <1>2, FrameType DEF Readers, Holds
  <2>2. Reserved(f) = {g, h} /\ Aims(f) = {l} /\ Owes(f) = {}
    BY DEF Reserved, Aims, Owes
  <2>3. Leaves(<<ExpF(s.exp), f>>, Reserved(f), Aims(f), {}, Owes(f))
    BY <1>2, <2>1, ReadCalls
  <2> QED BY <2>2, <2>3
<1>7. Reserved(dump[1]) = {} /\ Owes(dump[1]) = {} /\ dump[1].at \notin Returners
  BY <1>1, PlainCalls DEF Returners
<1>8. Moves(t, {l}, {l}, {}, {l}, {}, <<ExpF(s.exp), f>>, {g, h}, {l}, {}, {})
  BY <1>1, <1>3, <1>4, <1>5, <1>6, <1>7 DEF Moves
<1> QED BY <1>1, <1>8, TextStep

\* The labels of a while that was numbered n.
LEMMA WhileLabels ==
  ASSUME NEW n \in Nat
  PROVE  /\ \A kind \in LabelKinds \ {"entry"} : \A m \in {n, n + 1, n + 2} :
              Lab(kind, m) \in Labels /\ Lab(kind, m) # Entry
<1>1. \A m \in {n, n + 1, n + 2} : m \in Nat
  OBVIOUS
<1> QED BY <1>1, LabelType, Locals

LEMMA TextWhileBody == ASSUME TextInv, DumpWhileBody PROVE TextNext
<1> PICK q, n : q = dump[1] /\ n = q.n
  OBVIOUS
<1> PICK l, g, h : /\ l = Lab("while", n) /\ g = Lab("while_true", n + 1)
                   /\ h = Lab("while_false", n + 2)
  OBVIOUS
<1>1. /\ dump # <<>> /\ q.at = "While" /\ Head(dump) = q /\ Counting /\ q \in Frames
      /\ data \in Operands /\ (IsLocal(data) => data \in Here)
  BY Inside DEF DumpWhileBody, Running, counts, Counting, Readers
<1>2. n \in Nat /\ q.stmt \in Stmts
  BY <1>1, FrameFields
<1>3. /\ l \in Labels /\ g \in Labels /\ g # Entry /\ h \in Labels /\ h # Entry /\ g # h
  <2>1. g # h
    BY DEF Lab
  <2> QED BY <1>2, <2>1, WhileLabels DEF LabelKinds
<1>4. Reserved(q) = {g, h} /\ Owes(q) = {} /\ l \in Known /\ q.at \notin Returners
  <2>1. Reserved(q) = {g, h} /\ Owes(q) = {} /\ Aims(q) = {l} /\ q.at \notin Returners
    BY <1>1 DEF Reserved, Owes, Aims, Returners
  <2> QED BY <1>1, <2>1, Inside
<1>5. CASE data = Imm(0)
  <2>1. k_str' = k_str \o <<Jump(h), Label(h)>> /\ dump' = <<>> \o Tail(dump)
    BY <1>1, <1>5 DEF DumpWhileBody, Continue
  <2>2. Says(<<Jump(h), Label(h)>>, {h}, {h}, {}, {h}, {})
    BY <1>3, JumpText
  <2>3. Moves(<<Jump(h), Label(h)>>, {h}, {h}, {}, {h}, {}, <<>>, {}, {}, {}, {})
    BY <1>1, <1>4, <2>1, <2>2, NoCalls DEF Moves
  <2> QED BY <1>1, <2>3, TextStep
<1>6. CASE data # Imm(0)
  <2> PICK s, j : s = StmtF(q.stmt) /\ j = LoopJoin(l, h)
    OBVIOUS
  <2>1. k_str' = k_str \o <<Br(data, g, h), Label(g)>> /\ dump' = <<s, j>> \o Tail(dump)
    BY <1>1, <1>6 DEF DumpWhileBody, Continue
  <2>2. Says(<<Br(data, g, h), Label(g)>>, {g}, {g, h}, {data}, {g}, {})
    BY <1>1, <1>3, BrText
  <2>3. Leaves(<<s, j>>, {h}, {l}, {}, {h})
    <3>1. s \in Frames /\ s.at = "Stmt" /\ j \in Frames
      BY <1>2, <1>3, FrameType DEF StmtF
    <3>2. Reserved(j) = {h} /\ Aims(j) = {l} /\ Holds(j) = {} /\ Owes(j) = {h} /\ j.at \notin Readers
      BY DEF LoopJoin, Reserved, Aims, Holds, Owes, Readers
    <3>3. Leaves(<<s, j>>, Reserved(j), Aims(j), {}, Owes(j))
      BY <3>1, <3>2, TwoCalls
    <3> QED BY <3>2, <3>3
  <2>4. Moves(<<Br(data, g, h), Label(g)>>, {g}, {g, h}, {data}, {g}, {}, <<s, j>>, {h}, {l}, {}, {h})
    BY <1>1, <1>3, <1>4, <2>1, <2>2, <2>3 DEF Moves
  <2> QED BY <1>1, <2>4, TextStep
<1> QED BY <1>5, <1>6

LEMMA TextLoopExit == ASSUME TextInv, DumpLoopExit PROVE TextNext
<1> PICK n, l : n = unused_koopa_label_count /\ l = Lab("while_never_access", n)
  OBVIOUS
<1>1. /\ dump # <<>> /\ dump[1].at = "Stmt" /\ Head(dump) = dump[1] /\ Counting
      /\ n \in Nat /\ unused_koopa_label_count' = n + 1 /\ dump \in Seq(Frames)
      /\ dump' = <<>> \o Tail(dump)
  BY Inside DEF DumpLoopExit, RunningStmt, Running, Counting, Continue
<1>2. PICK i \in 1 .. Len(dump) :
        /\ dump[i].at = "LoopJoin"
        /\ k_str' = k_str \o
             <<Jump(IF dump[1].stmt.tag = 7 THEN dump[i].label ELSE dump[i].to), Label(l)>>
  <2>1. DOMAIN dump = 1 .. Len(dump)
    BY <1>1
  <2> QED BY <1>1, <2>1 DEF DumpLoopExit
<1> PICK x : x = IF dump[1].stmt.tag = 7 THEN dump[i].label ELSE dump[i].to
  OBVIOUS
<1>3. x \in Labels /\ x \in Known
  <2>1. /\ dump[i] \in Frames /\ dump[i].to \in Labels /\ dump[i].label \in Labels
    BY <1>1, <1>2, FrameFields
  <2>2. Aims(dump[i]) = {dump[i].to} /\ Owes(dump[i]) = {dump[i].label}
    BY <1>2 DEF Aims, Owes, Reserved
  <2>3. Aims(dump[i]) \subseteq Known /\ Owes(dump[i]) \subseteq Known
    <3>1. Owes(dump[i]) \subseteq Promised(dump)
      BY DEF Promised
    <3> QED BY <1>1, <3>1, Inside DEF Known
  <2> QED BY <2>1, <2>2, <2>3
<1>4. l \in Labels /\ l # Entry /\ l \in NewNames
  <2>1. n \in unused_koopa_label_count .. unused_koopa_label_count' - 1
    BY <1>1
  <2> QED BY <1>1, <2>1, NewLabel DEF LabelKinds
<1>5. Says(<<Jump(x), Label(l)>>, {l}, {x}, {}, {l}, {})
  BY <1>3, <1>4, JumpText
<1>6. Reserved(dump[1]) = {} /\ Owes(dump[1]) = {} /\ dump[1].at \notin Returners
  BY <1>1, PlainCalls DEF Returners
<1>7. Moves(<<Jump(x), Label(l)>>, {l}, {x}, {}, {l}, {}, <<>>, {}, {}, {}, {})
  BY <1>1, <1>2, <1>3, <1>4, <1>5, <1>6, NoCalls DEF Moves
<1> QED BY <1>1, <1>7, TextStep

LEMMA TextLogic == ASSUME TextInv, DumpLogic PROVE TextNext
<1> PICK c, v, e : c = unused_koopa_var_count /\ v = Temp(c) /\ e = dump[1].exp
  OBVIOUS
<1>1. /\ dump # <<>> /\ dump[1].at = "Exp" /\ Head(dump) = dump[1] /\ Counting
      /\ c \in Nat /\ unused_koopa_var_count' = c + 1 /\ k_str \in Seq(Items)
      /\ e \in Exps /\ GrammarExp(e) /\ e.tag \in {"lor", "land"}
  BY Inside, FrameFields, Grammar DEF DumpLogic, Running, Counting
<1>2. v \in Operands /\ IsLocal(v) /\ v \in NewNames
  <2>1. c \in unused_koopa_var_count .. unused_koopa_var_count' - 1
    BY <1>1
  <2> QED BY <1>1, <2>1, Inside, OperandType, Locals, FreshNames
<1> PICK it, f : it = Alloc(v) /\ f = [at |-> "LogicRhs", exp |-> e, temp |-> v]
  OBVIOUS
<1>3. it \in Items /\ Says(<<it>>, {v}, {}, {}, {}, {v})
  BY <1>1, <1>2, PlainItems, AllocText
<1>4. k_str' = k_str \o <<it>> /\ dump' = <<ExpF(e.lhs), f>> \o Tail(dump)
  BY <1>1, <1>3, Added DEF DumpLogic, Continue
<1>5. Leaves(<<ExpF(e.lhs), f>>, {}, {}, {v}, {}) /\ f.at \in Returners
  <2>1. f \in Frames /\ f.at \in Readers /\ f.at \in Returners /\ Holds(f) = {v} /\ e.lhs \in Exps
    BY <1>1, <1>2, LogicFrameType DEF Readers, Returners, Holds, GrammarExp
  <2>2. Reserved(f) = {} /\ Aims(f) = {} /\ Owes(f) = {}
    BY DEF Reserved, Aims, Owes
  <2>3. Leaves(<<ExpF(e.lhs), f>>, Reserved(f), Aims(f), {v}, Owes(f))
    BY <2>1, ReadCalls
  <2> QED BY <2>1, <2>2, <2>3
<1>6. Reserved(dump[1]) = {} /\ Owes(dump[1]) = {}
  BY <1>1, PlainCalls
<1> PICK d : d = <<ExpF(e.lhs), f>>
  OBVIOUS
<1>7. d # <<>> /\ d[Len(d)] = f
  OBVIOUS
<1>8. Moves(<<it>>, {v}, {}, {}, {}, {v}, d, {}, {}, {v}, {})
  BY <1>1, <1>2, <1>3, <1>4, <1>5, <1>6, <1>7 DEF Moves
<1> QED BY <1>1, <1>8, TextStep

LEMMA TextLogicRhs == ASSUME TextInv, DumpLogicRhs PROVE TextNext
<1> PICK q, n, x, y, e : /\ q = dump[1] /\ n = unused_koopa_label_count /\ x = Lab("then", n)
                         /\ y = Lab("else", n + 1) /\ e = Lab("end", n + 2)
  OBVIOUS
<1>1. /\ dump # <<>> /\ q.at = "LogicRhs" /\ Head(dump) = q /\ Counting
      /\ n \in Nat /\ unused_koopa_label_count' = n + 3 /\ q \in Frames /\ data \in Operands
      /\ (IsLocal(data) => data \in Here)
  BY Inside DEF DumpLogicRhs, Running, Counting, Readers
<1>2. /\ q.exp \in Exps /\ GrammarExp(q.exp) /\ q.exp.tag \in {"lor", "land"} /\ q.temp \in Operands
      /\ (IsLocal(q.temp) => q.temp \in Here)
  <2>1. Holds(q) = {q.temp}
    BY <1>1 DEF Holds
  <2> QED BY <1>1, <2>1, Inside, FrameFields, Grammar
<1>3. /\ x \in Labels /\ x # Entry /\ x \in NewNames /\ y \in Labels /\ y # Entry /\ y \in NewNames
      /\ e \in NewNames /\ x # y /\ x # e /\ y # e
  <2>1. /\ n \in unused_koopa_label_count .. unused_koopa_label_count' - 1
        /\ n + 1 \in unused_koopa_label_count .. unused_koopa_label_count' - 1
        /\ n + 2 \in unused_koopa_label_count .. unused_koopa_label_count' - 1
    BY <1>1
  <2>2. x # y /\ x # e /\ y # e
    BY DEF Lab
  <2> QED BY <1>1, <2>1, <2>2, NewLabel DEF LabelKinds
<1> PICK r, s : r = RhsLabel(q.exp.tag, n) /\ s = ShortLabel(q.exp.tag, n)
  OBVIOUS
<1>4. {r, s} = {x, y} /\ r # s
  BY <1>2, <1>3 DEF RhsLabel, ShortLabel
<1> PICK t, f : /\ t = <<Br(data, x, y), Label(r)>>
                /\ f = [at |-> "LogicOp", tag |-> q.exp.tag, temp |-> q.temp, lhs |-> data, n |-> n]
  OBVIOUS
<1>5. k_str' = k_str \o t /\ dump' = <<ExpF(q.exp.rhs), f>> \o Tail(dump)
  BY <1>1 DEF DumpLogicRhs, Continue
<1>6. Says(t, {r}, {x, y}, {data}, {r}, {})
  <2>1. r \in Labels /\ r # Entry
    BY <1>3, <1>4
  <2> QED BY <1>1, <1>3, <2>1, BrText
<1>7. Leaves(<<ExpF(q.exp.rhs), f>>, {s, e}, {}, {q.temp, data}, {s, e}) /\ f.at \in Returners
  <2>1. /\ f \in Frames /\ f.at \in Readers /\ f.at \in Returners /\ Holds(f) = {q.temp, data}
        /\ q.exp.rhs \in Exps
    BY <1>1, <1>2, LogicFrameType DEF Readers, Returners, Holds, GrammarExp
  <2>2. Reserved(f) = {s, e} /\ Aims(f) = {} /\ Owes(f) = {s, e}
    BY DEF Reserved, Aims, Owes
  <2>3. Leaves(<<ExpF(q.exp.rhs), f>>, Reserved(f), Aims(f), {q.temp, data}, Owes(f))
    BY <2>1, ReadCalls
  <2> QED BY <2>1, <2>2, <2>3
<1>8. Reserved(q) = {} /\ Owes(q) = {}
  BY <1>1 DEF Reserved, Owes
<1> PICK d : d = <<ExpF(q.exp.rhs), f>>
  OBVIOUS
<1>9. d # <<>> /\ d[Len(d)] = f
  OBVIOUS
<1>10. Moves(t, {r}, {x, y}, {data}, {r}, {}, d, {s, e}, {}, {q.temp, data}, {s, e})
  BY <1>1, <1>2, <1>3, <1>4, <1>5, <1>6, <1>7, <1>8, <1>9 DEF Moves
<1> QED BY <1>1, <1>10, TextStep

(***************************************************************************)
(* The text behind the right operand of || and &&.                         *)
(***************************************************************************)
LEMMA LogicOpSays ==
  ASSUME NEW tag \in {"lor", "land"}, NEW lhs \in Operands, NEW rhs \in Operands, NEW r \in Nat,
         NEW k, k = LogicOpRegs(tag)
  PROVE  Says(LogicOpText(tag, lhs, rhs, r), {Reg(i) : i \in r .. r + k - 1}, {}, {lhs, rhs},
              {}, {Reg(r + k - 1)})
<1>a. 0 \in Int /\ r + 1 \in Nat /\ r + 2 \in Nat
  OBVIOUS
<1>0. /\ r + 1 \in Nat /\ r + 2 \in Nat /\ Reg(r) \in Operands /\ Reg(r + 1) \in Operands
      /\ Imm(0) \in Operands /\ ~ IsLocal(Imm(0))
  BY <1>a, OperandType, Locals
<1>1. Reg(r) # Reg(r + 1) /\ Reg(r) # Reg(r + 2) /\ Reg(r + 1) # Reg(r + 2)
  BY DEF Reg
<1>2. \A a, b \in Operands : <<a, b>> \in Seq(Operands) /\ Range(<<a, b>>) = {a, b}
  BY Tuples, Ranges
<1>3. ASSUME NEW op \in {"or", "ne", "and"}, NEW m \in Nat, NEW a \in Operands, NEW b \in Operands
      PROVE  /\ Ins(op, Reg(m), <<a, b>>) \in Items
             /\ Says(<<Ins(op, Reg(m), <<a, b>>)>>, {Reg(m)}, {}, {a, b}, {}, {Reg(m)})
             /\ b = Imm(0) => Says(<<Ins(op, Reg(m), <<a, b>>)>>, {Reg(m)}, {}, {a}, {}, {Reg(m)})
  <2> PICK args : args = <<a, b>>
    OBVIOUS
  <2>1. args \in Seq(Operands) /\ Range(args) = {a, b} /\ Reg(m) \in Operands
    BY <1>2, OperandType
  <2>2. Ins(op, Reg(m), args) \in Items
    BY <2>1, PlainItems
  <2>3. Says(<<Ins(op, Reg(m), args)>>, {Reg(m)}, {}, {a, b}, {}, {Reg(m)})
    BY <2>1, InsText
  <2>4. CASE b = Imm(0)
    <3>1. \A x \in Range(args) : IsLocal(x) => x \in {a}
      BY <1>0, <2>1, <2>4
    <3>2. Says(<<Ins(op, Reg(m), args)>>, {Reg(m)}, {}, {a}, {}, {Reg(m)})
      BY <2>1, <3>1, InsText
    <3> QED BY <2>2, <2>3, <3>2
  <2> QED BY <2>2, <2>3, <2>4
<1>4. CASE tag = "lor"
  <2> PICK a, b : /\ a = Ins("or", Reg(r), <<lhs, rhs>>)
                  /\ b = Ins("ne", Reg(r + 1), <<Reg(r), Imm(0)>>)
    OBVIOUS
  <2>1. /\ a \in Items /\ Says(<<a>>, {Reg(r)}, {}, {lhs, rhs}, {}, {Reg(r)})
        /\ b \in Items /\ Says(<<b>>, {Reg(r + 1)}, {}, {Reg(r)}, {}, {Reg(r + 1)})
    BY <1>0, <1>3
  <2>2. Says(<<a>> \o <<b>>, {Reg(r)} \cup {Reg(r + 1)}, {} \cup {},
             {lhs, rhs} \cup ({Reg(r)} \ {Reg(r)}), {} \cup {}, {Reg(r)} \cup {Reg(r + 1)})
    BY <1>1, <2>1, BothTexts
  <2>3. LogicOpText(tag, lhs, rhs, r) = <<a, b>> /\ <<a>> \o <<b>> = <<a, b>>
    BY <1>4, <2>1, Joined DEF LogicOpText
  <2>4. k = 2 /\ r + k - 1 = r + 1
    BY <1>4 DEF LogicOpRegs
  <2>5. {Reg(i) : i \in r .. r + k - 1} = {Reg(r)} \cup {Reg(r + 1)}
    <3>1. r .. r + k - 1 = {r, r + 1}
      BY <2>4
    <3> QED BY <3>1
  <2>6. Says(<<a, b>>, {Reg(i) : i \in r .. r + k - 1}, {} \cup {},
             {lhs, rhs} \cup ({Reg(r)} \ {Reg(r)}), {} \cup {}, {Reg(r)} \cup {Reg(r + 1)})
    BY <2>2, <2>3, <2>5
  <2> QED BY <2>3, <2>4, <2>6, SaysLess
<1>5. CASE tag = "land"
  <2> PICK a, b, c : /\ a = Ins("ne", Reg(r), <<lhs, Imm(0)>>)
                     /\ b = Ins("ne", Reg(r + 1), <<rhs, Imm(0)>>)
                     /\ c = Ins("and", Reg(r + 2), <<Reg(r + 1), Reg(r)>>)
    OBVIOUS
  <2>1. /\ a \in Items /\ Says(<<a>>, {Reg(r)}, {}, {lhs}, {}, {Reg(r)})
        /\ b \in Items /\ Says(<<b>>, {Reg(r + 1)}, {}, {rhs}, {}, {Reg(r + 1)})
        /\ c \in Items /\ Says(<<c>>, {Reg(r + 2)}, {}, {Reg(r + 1), Reg(r)}, {}, {Reg(r + 2)})
    BY <1>0, <1>3
  <2>2. Says(<<a>> \o <<b>>, {Reg(r)} \cup {Reg(r + 1)}, {} \cup {},
             {lhs} \cup ({rhs} \ {Reg(r)}), {} \cup {}, {Reg(r)} \cup {Reg(r + 1)})
    BY <1>1, <2>1, BothTexts
  <2>3. Says(<<a, b>>, {Reg(r), Reg(r + 1)}, {}, {lhs, rhs}, {}, {Reg(r), Reg(r + 1)})
    <3>1. <<a>> \o <<b>> = <<a, b>> /\ {Reg(r)} \cup {Reg(r + 1)} = {Reg(r), Reg(r + 1)}
      BY <2>1, Joined
    <3>2. Says(<<a, b>>, {Reg(r), Reg(r + 1)}, {} \cup {},
               {lhs} \cup ({rhs} \ {Reg(r)}), {} \cup {}, {Reg(r), Reg(r + 1)})
      BY <2>2, <3>1
    <3> QED BY <3>2, SaysLess
  <2>4. Says(<<a, b>> \o <<c>>, {Reg(r), Reg(r + 1)} \cup {Reg(r + 2)}, {} \cup {},
             {lhs, rhs} \cup ({Reg(r + 1), Reg(r)} \ {Reg(r), Reg(r + 1)}), {} \cup {},
             {Reg(r), Reg(r + 1)} \cup {Reg(r + 2)})
    BY <1>1, <2>1, <2>3, BothTexts
  <2>5. LogicOpText(tag, lhs, rhs, r) = <<a, b, c>> /\ <<a, b>> \o <<c>> = <<a, b, c>>
    <3>1. LogicOpText(tag, lhs, rhs, r) = <<a, b, c>>
      BY <1>5 DEF LogicOpText
    <3>2. a \in Items /\ b \in Items /\ c \in Items
      BY <2>1
    <3>3. <<a, b>> \o <<c>> = <<a, b, c>>
      BY ONLY <3>2, ThreeJoined
    <3> QED BY <3>1, <3>3
  <2>6. k = 3 /\ r + k - 1 = r + 2
    BY <1>5 DEF LogicOpRegs
  <2>7. {Reg(i) : i \in r .. r + k - 1} = {Reg(r), Reg(r + 1)} \cup {Reg(r + 2)}
    <3>1. r .. r + k - 1 = {r, r + 1, r + 2}
      BY <2>6
    <3> QED BY <3>1
  <2>8. Says(<<a, b, c>>, {Reg(i) : i \in r .. r + k - 1}, {} \cup {},
             {lhs, rhs} \cup ({Reg(r + 1), Reg(r)} \ {Reg(r), Reg(r + 1)}), {} \cup {},
             {Reg(r), Reg(r + 1)} \cup {Reg(r + 2)})
    BY <2>4, <2>5, <2>7
  <2> QED BY <2>5, <2>6, <2>8, SaysLess
<1> QED BY <1>4, <1>5

LEMMA LogicTailSays ==
  ASSUME NEW v \in Operands, ~ IsLocal(v), NEW temp \in Operands, NEW e \in Labels, e # Entry,
         NEW m \in Nat
  PROVE  Says(<<Store(v, temp), Jump(e), Label(e), Ins("load", Reg(m), <<temp>>)>>,
              {e, Reg(m)}, {e}, {temp}, {e}, {Reg(m)})
<1> PICK a, b, c, d : /\ a = Store(v, temp) /\ b = Jump(e) /\ c = Label(e)
                      /\ d = Ins("load", Reg(m), <<temp>>)
  OBVIOUS
<1>1. a \in Items /\ Says(<<a>>, {}, {}, {temp}, {}, {})
  <2>1. a \in Items /\ a.op = "store"
    BY PlainItems
  <2>2. a.to = <<>> /\ a.args = <<v, temp>> /\ NameOf(a) = {}
    BY ItemFields
  <2>3. Range(a.to) \subseteq {} /\ \A x \in Range(a.args) : IsLocal(x) => x \in {temp}
    BY <2>2, Ranges
  <2>4. Says(<<a>>, NameOf(a), {}, {temp}, IF a.op = "label" THEN {a.dst} ELSE {}, {a.dst})
    BY <2>1, <2>3, OneText
  <2> QED BY <2>1, <2>2, <2>4 DEF Says
<1>2. b \in Items /\ Says(<<b>>, {}, {e}, {}, {}, {})
  <2>1. b \in Items /\ b.op = "jump"
    BY ControlItems
  <2>2. b.to = <<e>> /\ b.args = <<>> /\ NameOf(b) = {}
    BY ItemFields
  <2>3. Range(b.to) \subseteq {e} /\ \A x \in Range(b.args) : IsLocal(x) => x \in {}
    BY <2>2, Ranges
  <2>4. Says(<<b>>, NameOf(b), {e}, {}, IF b.op = "label" THEN {b.dst} ELSE {}, {b.dst})
    BY <2>1, <2>3, OneText
  <2> QED BY <2>1, <2>2, <2>4 DEF Says
<1>3. c \in Items /\ Says(<<c>>, {e}, {}, {}, {e}, {})
  BY ControlItems, LabelText
<1>4. d \in Items /\ Says(<<d>>, {Reg(m)}, {}, {temp}, {}, {Reg(m)})
  <2> PICK args : args = <<temp>>
    OBVIOUS
  <2>1. args \in Seq(Operands) /\ Reg(m) \in Operands
    BY Tuples, OperandType
  <2>2. \A x \in Range(args) : IsLocal(x) => x \in {temp}
    BY Ranges
  <2>3. Ins("load", Reg(m), args) \in Items
    BY <2>1, PlainItems
  <2>4. Says(<<Ins("load", Reg(m), args)>>, {Reg(m)}, {}, {temp}, {}, {Reg(m)})
    BY <2>1, <2>2, InsText
  <2> QED BY <2>3, <2>4
<1>5. e # Reg(m)
  BY DEF Labels, LabelKinds, Reg
<1>6. Says(<<a>> \o <<b>>, {} \cup {}, {} \cup {e}, {temp} \cup ({} \ {}), {} \cup {}, {} \cup {})
  BY <1>1, <1>2, BothTexts
<1>7. /\ <<a>> \o <<b>> = <<a, b>> /\ <<a, b>> \o <<c>> = <<a, b, c>>
      /\ <<a, b, c>> \o <<d>> = <<a, b, c, d>>
  <2>1. a \in Items /\ b \in Items /\ c \in Items /\ d \in Items
    BY <1>1, <1>2, <1>3, <1>4
  <2> QED BY ONLY <2>1, Joined
<1>8. Says(<<a, b>>, {}, {e}, {temp}, {}, {})
  <2>1. Says(<<a, b>>, {}, {} \cup {e}, {temp} \cup ({} \ {}), {} \cup {}, {} \cup {})
    BY <1>6, <1>7
  <2> QED BY <2>1, SaysLess
<1>9. Says(<<a, b, c>>, {e}, {e}, {temp}, {e}, {})
  <2>1. Says(<<a, b>> \o <<c>>, {} \cup {e}, {e} \cup {}, {temp} \cup ({} \ {}), {} \cup {e}, {} \cup {})
    BY <1>3, <1>8, BothTexts
  <2>2. {} \cup {e} = {e}
    OBVIOUS
  <2>3. Says(<<a, b, c>>, {e}, {e} \cup {}, {temp} \cup ({} \ {}), {e}, {} \cup {})
    BY <1>7, <2>1, <2>2
  <2> QED BY <2>3, SaysLess
<1>10. Says(<<a, b, c, d>>, {e, Reg(m)}, {e}, {temp}, {e}, {Reg(m)})
  <2>1. Says(<<a, b, c>> \o <<d>>, {e} \cup {Reg(m)}, {e} \cup {}, {temp} \cup ({temp} \ {}),
             {e} \cup {}, {} \cup {Reg(m)})
    BY <1>4, <1>5, <1>9, BothTexts
  <2>2. {e} \cup {Reg(m)} = {e, Reg(m)}
    OBVIOUS
  <2>3. Says(<<a, b, c, d>>, {e, Reg(m)}, {e} \cup {}, {temp} \cup ({temp} \ {}), {e} \cup {},
             {} \cup {Reg(m)})
    BY <1>7, <2>1, <2>2
  <2> QED BY <2>3, SaysLess
<1> QED BY <1>10

LEMMA LogicSays ==
  ASSUME NEW tag \in {"lor", "land"}, NEW lhs \in Operands, NEW rhs \in Operands,
         NEW temp \in Operands, NEW r \in Nat, NEW k, k = LogicOpRegs(tag),
         NEW is_ret \in BOOLEAN, NEW e \in Labels, e # Entry, NEW l \in Labels, l # Entry, e # l,
         NEW v \in Operands, ~ IsLocal(v)
  PROVE  Says(LogicOpText(tag, lhs, rhs, r)
                \o (<<Store(Reg(r + k - 1), temp)>>
                     \o (JoinText(is_ret, e, l)
                          \o <<Store(v, temp), Jump(e), Label(e),
                               Ins("load", Reg(r + k + 1), <<temp>>)>>)),
              {Reg(i) : i \in r .. r + k - 1} \cup {l, e, Reg(r + k + 1)}, {e}, {lhs, rhs, temp},
              {l, e}, {Reg(r + k + 1)})
<1> PICK regs, m, last : /\ regs = {Reg(i) : i \in r .. r + k - 1}
                         /\ m = Reg(r + k + 1) /\ last = Reg(r + k - 1)
  OBVIOUS
<1>1. r + k - 1 \in Nat /\ r + k + 1 \in Nat /\ k \in {2, 3}
  BY DEF LogicOpRegs
<1> PICK A, B, C, D :
      /\ A = LogicOpText(tag, lhs, rhs, r) /\ B = <<Store(last, temp)>> /\ C = JoinText(is_ret, e, l)
      /\ D = <<Store(v, temp), Jump(e), Label(e), Ins("load", m, <<temp>>)>>
  OBVIOUS
<1>2. Says(A, regs, {}, {lhs, rhs}, {}, {last})
  BY LogicOpSays
<1>3. Says(B, {}, {}, {last, temp}, {}, {})
  <2>1. last \in Operands
    BY <1>1, OperandType
  <2> QED BY <2>1, StoreText
<1>4. Says(C, {l}, {e}, {}, {l}, {})
  BY JoinSays
<1>5. Says(D, {e, m}, {e}, {temp}, {e}, {m})
  BY <1>1, LogicTailSays
<1>6. l # m /\ e # m /\ m \notin regs /\ l \notin regs /\ e \notin regs
  <2>1. /\ \A x : l # Reg(x) /\ e # Reg(x)
        /\ \A x, y : x # y => Reg(x) # Reg(y)
    BY DEF Labels, LabelKinds, Reg
  <2>2. \A i \in r .. r + k - 1 : r + k + 1 # i
    BY <1>1
  <2> QED BY <2>1, <2>2
<1>7. Says(C \o D, {l, e, m}, {e}, {temp}, {l, e}, {m})
  <2>1. Says(C \o D, {l} \cup {e, m}, {e} \cup {e}, {} \cup ({temp} \ {}), {l} \cup {e}, {} \cup {m})
    BY <1>4, <1>5, <1>6, BothTexts
  <2>2. {l} \cup {e, m} = {l, e, m}
    OBVIOUS
  <2>3. Says(C \o D, {l, e, m}, {e} \cup {e}, {} \cup ({temp} \ {}), {l} \cup {e}, {} \cup {m})
    BY <2>1, <2>2
  <2> QED BY <2>3, SaysLess
<1>8. Says(B \o (C \o D), {l, e, m}, {e}, {last, temp}, {l, e}, {m})
  <2>1. Says(B \o (C \o D), {} \cup {l, e, m}, {} \cup {e}, {last, temp} \cup ({temp} \ {}),
             {} \cup {l, e}, {} \cup {m})
    BY <1>3, <1>7, BothTexts
  <2>2. {} \cup {l, e, m} = {l, e, m}
    OBVIOUS
  <2>3. Says(B \o (C \o D), {l, e, m}, {} \cup {e}, {last, temp} \cup ({temp} \ {}),
             {} \cup {l, e}, {} \cup {m})
    BY <2>1, <2>2
  <2> QED BY <2>3, SaysLess
<1>9. Says(A \o (B \o (C \o D)), regs \cup {l, e, m}, {e}, {lhs, rhs, temp}, {l, e}, {m})
  <2>0. regs \cap {l, e, m} = {}
    BY <1>6
  <2>1. Says(A \o (B \o (C \o D)), regs \cup {l, e, m}, {} \cup {e},
             {lhs, rhs} \cup ({last, temp} \ {last}), {} \cup {l, e}, {last} \cup {m})
    BY <1>2, <1>8, <2>0, BothTexts
  <2> QED BY <2>1, SaysLess
<1> QED BY <1>9

LEMMA TwoBehind ==
  ASSUME NEW S, NEW a \in Seq(S), NEW b \in Seq(S)
  PROVE  a \o b \in Seq(S)
  OBVIOUS

Grouped(Q) == \A a \in Q, b \in Q, c \in Q : (a \o b) \o c = a \o (b \o c)

LEMMA ThreeBehind ==
  ASSUME NEW S
  PROVE  Grouped(Seq(S))
<1>1. ASSUME NEW a \in Seq(S), NEW b \in Seq(S), NEW c \in Seq(S)
      PROVE  (a \o b) \o c = a \o (b \o c)
  BY ConcatAssociative
<1> QED BY <1>1 DEF Grouped

\* Four texts behind k are one text behind k.
AsOne(k, A, B, C, D) == k \o A \o B \o C \o D = k \o (A \o (B \o (C \o D)))

LEMMA FourTexts ==
  ASSUME NEW S, NEW k \in Seq(S), NEW A \in Seq(S), NEW B \in Seq(S), NEW C \in Seq(S),
         NEW D \in Seq(S)
  PROVE  AsOne(k, A, B, C, D)
<1> DEFINE Cat(a, b) == a \o b
           Q == Seq(S)
<1>1. \A a \in Q, b \in Q : Cat(a, b) \in Q
  BY TwoBehind
<1>2. \A a \in Q, b \in Q, c \in Q : Cat(Cat(a, b), c) = Cat(a, Cat(b, c))
  <2>1. Grouped(Q)
    BY ThreeBehind
  <2> QED BY ONLY <2>1, Zenon DEF Grouped
<1>3. k \in Q /\ A \in Q /\ B \in Q /\ C \in Q /\ D \in Q
  OBVIOUS
<1> HIDE DEF Cat, Q
<1>4. Cat(k, A) \in Q /\ Cat(C, D) \in Q
  BY ONLY <1>1, <1>3
<1>5. Cat(Cat(k, A), B) \in Q /\ Cat(B, Cat(C, D)) \in Q
  BY ONLY <1>1, <1>3, <1>4
<1>6. Cat(Cat(Cat(Cat(k, A), B), C), D) = Cat(Cat(Cat(k, A), B), Cat(C, D))
  BY ONLY <1>2, <1>3, <1>5
<1>7. Cat(Cat(Cat(k, A), B), Cat(C, D)) = Cat(Cat(k, A), Cat(B, Cat(C, D)))
  BY ONLY <1>2, <1>3, <1>4
<1>8. Cat(Cat(k, A), Cat(B, Cat(C, D))) = Cat(k, Cat(A, Cat(B, Cat(C, D))))
  BY ONLY <1>2, <1>3, <1>5
<1>9. Cat(Cat(Cat(Cat(k, A), B), C), D) = Cat(k, Cat(A, Cat(B, Cat(C, D))))
  BY ONLY <1>6, <1>7, <1>8
<1> QED BY ONLY <1>9 DEF Cat, AsOne

LEMMA TextLogicOp == ASSUME TextInv, DumpLogicOp PROVE TextNext
<1> PICK f, r, k, e, l, v : /\ f = dump[1] /\ r = unused_koopa_count /\ k = LogicOpRegs(f.tag)
                            /\ e = Lab("end", f.n + 2) /\ l = ShortLabel(f.tag, f.n)
                            /\ v = ShortValue(f.tag)
  OBVIOUS
<1>1. /\ dump # <<>> /\ f.at = "LogicOp" /\ Head(dump) = f /\ f \in Frames
      /\ r \in Nat /\ k \in {2, 3} /\ last_ins_is_ret \in BOOLEAN /\ k_str \in Seq(Items)
      /\ data \in Operands /\ (IsLocal(data) => data \in Here)
  BY Inside DEF DumpLogicOp, Running, Readers, LogicOpRegs
<1>2. /\ f.tag \in {"lor", "land"} /\ f.n \in Nat /\ f.temp \in Operands /\ f.lhs \in Operands
      /\ (IsLocal(f.temp) => f.temp \in Here) /\ (IsLocal(f.lhs) => f.lhs \in Here)
  <2>1. Holds(f) = {f.temp, f.lhs}
    BY <1>1 DEF Holds
  <2> QED BY <1>1, <2>1, Inside, FrameFields
<1>3. /\ e \in Labels /\ e # Entry /\ l \in Labels /\ l # Entry /\ e # l
      /\ Reserved(f) = {l, e} /\ Owes(f) = {l, e}
  <2>1. /\ e \in Labels /\ e # Entry /\ l \in Labels /\ l # Entry
    BY <1>2, WhileLabels DEF LabelKinds, ShortLabel
  <2>2. e # l
    BY DEF Lab, ShortLabel
  <2> QED BY <1>1, <2>1, <2>2 DEF Reserved, Owes
<1>4. v \in Operands /\ ~ IsLocal(v)
  <2>1. 0 \in Int /\ 1 \in Int
    OBVIOUS
  <2> QED BY <2>1, OperandType, Locals DEF ShortValue
<1> PICK A, B, C, D :
      /\ A = LogicOpText(f.tag, f.lhs, data, r) /\ B = <<Store(Reg(r + k - 1), f.temp)>>
      /\ C = JoinText(last_ins_is_ret, e, l)
      /\ D = <<Store(v, f.temp), Jump(e), Label(e), Ins("load", Reg(r + k + 1), <<f.temp>>)>>
  OBVIOUS
<1>5. /\ A \in Seq(Items) /\ B \in Seq(Items) /\ C \in Seq(Items) /\ D \in Seq(Items)
  BY <1>1, Inside, LogicOpItems
<1>6. /\ k_str' = k_str \o A \o B \o C \o D /\ dump' = <<>> \o Tail(dump)
      /\ data' = Reg(r + k + 1) /\ unused_koopa_count' = r + k + 2 /\ Counting
  <2>1. /\ k_str' = k_str \o A \o B \o C \o D /\ dump' = <<>> \o Tail(dump)
        /\ data' = Reg(r + k + 1) /\ unused_koopa_count' = r + k + 2
        /\ UNCHANGED <<unused_koopa_var_count, unused_koopa_label_count>>
    BY <1>1 DEF DumpLogicOp, Continue
  <2>2. r + k + 2 \in Nat /\ r <= r + k + 2
    BY ONLY <1>1
  <2>3. Counting
    <3>1. unused_koopa_count' \in Nat /\ unused_koopa_count <= unused_koopa_count'
      BY <2>1, <2>2
    <3>2. /\ unused_koopa_var_count' = unused_koopa_var_count /\ unused_koopa_var_count \in Nat
          /\ unused_koopa_label_count' = unused_koopa_label_count /\ unused_koopa_label_count \in Nat
      BY <1>1, <2>1, Inside
    <3> QED BY <3>1, <3>2 DEF Counting
  <2> QED BY <2>1, <2>3
<1> PICK t : t = A \o (B \o (C \o D))
  OBVIOUS
<1>7. k_str' = k_str \o t
  <2>1. k_str \o A \o B \o C \o D = k_str \o (A \o (B \o (C \o D)))
    <3>1. k_str \in Seq(Items)
      BY <1>1
    <3>2. AsOne(k_str, A, B, C, D)
      BY ONLY <1>5, <3>1, FourTexts, Zenon
    <3> QED BY <3>2 DEF AsOne
  <2> QED BY <1>6, <2>1
<1> PICK regs, m : regs = {Reg(i) : i \in r .. r + k - 1} /\ m = Reg(r + k + 1)
  OBVIOUS
<1>8. Says(t, regs \cup {l, e, m}, {e}, {f.lhs, data, f.temp}, {l, e}, {m})
  <2> PICK tag, lhs, rhs, temp, is_ret :
        /\ tag = f.tag /\ lhs = f.lhs /\ rhs = data /\ temp = f.temp /\ is_ret = last_ins_is_ret
    OBVIOUS
  <2>1. /\ tag \in {"lor", "land"} /\ lhs \in Operands /\ rhs \in Operands /\ temp \in Operands
        /\ r \in Nat /\ k = LogicOpRegs(tag) /\ is_ret \in BOOLEAN
        /\ e \in Labels /\ e # Entry /\ l \in Labels /\ l # Entry /\ e # l
        /\ v \in Operands /\ ~ IsLocal(v)
    BY <1>1, <1>2, <1>3, <1>4
  <2>2. /\ A = LogicOpText(tag, lhs, rhs, r) /\ B = <<Store(Reg(r + k - 1), temp)>>
        /\ C = JoinText(is_ret, e, l)
        /\ D = <<Store(v, temp), Jump(e), Label(e), Ins("load", Reg(r + k + 1), <<temp>>)>>
    OBVIOUS
  <2>3. Says(LogicOpText(tag, lhs, rhs, r)
               \o (<<Store(Reg(r + k - 1), temp)>>
                    \o (JoinText(is_ret, e, l)
                         \o <<Store(v, temp), Jump(e), Label(e),
                              Ins("load", Reg(r + k + 1), <<temp>>)>>)),
             {Reg(i) : i \in r .. r + k - 1} \cup {l, e, Reg(r + k + 1)}, {e}, {lhs, rhs, temp},
             {l, e}, {Reg(r + k + 1)})
    BY ONLY <2>1, LogicSays
  <2>4. Says(t, regs \cup {l, e, m}, {e}, {lhs, rhs, temp}, {l, e}, {m})
    BY ONLY <2>2, <2>3, t = A \o (B \o (C \o D)),
            regs = {Reg(i) : i \in r .. r + k - 1}, m = Reg(r + k + 1), Zenon
  <2> QED BY <2>4
<1>9. regs \subseteq NewNames /\ m \in NewNames
  <2>0. /\ \A i \in r .. r + k - 1 : i \in r .. (r + k + 2) - 1
        /\ r + k + 1 \in r .. (r + k + 2) - 1
    BY ONLY <1>1
  <2>1. /\ \A i \in r .. r + k - 1 : i \in unused_koopa_count .. unused_koopa_count' - 1
        /\ r + k + 1 \in unused_koopa_count .. unused_koopa_count' - 1
    BY <1>6, <2>0, Zenon
  <2> QED BY <1>1, <1>6, <2>1, Inside, FreshNames
<1>10. Moves(t, regs \cup {l, e, m}, {e}, {f.lhs, data, f.temp}, {l, e}, {m}, <<>>, {}, {}, {}, {})
  <2>1. /\ Reserved(dump[1]) = {l, e} /\ Owes(dump[1]) = {l, e} /\ regs \cup {m} \subseteq NewNames
        /\ dump' = <<>> \o Tail(dump) /\ Counting /\ Leaves(<<>>, {}, {}, {}, {}) /\ m = data'
    BY <1>3, <1>6, <1>9, NoCalls
  <2>2. \A a \in {f.lhs, data, f.temp} : IsLocal(a) => a \in Here
    BY ONLY <1>1, <1>2
  <2>3. /\ (regs \cup {l, e, m}) \cup {} \subseteq Reserved(dump[1]) \cup NewNames
        /\ (regs \cup {l, e, m}) \cap {} = {}
        /\ {e} \cup {} \subseteq Known \cup {l, e} \cup {} /\ Owes(dump[1]) \subseteq {l, e} \cup {}
        /\ IsLocal(data') => data' \in Here \cup {m}
    BY ONLY <2>1
  <2> QED BY ONLY <1>7, <1>8, <2>1, <2>2, <2>3 DEF Moves
<1>11. dump # <<>>
  BY <1>1
<1> QED BY ONLY TextInv, <1>10, <1>11, TextStep

\* A function begins: what was written before keeps its names, and the two new
\* items refer to nothing.
LEMMA NewFunction ==
  ASSUME NEW k \in Seq(Items), NEW S, Fits(k, <<>>, S), NEW operand, NEW t, NEW d,
         t = <<Fun, Label(Entry)>>, Len(d) = 2, d[1].at = "Block", d[2].at = "FuncEnd"
  PROVE  Fits(k \o t, d, S) /\ Sound(k \o t, Len(k) + 1, d, operand)
<1> PICK n, s, r : n = Len(k) /\ s = Len(k) + 1 /\ r = k \o t
  OBVIOUS
<1>1. /\ Fun \in Items /\ Label(Entry) \in Items /\ Fun.op = "fun" /\ Label(Entry).op = "label"
      /\ Label(Entry).dst = Entry
  BY ControlItems, ItemFields, OperandType
<1>2. t \in Seq(Items) /\ Len(t) = 2 /\ t[1] = Fun /\ t[2] = Label(Entry)
  BY <1>1
<1>3. /\ Len(r) = n + Len(t) /\ n \in Nat
      /\ \A i \in 1 .. n : r[i] = k[i]
      /\ \A i \in 1 .. Len(t) : r[n + i] = t[i]
      /\ \A i \in 1 .. Len(r) : i \in 1 .. n \/ \E j \in 1 .. Len(t) : i = n + j
  <2>1. /\ Len(k \o t) = Len(k) + Len(t) /\ Len(k) \in Nat
        /\ \A i \in 1 .. Len(k) : (k \o t)[i] = k[i]
        /\ \A i \in 1 .. Len(t) : (k \o t)[Len(k) + i] = t[i]
        /\ \A i \in 1 .. Len(k \o t) : i \in 1 .. Len(k) \/ \E j \in 1 .. Len(t) : i = Len(k) + j
    BY <1>2, Behind
  <2> QED BY <2>1
<1>4. /\ n \in Nat /\ Len(r) = n + 2 /\ s = n + 1
      /\ \A i \in 1 .. Len(r) : i \in 1 .. n \/ i = s \/ i = s + 1
      /\ \A i \in s .. Len(r) : i = s \/ i = s + 1
      /\ s \in 1 .. Len(r) /\ s + 1 \in 1 .. Len(r) /\ \A i \in s + 1 .. Len(r) : i = s + 1
  BY ONLY <1>2, <1>3, s = Len(k) + 1, n = Len(k)
<1>5. r[s] = Fun /\ r[s + 1] = Label(Entry)
  <2>1. 1 \in 1 .. Len(t) /\ 2 \in 1 .. Len(t) /\ n + 1 = s /\ n + 2 = s + 1
    BY ONLY <1>2, <1>4
  <2> QED BY ONLY <1>2, <1>3, <2>1
<1>6. /\ Range(Fun.to) = {} /\ Range(Fun.args) = {} /\ ~ IsLocal(Fun.dst)
      /\ Range(Label(Entry).to) = {} /\ Range(Label(Entry).args) = {}
  <2>1. Fun.to = <<>> /\ Fun.args = <<>> /\ ~ IsLocal(Fun.dst)
    BY DEF Fun, Item, IsLocal, None
  <2> QED BY <2>1, ItemFields, Ranges
<1>7. \A i \in 1 .. Len(d) : /\ Reserved(d[i]) = {} /\ Aims(d[i]) = {} /\ Holds(d[i]) = {}
                             /\ d[i].at \notin Readers
  <2>1. \A i \in 1 .. Len(d) : d[i].at \in {"Block", "FuncEnd"}
    OBVIOUS
  <2> QED BY <2>1, PlainCalls DEF Readers
<1>8. Names(r) = Names(k)
  <2>1. ASSUME NEW i \in Names(r) PROVE i \in Names(k)
    <3>1. i # s /\ i # s + 1
      BY <1>1, <1>5, <1>6 DEF Names
    <3>2. i \in 1 .. n /\ r[i] = k[i]
      BY <1>3, <1>4, <3>1 DEF Names
    <3> QED BY <3>2 DEF Names
  <2>2. ASSUME NEW i \in Names(k) PROVE i \in Names(r)
    <3>1. i \in 1 .. n /\ r[i] = k[i] /\ i \in 1 .. Len(r)
      BY <1>3, <1>4 DEF Names
    <3> QED BY <3>1 DEF Names
  <2> QED BY <2>1, <2>2
<1>9. Fits(r, d, S)
  <2>1. \A i \in Names(k) : r[i] = k[i]
    BY <1>3 DEF Names
  <2>2. \A i \in Names(k) : k[i].dst \in S /\ \A j \in Names(k) : j # i => k[j].dst # k[i].dst
    BY DEF Fits
  <2>3. \A i \in Names(r) : r[i].dst \in S /\ \A j \in Names(r) : j # i => r[j].dst # r[i].dst
    BY ONLY <1>8, <2>1, <2>2, Zenon
  <2>4. ASSUME NEW i \in 1 .. Len(d)
        PROVE  /\ Reserved(d[i]) \subseteq S
               /\ \A j \in Names(r) : r[j].dst \notin Reserved(d[i])
               /\ \A j \in 1 .. Len(d) : j # i => Reserved(d[i]) \cap Reserved(d[j]) = {}
    <3>1. Reserved(d[i]) = {}
      BY ONLY i \in 1 .. Len(d), <1>7
    <3> QED BY ONLY <3>1
  <2> QED BY ONLY <2>3, <2>4 DEF Fits
<1>10. Starts(r, s)
  BY <1>1, <1>4, <1>5 DEF Starts
<1>11. Lands(r, s, d) /\ Used(r, s)
  <2>1. \A i \in s .. Len(r) : Range(r[i].to) = {} /\ Range(r[i].args) = {}
    BY <1>4, <1>5, <1>6
  <2>2. Used(r, s)
    BY ONLY <2>1 DEF Used
  <2>3. \A i \in 1 .. Len(d) : Aims(d[i]) = {}
    BY <1>7
  <2> PICK known : known = WrittenIn(r, s) \cup Promised(d)
    OBVIOUS
  <2>4. /\ \A i \in s .. Len(r) : Range(r[i].to) \subseteq known
        /\ \A i \in 1 .. Len(d) : Aims(d[i]) \subseteq known
    BY ONLY <2>1, <2>3
  <2> QED BY <2>2, <2>4 DEF Lands
<1>12. Ready(r, s, d, operand)
  <2>1. 1 \in 1 .. Len(d) /\ \A i \in 1 .. Len(d) - 1 : i + 1 \in 1 .. Len(d)
    OBVIOUS
  <2> QED BY <1>7, <2>1 DEF Ready
<1> QED BY <1>9, <1>10, <1>11, <1>12 DEF Sound

LEMMA TextFuncDef == ASSUME TextInv, DumpFuncDef PROVE TextNext
<1> PICK t, d, S : /\ t = <<Fun, Label(Entry)>> /\ d = <<BlockF(Head(unit)), [at |-> "FuncEnd"]>>
                   /\ S = Spent(unused_koopa_count, unused_koopa_var_count, unused_koopa_label_count)
  OBVIOUS
<1>1. /\ k_str \in Seq(Items) /\ dump = <<>> /\ k_str' = k_str \o t /\ dump' = d
      /\ unused_koopa_count' = unused_koopa_count
      /\ unused_koopa_var_count' = unused_koopa_var_count
      /\ unused_koopa_label_count' = unused_koopa_label_count
  BY DEF TextInv, BlockInv, TypeOK, DumpFuncDef, counts
<1>2. Fits(k_str, <<>>, S)
  BY <1>1 DEF TextInv, Numbered
<1>3. Len(d) = 2 /\ d[1].at = "Block" /\ d[2].at = "FuncEnd"
  BY DEF BlockF
<1>4. Fits(k_str \o t, d, S) /\ Sound(k_str \o t, Len(k_str) + 1, d, data')
  BY <1>1, <1>2, <1>3, NewFunction
<1>5. Begun' = Len(k_str) + 1
  <2>1. t \in Seq(Items)
    BY ControlItems, OperandType
  <2>2. k_str \o t \in Seq(Items)
    BY <1>1, <2>1, Behind
  <2>3. FunctionStart(k_str \o t) = Len(k_str) + 1
    BY <1>4, <2>2, StartIs DEF Sound
  <2> QED BY <1>1, <2>3 DEF Begun
<1>6. Spent(unused_koopa_count', unused_koopa_var_count', unused_koopa_label_count') = S
  BY <1>1
<1>7. Grows
  <2>1. t \in Seq(Items)
    BY ControlItems, OperandType
  <2> QED BY <1>1, <1>5, <2>1 DEF Grows
<1> QED BY <1>1, <1>4, <1>5, <1>6, <1>7 DEF TextNext, Numbered

-----------------------------------------------------------------------------
(* The invariant *)

LEMMA TextInit == Init => TextInv
<1> SUFFICES ASSUME Init PROVE TextInv
  OBVIOUS
<1>1. k_str = <<>> /\ dump = <<>>
  BY DEF Init
<1>2. Names(<<>>) = {} /\ 1 .. Len(<<>>) = {}
  BY DEF Names
<1>3. \A S : Fits(<<>>, <<>>, S)
  BY <1>2 DEF Fits
<1>4. ElemInv
  BY <1>1 DEF ElemInv
<1> QED BY <1>1, <1>3, <1>4, BlockInit DEF TextInv, Numbered

LEMMA TextMoves == TextInv /\ Next /\ ~ Finish => TextNext
BY TextFuncDef, TextFuncEnd, TextBlockItem, TextBlockEnd, TextVarDef, TextStatement,
   TextIndex, TextAddress, TextElemPtr, TextElem, TextStore, TextThen, TextThenElse, TextJoin,
   TextWhile, TextWhileBody, TextLoopExit, TextRet, TextLeaf, TextLogic, TextLogicRhs, TextLogicOp DEF Next

LEMMA TextInvNext == TextInv /\ [Next]_vars => TextInv'
<1> SUFFICES ASSUME TextInv, [Next]_vars PROVE TextInv'
  OBVIOUS
<1>1. BlockInv' /\ ElemInv'
  BY BlockNext, ElemNext DEF TextInv, BlockInv
<1>2. CASE Finish \/ UNCHANGED vars
  <2>1. /\ k_str' = k_str /\ dump' = dump /\ data' = data
        /\ unused_koopa_count' = unused_koopa_count
        /\ unused_koopa_var_count' = unused_koopa_var_count
        /\ unused_koopa_label_count' = unused_koopa_label_count
    BY <1>2 DEF Finish, vars, counts
  <2>2. Begun' = Begun
    BY <2>1 DEF Begun
  <2> QED BY <1>1, <2>1, <2>2 DEF TextInv, Numbered
<1>3. CASE Next /\ ~ Finish
  <2>1. TextNext
    BY <1>3, TextMoves
  <2> QED BY <1>1, <2>1 DEF TextNext, TextInv, Numbered
<1> QED BY <1>2, <1>3

\* Items with different names are as many as their names.
LEMMA ApartCount ==
  ASSUME NEW k \in Seq(Items), NEW I \in SUBSET Names(k),
         \A i, j \in Names(k) : j # i => k[j].dst # k[i].dst
  PROVE  Cardinality({k[i].dst : i \in I}) = Cardinality(I)
<1> DEFINE T == {k[i].dst : i \in I}
           f == [i \in I |-> k[i].dst]
<1>1. IsFiniteSet(I)
  <2>1. Len(k) \in Nat /\ I \subseteq 1 .. Len(k)
    BY DEF Names
  <2>2. IsFiniteSet(1 .. Len(k))
    BY <2>1, FS_Interval
  <2> QED BY <2>1, <2>2, FS_Subset
<1>2. f \in Bijection(I, T)
  <2>1. f \in [I -> T] /\ \A i, j \in I : f[i] = f[j] => i = j
    OBVIOUS
  <2>2. \A x \in T : \E i \in I : f[i] = x
    OBVIOUS
  <2> QED BY <2>1, <2>2 DEF Bijection, Injection, Surjection, IsInjective
<1> HIDE DEF f, T
<1>3. ExistsBijection(I, T)
  BY <1>2 DEF ExistsBijection
<1>4. Cardinality(T) = Cardinality(I)
  BY <1>1, <1>3, FS_Bijection
<1> QED BY <1>4 DEF T

\* The invariant between functions.
LEMMA TextClosed ==
  ASSUME TextInv, k_str # <<>>, k_str[Len(k_str)].op = "end"
  PROVE  /\ k_str \in Seq(Items) /\ dump = <<>> /\ Lands(k_str, Begun, <<>>) /\ Used(k_str, Begun)
         /\ Begun = FunctionStart(k_str)
<1>1. k_str \in Seq(Items) /\ Sound(k_str, Begun, dump, data)
  BY DEF TextInv, BlockInv, TypeOK
<1>2. dump = <<>>
  BY DEF TextInv, BlockInv, EndOfText
<1> QED BY <1>1, <1>2 DEF Sound, Begun

LEMMA UniqueText == TextInv => LabelsUnique
<1> SUFFICES ASSUME TextInv PROVE LabelsUnique
  OBVIOUS
<1>1. k_str \in Seq(Items) /\ \A i, j \in Names(k_str) : j # i => k_str[j].dst # k_str[i].dst
  BY DEF TextInv, BlockInv, TypeOK, Numbered, Fits
<1>2. LabelsOf(k_str) \in SUBSET Names(k_str)
  BY <1>1 DEF LabelsOf, Names
<1> QED BY <1>1, <1>2, ApartCount DEF LabelsUnique

LEMMA LandedText == TextInv => BranchesLand
<1> SUFFICES ASSUME TextInv, k_str # <<>>, k_str[Len(k_str)].op = "end" PROVE BranchesLand
  BY DEF BranchesLand
<1> DEFINE k == k_str
           s == FunctionStart(k_str)
<1>1. Lands(k, s, <<>>)
  BY TextClosed
<1>2. Promised(<<>>) = {}
  BY DEF Promised
<1>3. \A i \in s .. Len(k) : Range(k[i].to) \subseteq WrittenIn(k, s)
  BY <1>1, <1>2 DEF Lands
<1>4. UNION {Range(k[i].to) : i \in s .. Len(k)} \subseteq WrittenIn(k, s)
  BY <1>3
<1>5. UNION {Range(k[i].to) : i \in s .. Len(k)}
        \subseteq {k[i].dst : i \in {j \in s .. Len(k) : k[j].op = "label"}}
  BY ONLY <1>4, Zenon DEF WrittenIn
<1> QED BY ONLY <1>5, Zenon DEF BranchesLand

LEMMA DefinedText == TextInv => OperandsDefined
<1> SUFFICES ASSUME TextInv, k_str # <<>>, k_str[Len(k_str)].op = "end" PROVE OperandsDefined
  BY DEF OperandsDefined
<1> DEFINE defs == {i \in DOMAIN k_str : k_str[i].op # "label" /\ IsLocal(k_str[i].dst)}
<1>1. k_str \in Seq(Items) /\ \A i, j \in Names(k_str) : j # i => k_str[j].dst # k_str[i].dst
  BY DEF TextInv, BlockInv, TypeOK, Numbered, Fits
<1>2. defs \in SUBSET Names(k_str)
  BY <1>1 DEF Names
<1> HIDE DEF defs
<1>3. Cardinality({k_str[i].dst : i \in defs}) = Cardinality(defs)
  BY <1>1, <1>2, ApartCount
<1>4. \A i \in FunctionStart(k_str) .. Len(k_str) : \A a \in Range(k_str[i].args) :
        IsLocal(a) => \E j \in FunctionStart(k_str) .. i - 1 : k_str[j].dst = a
  BY TextClosed DEF Used
<1> QED BY <1>3, <1>4 DEF OperandsDefined, defs

\* The counters give no number to two labels, although a handler numbers labels
\* that other handlers write later: whatever the program, the whole text holds
\* no label twice.
THEOREM UniqueLabels ==
  Spec => []LabelsUnique
<1> QED BY TextInit, TextInvNext, UniqueText, PTL DEF Spec

\* Whatever the nesting of ifs, loops, breaks, continues and short circuits,
\* every jump of a finished function leads to a label of that function.
THEOREM JumpsLand ==
  Spec => []BranchesLand
<1> QED BY TextInit, TextInvNext, LandedText, PTL DEF Spec

\* The names that the Dump methods build by arithmetic on the counters, or keep
\* across other Dump calls, are those of operands defined above in the same
\* function, and none is defined twice.
THEOREM DefinedOperands ==
  Spec => []OperandsDefined
<1> QED BY TextInit, TextInvNext, DefinedText, PTL DEF Spec
=============================================================================
