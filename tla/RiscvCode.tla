------------------------------ MODULE RiscvCode ------------------------------
(***************************************************************************)
(* The Visit functions of main.cpp and the macros of riscv.h: the RISC-V   *)
(* code of each line of a Koopa program, as a sequence of instructions.    *)
(* Where the code of a line stands in the output is left out: the address  *)
(* of an instruction is made of its function, its line (0: the entry of    *)
(* the function) and its place among the instructions of that line.  The   *)
(* labels label_j_N are such places.                                       *)
(*                                                                         *)
(* Visit ends in assert(false) for the kinds of operands it does not       *)
(* expect: the set of kinds that it does expect is stated for each place   *)
(* an operand can be in.                                                   *)
(***************************************************************************)
EXTENDS KoopaText, SequencesExt

CONSTANT Immediates     \* offsets that fit into an instruction: -2048 .. 2047

ASSUME ImmediatesAssumption ==
  Immediates \subseteq -2048 .. 2047 /\ 0 \in Immediates

\* One instruction: its operation, the registers it writes and reads, and a
\* number: an immediate, an offset, an address, a callee.
I(op, rd, rs1, rs2, imm) ==
  [op |-> op, rd |-> rd, rs1 |-> rs1, rs2 |-> rs2, imm |-> imm]

Address(f, line, i) == (f * 100 + line) * 100 + i
FunctionOf(address) == address \div 10000
LineOf(address) == (address \div 100) % 100
PlaceOf(address) == address % 100
-----------------------------------------------------------------------------
(* riscv.h *)

IsImm12(x) == x \in Immediates

LI(rd, imm) == <<I("li", rd, "", "", imm)>>
LA(rd, address) == <<I("li", rd, "", "", address)>>
R(op, rd, rs1, rs2) == <<I(op, rd, rs1, rs2, 0)>>

\* An offset that does not fit the instruction goes through t6.
ADDI(rd, rs1, imm) ==
  IF IsImm12(imm) THEN <<I("addi", rd, rs1, "", imm)>>
  ELSE LI("t6", imm) \o R("add", rd, rs1, "t6")
LW(rd, offset, base) ==
  IF IsImm12(offset) THEN <<I("lw", rd, base, "", offset)>>
  ELSE LI("t6", offset) \o R("add", "t6", "t6", base)
       \o <<I("lw", rd, "t6", "", 0)>>
SW(rs2, offset, base) ==
  IF IsImm12(offset) THEN <<I("sw", "", base, rs2, offset)>>
  ELSE LI("t6", offset) \o R("add", "t6", "t6", base)
       \o <<I("sw", "", "t6", rs2, 0)>>

J(address) == LA("t5", address) \o <<I("jalr", "x0", "t5", "", 0)>>
\* A mutant of BNEZ: label_j one instruction too early.
BNEZEarly(rs, address, n) ==
  LA("t5", address) \o <<I("beqz", "", rs, "", n + 3),
                         I("jalr", "x0", "t5", "", 0)>>

\* n instructions of the line come before the macro: label_j is its fourth.
BNEZ(rs, address, n) ==
  LA("t5", address) \o <<I("beqz", "", rs, "", n + 4),
                         I("jalr", "x0", "t5", "", 0)>>
-----------------------------------------------------------------------------
(* The frame: FrameLayout is about the two sides of it.  Here the front    *)
(* end's side is what it claims for these lines.                           *)

RaisesFrame(program, line) ==
  CASE line.tag = "alloc" -> line.n
    [] line.tag \in {"load", "get_ptr", "get_elem_ptr", "binary"} -> 4
    [] line.tag = "call" -> IF ReturnsInt(program, line.n) THEN 4 ELSE 0
    [] OTHER -> 0

Largest(S) == CHOOSE x \in S : \A y \in S : y <= x
Calls(body) == {i \in DOMAIN body : body[i].tag = "call"}

\* SpaceNeeded of a function, when FuncDefAST::Dump is done with it
Space(program, f) ==
  LET body == Body(program, f)
      variate == FoldSeq(LAMBDA line, sum : sum + RaisesFrame(program, line), 0, body)
      params == Largest({0} \cup {(Len(body[i].args) - 8) * 4 : i \in Calls(body)})
      ra == IF Calls(body) = {} THEN 0 ELSE 4
  IN  [params_needed |-> params, return_address_needed |-> ra,
       total_needed |-> ((variate + params + ra + 15) \div 16) * 16]

\* What Visit(koopa_raw_value_t) adds to sp_dev for line i.
Advance(body, i) ==
  CASE body[i].tag = "alloc" -> body[i].n
    [] body[i].tag \in {"load", "get_ptr", "get_elem_ptr", "binary"} -> 4
    [] body[i].tag = "call" -> IF UsedBy(body, i) THEN 4 ELSE 0
    [] OTHER -> 0

\* sp_dev when line i is visited; ins_map[i] for the lines that have a place
SpDev(program, f, i) ==
  LET body == Body(program, f)
      upto[j \in 1 .. Len(body)] ==
        IF j = 1 THEN Space(program, f).params_needed
                 ELSE upto[j - 1] + Advance(body, j - 1)
  IN  upto[i]
-----------------------------------------------------------------------------
(* The kinds of operands that do not end in assert(false) *)

ValueKinds == {"integer", "load", "binary", "call"}

StoreKinds(value) ==
  CASE value = "func_arg_ref" -> {"alloc", "get_elem_ptr"}
    [] value = "call" -> {"global_alloc", "alloc", "get_elem_ptr"}
    [] OTHER -> {"global_alloc", "alloc", "get_elem_ptr", "get_ptr"}

\* A mutant of IndexKinds: one kind fewer.
IndexKindsFewer == {"integer", "load"}

IndexKinds == {"integer", "load", "binary"}

Accepted(body, line) ==
  LET kind(i) == Kind(body, line.args[i])
  IN  CASE line.tag = "return" -> line.args = <<>> \/ kind(1) \in ValueKinds
        [] line.tag = "binary" -> kind(1) \in ValueKinds /\ kind(2) \in ValueKinds
        [] line.tag = "store" ->
             /\ kind(1) \in {"integer", "func_arg_ref", "load", "binary", "call"}
             /\ kind(2) \in StoreKinds(kind(1))
        [] line.tag = "load" ->
             kind(1) \in {"alloc", "global_alloc", "get_ptr", "get_elem_ptr"}
        [] line.tag = "call" ->
             \A i \in DOMAIN line.args :
               kind(i) \in ValueKinds \cup {"get_elem_ptr"}
        [] line.tag = "get_ptr" ->
             /\ kind(1) \in {"alloc", "global_alloc", "get_elem_ptr", "load"}
             /\ kind(2) \in IndexKinds
        [] line.tag = "get_elem_ptr" ->
             /\ kind(1) \in {"alloc", "global_alloc", "get_elem_ptr", "load",
                             "get_ptr"}
             /\ kind(2) \in IndexKinds
        [] OTHER -> TRUE

Compiles(program) ==
  \A f \in DOMAIN program.funcs :
    \A i \in DOMAIN Body(program, f) : Accepted(Body(program, f), Body(program, f)[i])
-----------------------------------------------------------------------------
(* The code of a line: P is the program, f the function, i the line *)

\* A register gets a number, or the value at the place of an operand.
Fetch(P, f, a, reg) ==
  IF a.kind = "integer" THEN LI(reg, a.n) ELSE LW(reg, SpDev(P, f, a.n), "sp")

\* The result in t0 gets its place.
Keep(P, f, i) == SW("t0", SpDev(P, f, i), "sp")

VisitEntry(P, f) ==
  LET space == Space(P, f)
  IN  (IF space.total_needed > 0 THEN ADDI("sp", "sp", -space.total_needed) ELSE <<>>)
      \o (IF space.return_address_needed > 0
          THEN SW("ra", space.total_needed - 4, "sp") ELSE <<>>)

\* A mutant of VisitRet: a leaf function keeps its frame.
VisitRetLeaf(P, f, line) ==
  LET space == Space(P, f)
  IN  (IF line.args = <<>> THEN <<>> ELSE Fetch(P, f, line.args[1], "a0"))
      \o (IF space.return_address_needed > 0
          THEN LW("ra", space.total_needed - 4, "sp")
               \o ADDI("sp", "sp", space.total_needed) ELSE <<>>)
      \o <<I("jalr", "x0", "ra", "", 0)>>

VisitRet(P, f, line) ==
  LET space == Space(P, f)
  IN  (IF line.args = <<>> THEN <<>> ELSE Fetch(P, f, line.args[1], "a0"))
      \o (IF space.return_address_needed > 0
          THEN LW("ra", space.total_needed - 4, "sp") ELSE <<>>)
      \o (IF space.total_needed > 0 THEN ADDI("sp", "sp", space.total_needed) ELSE <<>>)
      \o <<I("jalr", "x0", "ra", "", 0)>>

Apply0(op) ==
  LET T(o) == R(o, "t0", "t0", "t1")
      XORI1 == <<I("xori", "t0", "t0", "", 1)>>
      SNEZ(r) == R("snez", r, r, "")
  IN  CASE op = "NOT_EQ" -> T("xor") \o SNEZ("t0")
        [] op = "EQ" -> T("xor") \o R("seqz", "t0", "t0", "")
        [] op = "GT" -> R("slt", "t0", "t1", "t0")
        [] op = "LT" -> T("slt")
        [] op = "GE" -> T("slt") \o XORI1
        [] op = "LE" -> R("slt", "t0", "t1", "t0") \o XORI1
        [] op = "ADD" -> T("add")  [] op = "SUB" -> T("sub")
        [] op = "MUL" -> T("mul")  [] op = "DIV" -> T("div")
        [] op = "MOD" -> T("rem")
        [] op = "AND" -> SNEZ("t0") \o SNEZ("t1") \o T("and")
        [] op = "OR" -> T("or") \o SNEZ("t0")

VisitBinary(P, f, i, line) ==
  Fetch(P, f, line.args[1], "t0") \o Fetch(P, f, line.args[2], "t1")
  \o Apply0(line.op) \o Keep(P, f, i)

ArgRegisters == <<"a0", "a1", "a2", "a3", "a4", "a5", "a6", "a7">>

\* The value is in reg; the destination is a global, an alloc, or a pointer.
StoreTo(P, f, dest, reg) ==
  LET kind == Kind(Body(P, f), dest)
  IN  CASE kind = "global_alloc" -> LA("t1", GlobalAddress(dest.n)) \o SW(reg, 0, "t1")
        [] kind = "alloc" -> SW(reg, SpDev(P, f, dest.n), "sp")
        [] OTHER -> LW("t1", SpDev(P, f, dest.n), "sp") \o SW(reg, 0, "t1")

\* A mutant of VisitStore: the ninth parameter is sought in the own frame.
VisitStoreOwnFrame(P, f, line) ==
  LET value == line.args[1]
  IN  IF value.kind # "func_arg_ref"
      THEN Fetch(P, f, value, "t0") \o StoreTo(P, f, line.args[2], "t0")
      ELSE IF value.n <= 7
      THEN StoreTo(P, f, line.args[2], ArgRegisters[value.n + 1])
      ELSE LW("t0", (value.n - 8) * 4, "sp") \o StoreTo(P, f, line.args[2], "t0")

VisitStore(P, f, line) ==
  LET value == line.args[1]
  IN  IF value.kind # "func_arg_ref"
      THEN Fetch(P, f, value, "t0") \o StoreTo(P, f, line.args[2], "t0")
      ELSE IF value.n <= 7
      THEN StoreTo(P, f, line.args[2], ArgRegisters[value.n + 1])
      ELSE LW("t0", Space(P, f).total_needed + (value.n - 8) * 4, "sp")
           \o StoreTo(P, f, line.args[2], "t0")

VisitLoad(P, f, i, line) ==
  LET src == line.args[1]
      kind == Kind(Body(P, f), src)
  IN  (CASE kind = "alloc" -> LW("t0", SpDev(P, f, src.n), "sp")
         [] kind = "global_alloc" -> LA("t0", GlobalAddress(src.n)) \o LW("t0", 0, "t0")
         [] OTHER -> LW("t0", SpDev(P, f, src.n), "sp") \o LW("t0", 0, "t0"))
      \o Keep(P, f, i)

VisitBranch(P, f, line) ==
  LET cond == Fetch(P, f, line.args[1], "t0")
      At(k) == Address(f, line.to[k], 1)
  IN  cond \o BNEZ("t0", At(1), Len(cond)) \o J(At(2))

VisitJump(f, line) == J(Address(f, line.to[1], 1))

\* A mutant of PassArgument: a byte per argument.
PassArgumentPacked(P, f, a, k) ==
  IF k <= 8 THEN Fetch(P, f, a, ArgRegisters[k])
            ELSE Fetch(P, f, a, "t0") \o SW("t0", k - 9, "sp")

\* The arguments, the first eight in registers, the others on the stack, from
\* the first to the last; then the call, and its result if it is read.
PassArgument(P, f, a, k) ==
  IF k <= 8 THEN Fetch(P, f, a, ArgRegisters[k])
            ELSE Fetch(P, f, a, "t0") \o SW("t0", (k - 9) * 4, "sp")

VisitCall(P, f, i, line) ==
  FlattenSeq([k \in DOMAIN line.args |-> PassArgument(P, f, line.args[k], k)])
  \o <<I("call", "", "", "", line.n)>>
  \o (IF UsedBy(Body(P, f), i) THEN SW("a0", SpDev(P, f, i), "sp") ELSE <<>>)

\* The address an operand stands for, plus the index times the element size.
VisitGetPtr(P, f, i, line) ==
  LET src == line.args[1]
      kind == Kind(Body(P, f), src)
  IN  (CASE kind = "alloc" -> ADDI("t0", "sp", SpDev(P, f, src.n))
         [] kind = "global_alloc" -> LA("t0", GlobalAddress(src.n))
         [] OTHER -> LW("t0", SpDev(P, f, src.n), "sp"))
      \o Fetch(P, f, line.args[2], "t1") \o LI("t2", line.n)
      \o R("mul", "t1", "t1", "t2") \o R("add", "t0", "t0", "t1") \o Keep(P, f, i)

\* Visit(koopa_raw_value_t); line 0 is the entry of the function.
Code(P, f, i) ==
  IF i = 0 THEN VisitEntry(P, f) ELSE
  LET line == Body(P, f)[i]
  IN  CASE line.tag = "return" -> VisitRet(P, f, line)
        [] line.tag = "binary" -> VisitBinary(P, f, i, line)
        [] line.tag = "store" -> VisitStore(P, f, line)
        [] line.tag = "load" -> VisitLoad(P, f, i, line)
        [] line.tag = "alloc" -> <<>>
        [] line.tag = "branch" -> VisitBranch(P, f, line)
        [] line.tag = "jump" -> VisitJump(f, line)
        [] line.tag = "call" -> VisitCall(P, f, i, line)
        [] line.tag \in {"get_ptr", "get_elem_ptr"} -> VisitGetPtr(P, f, i, line)
=============================================================================
