------------------------------- MODULE RiscvRun -------------------------------
(***************************************************************************)
(* Does the code that the back end prints do what the Koopa program says?  *)
(* Visit first walks a program; then its code runs on a machine with       *)
(* registers and one memory, an instruction at a time.  Every step is      *)
(* compared with the abstract machine of KoopaRun: it has to be one of its *)
(* lines, or to change nothing there.                                      *)
(*                                                                         *)
(* The machine is the part of RV32IM the code uses, with unbounded         *)
(* numbers; memory is a function from the addresses written so far to      *)
(* words.  A library function may change every register the calling        *)
(* convention does not make it keep.                                       *)
(***************************************************************************)
EXTENDS RiscvCode

CONSTANTS
  Programs,   \* the programs to translate
  Inputs      \* what getint may return

VARIABLES
  program,    \* the raw program
  text,       \* what the Visit functions have made of it
  phase,      \* "visit", "run", "done"; "assert": assert(false) was reached
  pc,         \* address of the next instruction
  reg,        \* registers
  memory,     \* address -> word
  out,        \* what the program has printed, and what main returned
  calls       \* for the comparison only: the functions that have been called
              \* and have not returned, with their sp, and the line of the call

vars == <<program, text, phase, pc, reg, memory, out, calls>>

Registers == {"x0", "sp", "ra", "t0", "t1", "t2", "t5", "t6"} \cup
             {ArgRegisters[i] : i \in 1..8}
Clobbered == Registers \ {"x0", "sp", "ra"}
Junk == 77           \* what a register holds that nobody has set
StackTop == 90000
Exit == 0            \* the return address of main
-----------------------------------------------------------------------------
\* What Visit makes of each function: the code and the place of each line, and
\* the size of the frame; and, for the comparison, which lines are values that
\* some line reads, and which are objects.
TextOf(P) ==
  [f \in DOMAIN P.funcs |->
     LET body == Body(P, f)
     IN  [code |-> [i \in 0 .. Len(body) |-> Code(P, f, i)],
          place |-> [i \in DOMAIN body |-> SpDev(P, f, i)],
          total |-> Space(P, f).total_needed,
          values |-> UsedValues(body),
          allocs |-> Allocs(body)]]

Main == Len(program.funcs)
Word(a) == IF a \in DOMAIN memory THEN memory[a] ELSE Junk
Instruction == text[FunctionOf(pc)].code[LineOf(pc)][PlaceOf(pc)]
Frame(f, sp, line) ==
  [fn |-> f, sp |-> sp - Space(program, f).total_needed, line |-> line]

\* The address of the first instruction from place k of line i on.
Normal(t, f, i, k) ==
  LET code == t[f].code
  IN  IF k <= Len(code[i]) THEN Address(f, i, k)
      ELSE LET j == CHOOSE j \in DOMAIN code :
                      /\ j > i /\ code[j] # <<>>
                      /\ \A l \in i + 1 .. j - 1 : code[l] = <<>>
           IN  Address(f, j, 1)
Following == Normal(text, FunctionOf(pc), LineOf(pc), PlaceOf(pc) + 1)

\* Visit(koopa_raw_program_t), then the start of main
Visit ==
  /\ phase = "visit"
  /\ IF Compiles(program)
     THEN /\ text' = TextOf(program) /\ phase' = "run"
          /\ pc' = Normal(text', Main, 0, 1)
     ELSE phase' = "assert" /\ UNCHANGED <<text, pc>>
  /\ UNCHANGED <<program, reg, memory, out, calls>>

Set(r, v) ==
  /\ reg' = IF r = "x0" THEN reg ELSE [reg EXCEPT ![r] = v]
  /\ pc' = Following
  /\ UNCHANGED <<program, text, phase, memory, out, calls>>

Running(ops) == phase = "run" /\ Instruction.op \in ops
Rs1 == reg[Instruction.rs1]
Rs2 == reg[Instruction.rs2]

ExecImmediate ==
  /\ Running({"li", "addi", "xori"})
  /\ Set(Instruction.rd,
         CASE Instruction.op = "li" -> Instruction.imm
           [] Instruction.op = "addi" -> Rs1 + Instruction.imm
           [] Instruction.op = "xori" -> BitXor(Rs1, Instruction.imm))

ExecRegister ==
  /\ Running({"add", "sub", "mul", "div", "rem", "slt", "seqz", "snez", "xor",
              "or", "and"})
  /\ LET op == Instruction.op
     IN  Set(Instruction.rd,
             CASE op = "add" -> Rs1 + Rs2
               [] op = "sub" -> Rs1 - Rs2
               [] op = "mul" -> Rs1 * Rs2
               [] op = "div" -> Truncated(Rs1, Rs2)
               [] op = "rem" -> Remainder(Rs1, Rs2)
               [] op = "slt" -> Truth(Rs1 < Rs2)
               [] op = "seqz" -> Truth(Rs1 = 0)
               [] op = "snez" -> Truth(Rs1 # 0)
               [] op = "xor" -> BitXor(Rs1, Rs2)
               [] op = "or" -> BitOr(Rs1, Rs2)
               [] op = "and" -> BitAnd(Rs1, Rs2))

ExecLoad ==
  /\ Running({"lw"})
  /\ Set(Instruction.rd, Word(Rs1 + Instruction.imm))

ExecStore ==
  /\ Running({"sw"})
  /\ LET a == Rs1 + Instruction.imm
     IN  memory' = [b \in DOMAIN memory \cup {a} |->
                      IF b = a THEN Rs2 ELSE memory[b]]
  /\ pc' = Following
  /\ UNCHANGED <<program, text, phase, reg, out, calls>>

\* beqz jumps to a place of the same line.
ExecBranch ==
  /\ Running({"beqz"})
  /\ pc' = IF Rs1 = 0 THEN Normal(text, FunctionOf(pc), LineOf(pc), Instruction.imm)
                      ELSE Following
  /\ UNCHANGED <<program, text, phase, reg, memory, out, calls>>

\* jalr x0, 0(rs): to a label, or back to the caller, or to the system
ExecJump ==
  /\ Running({"jalr"})
  /\ IF Rs1 = Exit
     THEN /\ phase' = "done" /\ UNCHANGED pc
          /\ out' = Append(out, reg["a0"])
     ELSE /\ pc' = Normal(text, FunctionOf(Rs1), LineOf(Rs1), PlaceOf(Rs1))
          /\ UNCHANGED <<phase, out>>
  /\ calls' = IF Instruction.rs1 = "ra" THEN SubSeq(calls, 1, Len(calls) - 1)
                                        ELSE calls
  /\ UNCHANGED <<program, text, reg, memory>>

\* call: ra becomes the address of what follows.
ExecCall ==
  /\ Running({"call"}) /\ Instruction.imm > 0
  /\ reg' = [reg EXCEPT !["ra"] = Following]
  /\ pc' = Normal(text, Instruction.imm, 0, 1)
  /\ calls' = Append(calls, Frame(Instruction.imm, reg["sp"], LineOf(pc)))
  /\ UNCHANGED <<program, text, phase, memory, out>>

\* call of a library function, up to its return
ExecLibrary ==
  /\ Running({"call"}) /\ Instruction.imm <= 0
  /\ \E v \in IF Instruction.imm = Getint THEN Inputs ELSE {Junk} :
       reg' = [r \in Registers |-> IF r = "ra" THEN Following
                                   ELSE IF r = "a0" THEN v
                                   ELSE IF r \in Clobbered THEN Junk ELSE reg[r]]
  /\ out' = IF Instruction.imm = Putint THEN Append(out, reg["a0"]) ELSE out
  /\ pc' = Following
  /\ UNCHANGED <<program, text, phase, memory, calls>>

\* The program has ended, or the compiler has.
Finished == phase \in {"done", "assert"} /\ UNCHANGED vars

Init ==
  /\ program \in {Programs[name] : name \in DOMAIN Programs}
  /\ text = <<>>
  /\ phase = "visit" /\ pc = Address(Main, 0, 1)
  /\ reg = [r \in Registers |-> IF r = "sp" THEN StackTop
                                ELSE IF r = "ra" THEN Exit ELSE Junk]
  /\ memory = [a \in GlobalWords(program) |-> InitialWord(program, a)]
  /\ out = <<>> /\ calls = <<Frame(Main, StackTop, 0)>>

Exec ==
  \/ ExecImmediate \/ ExecRegister \/ ExecLoad \/ ExecStore \/ ExecBranch
  \/ ExecJump \/ ExecCall \/ ExecLibrary

Next == Visit \/ Exec \/ Finished
Spec == Init /\ [][Next]_vars /\ WF_vars(Visit \/ Exec)
-----------------------------------------------------------------------------
(***************************************************************************)
(* The refinement: where the activations of the abstract machine are in    *)
(* this one.  A value is the word at its place in the frame, an object the *)
(* words from its place on.  A call has its result from the return on,     *)
(* though the sw that keeps it comes later.                                *)
(***************************************************************************)

\* before the first instruction there is no code to look into
Text == IF phase \in {"visit", "assert"} THEN TextOf(program) ELSE text

\* pc is past the call of its line: the result is still in a0.
Returned ==
  LET code == Text[FunctionOf(pc)].code[LineOf(pc)]
  IN  \E k \in 1 .. PlaceOf(pc) - 1 : code[k].op = "call"

\* The line an activation is at: the running one is at that of pc, the others
\* at their calls.
LineIn(d) ==
  LET body == Body(program, calls[d].fn)
  IN  IF d < Len(calls) THEN calls[d + 1].line
      ELSE IF LineOf(pc) = 0 THEN FromLine(body, 1)
      ELSE IF Returned THEN FromLine(body, LineOf(pc) + 1)
      ELSE LineOf(pc)

Activation(d) ==
  LET own == Text[calls[d].fn]
      place(i) == calls[d].sp + own.place[i]
      pending == IF d = Len(calls) /\ Returned THEN LineOf(pc) ELSE 0
  IN  [fn |-> calls[d].fn, pc |-> LineIn(d),
       values |-> [i \in own.values |-> IF i = pending THEN reg["a0"]
                                         ELSE Word(place(i))],
       place |-> [i \in own.allocs |-> place(i)]]

\* The arguments are in registers and above the frame until they are stored.
Arguments ==
  IF calls = <<>> THEN <<>>
  ELSE LET top == calls[Len(calls)]
       IN  IF ~ StoresParameters(Body(program, top.fn), LineIn(Len(calls)))
           THEN <<>>
           ELSE [k \in 1 .. program.funcs[top.fn].params |->
                   IF k <= 8 THEN reg[ArgRegisters[k]]
                   ELSE Word(top.sp + Text[top.fn].total + 4 * (k - 9))]

\* The words of an activation's objects, and of all objects.
WordsOf(call) ==
  LET own == Text[call.fn]
  IN  UNION {{call.sp + own.place[i] + 4 * w :
                w \in 0 .. (Body(program, call.fn)[i].n \div 4) - 1} :
               i \in own.allocs}
Live == GlobalWords(program) \cup UNION {WordsOf(calls[d]) : d \in DOMAIN calls}

Koopa == INSTANCE KoopaRun WITH
           stack <- [d \in DOMAIN calls |-> Activation(d)],
           args <- Arguments,
           mem <- [a \in Live |-> Word(a)]
-----------------------------------------------------------------------------
(* Properties *)

\* The values of the variables; every word that is written is aligned.
TypeOK ==
  /\ phase \in {"visit", "run", "done", "assert"}
  /\ pc \in Nat /\ PlaceOf(pc) > 0
  /\ reg \in [Registers -> Int]
  /\ \A a \in DOMAIN memory : a % 4 = 0 /\ memory[a] \in Int
  /\ \A d \in DOMAIN calls : calls[d].fn \in DOMAIN program.funcs
  /\ out \in Seq(Int)

\* The code implements the program: what an instruction changes in the frames,
\* the objects and the output is what one Koopa line changes, or nothing.  A
\* value at a wrong offset, an argument taken from the wrong place, a register
\* lost on the way through t6 or over a call, or a store that runs into a value
\* or the saved ra of any activation would be a step of no line.
Refines == Koopa!Spec

\* Whatever was called meanwhile, a function finds sp where it left it, and the
\* system finds the stack as it was.
OwnFrame ==
  /\ phase = "done" => reg["sp"] = StackTop
  /\ phase = "run" /\ LineOf(pc) > 0 =>
       LET top == calls[Len(calls)]
       IN  Body(program, top.fn)[LineOf(pc)].tag # "return" => reg["sp"] = top.sp

\* The sets of kinds that the Visit functions expect differ from place to
\* place.  All combinations of a value and a use are accepted, but two: an
\* index that is the result of a call, and the result of a call that is stored
\* through a pointer made by getptr.
OnlyCallsRefused ==
  phase = "assert" =>
    \E f \in DOMAIN program.funcs : \E i \in DOMAIN Body(program, f) :
      LET body == Body(program, f)
          line == body[i]
      IN  \/ /\ line.tag \in {"get_ptr", "get_elem_ptr"}
             /\ Kind(body, line.args[2]) = "call"
          \/ /\ line.tag = "store"
             /\ Kind(body, line.args[1]) = "call"
             /\ Kind(body, line.args[2]) = "get_ptr"

\* The asserts of the Visit functions: no operand is of a kind they do not
\* expect.
KindsExpected == phase # "assert"

\* The code reaches the end of main: no jump, return or call goes astray.
Ends == <>(phase \in {"done", "assert"})
=============================================================================
