------------------------------ MODULE KoopaText ------------------------------
(***************************************************************************)
(* The raw program that the Koopa library builds from the text the front   *)
(* end wrote (koopa.h), as the back end walks it: functions made of lines, *)
(* and the operands of a line, each with the kind (koopa_raw_value_tag_t)  *)
(* that the Visit functions switch on.  Names and types are left out, but  *)
(* for the sizes the back end computes from types.                         *)
(***************************************************************************)
EXTENDS Integers, Sequences

\* Operands: a number, a global, a parameter (counted from 0), the result of a
\* line of the same function.
Num(n) == [kind |-> "integer", n |-> n]
Global(g) == [kind |-> "global_alloc", n |-> g]
Arg(i) == [kind |-> "func_arg_ref", n |-> i]
Ref(i) == [kind |-> "line", n |-> i]

\* A line: its tag; the operator of a binary; its operands; the bytes of an
\* alloc, the element size of a pointer calculation, or the callee of a call;
\* the lines a branch or a jump may go to, the target of true first.
Line(tag, op, args, n, to) ==
  [tag |-> tag, op |-> op, args |-> args, n |-> n, to |-> to]

Alloc(bytes) == Line("alloc", "", <<>>, bytes, <<>>)
Load(src) == Line("load", "", <<src>>, 0, <<>>)
Store(value, dest) == Line("store", "", <<value, dest>>, 0, <<>>)
GetPtr(src, index, size) == Line("get_ptr", "", <<src, index>>, size, <<>>)
GetElemPtr(src, index, size) ==
  Line("get_elem_ptr", "", <<src, index>>, size, <<>>)
Binary(op, lhs, rhs) == Line("binary", op, <<lhs, rhs>>, 0, <<>>)
Branch(cond, true, false) == Line("branch", "", <<cond>>, 0, <<true, false>>)
Jump(target) == Line("jump", "", <<>>, 0, <<target>>)
Call(callee, args) == Line("call", "", args, callee, <<>>)
Ret(value) == Line("return", "", value, 0, <<>>)

\* Two library functions stand for those of CompUnitAST::Dump; the callees from
\* 1 on are the functions of the program, the last of which is main.
Getint == 0
Putint == -1

\* A function and a program: its functions, and the words of each global.
Function(params, returns, body) ==
  [params |-> params, returns |-> returns, body |-> body]
Program(globals, funcs) == [globals |-> globals, funcs |-> funcs]

Body(program, f) == program.funcs[f].body
ReturnsInt(program, callee) ==
  IF callee \in DOMAIN program.funcs THEN program.funcs[callee].returns = "int"
                                     ELSE callee = Getint

\* kind.tag of an operand
Kind(body, a) == IF a.kind = "line" THEN body[a.n].tag ELSE a.kind

Operands(line) == {line.args[i] : i \in DOMAIN line.args}

\* used_by.len > 0
UsedBy(body, i) == \E j \in DOMAIN body : Ref(i) \in Operands(body[j])

Allocs(body) == {i \in DOMAIN body : body[i].tag = "alloc"}
UsedValues(body) == {i \in DOMAIN body : UsedBy(body, i)} \ Allocs(body)

\* An alloc runs no code: the first line from i on that does.
FromLine(body, i) ==
  CHOOSE j \in i .. Len(body) :
    /\ body[j].tag # "alloc"
    /\ \A k \in i .. j - 1 : body[k].tag = "alloc"

\* A line of the part of a body that stores the parameters
\* (FuncFParamAST::declare_alloc); they are not referred to after it.
StoresParameters(body, i) ==
  \E j \in i .. Len(body) :
    \E a \in Operands(body[j]) : a.kind = "func_arg_ref"

\* Where the linker puts the words of a global, away from the stack: addresses
\* are numbers, and globals are Between bytes apart.
Between == 100
GlobalAddress(g) == 100000 + Between * g
GlobalWords(program) ==
  UNION {{GlobalAddress(g) + 4 * (i - 1) : i \in DOMAIN program.globals[g]} :
           g \in DOMAIN program.globals}
InitialWord(program, a) ==
  LET g == (a - 100000) \div Between
  IN  program.globals[g][((a - GlobalAddress(g)) \div 4) + 1]

\* Quotient of / in C and Koopa: truncated; the remainder has the sign of the
\* dividend.
Truncated(a, b) ==
  LET Abs(n) == IF n < 0 THEN -n ELSE n
      q == Abs(a) \div Abs(b)
  IN  IF (a < 0) = (b < 0) THEN q ELSE -q
Remainder(a, b) == a - b * Truncated(a, b)

Truth(p) == IF p THEN 1 ELSE 0

\* Bitwise operations on two's complement numbers of WordBits bits, more than
\* any operand of a bitwise operation in the instances needs.
WordBits == 8
Bit(a, k) == (a \div 2^k) % 2
WithBits(B(_)) ==
  LET from[k \in 0 .. WordBits - 1] ==
        IF k = WordBits - 1 THEN -(2^k) * B(k) ELSE 2^k * B(k) + from[k + 1]
  IN  from[0]
BitAnd(a, b) == LET B(k) == Bit(a, k) * Bit(b, k) IN WithBits(B)
BitOr(a, b) ==
  LET B(k) == Truth(Bit(a, k) + Bit(b, k) > 0) IN WithBits(B)
BitXor(a, b) == LET B(k) == (Bit(a, k) + Bit(b, k)) % 2 IN WithBits(B)
=============================================================================
