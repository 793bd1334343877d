------------------------------- MODULE KoopaRun -------------------------------
(***************************************************************************)
(* What a Koopa program means: the abstract machine that the generated     *)
(* RISC-V code has to implement (RiscvRun).  One step runs one line.       *)
(*                                                                         *)
(* Every activation has values of its own, which nothing but the line that *)
(* computes them can change, and objects of its own, at addresses of their *)
(* own.  There are no registers and no frames here.  Values that were not  *)
(* computed yet and objects that were not written yet hold anything.       *)
(***************************************************************************)
EXTENDS KoopaText

CONSTANT Inputs     \* what getint may return

VARIABLES
  program,   \* the raw program
  stack,     \* activations, the running one last
  args,      \* the arguments of the running activation, until they are stored
  mem,       \* the words of all objects, by address
  out        \* what the program has printed, and what main returned

vars == <<program, stack, args, mem, out>>
-----------------------------------------------------------------------------
Main == Len(program.funcs)
Depth == Len(stack)
Top == stack[Depth]
Running == Body(program, Top.fn)
Current == Running[Top.pc]

\* The words of the objects of an activation.
ObjectWords(act) ==
  UNION {{act.place[i] + 4 * w : w \in 0 .. (Body(program, act.fn)[i].n \div 4) - 1} :
           i \in DOMAIN act.place}

\* An activation that has just been entered: its objects are apart from each
\* other and from those that exist; its values are anything.
Entered(act, f, words) ==
  LET body == Body(program, f)
  IN  /\ act.fn = f /\ act.pc = FromLine(body, 1)
      /\ DOMAIN act.place = Allocs(body)
      /\ DOMAIN act.values = UsedValues(body)
      /\ ObjectWords(act) \cap words = {}
      /\ \A i, j \in Allocs(body) :
           i # j => \/ act.place[i] + body[i].n <= act.place[j]
                    \/ act.place[j] + body[j].n <= act.place[i]

Value(a) ==
  CASE a.kind = "integer" -> a.n
    [] a.kind = "global_alloc" -> GlobalAddress(a.n)
    [] a.kind = "func_arg_ref" -> args[a.n + 1]
    [] a.kind = "line" /\ a.n \in DOMAIN Top.place -> Top.place[a.n]
    [] OTHER -> Top.values[a.n]
Operand(i) == Value(Current.args[i])

\* koopa_raw_binary_op, with the meaning its comments give the operators
Apply(op, a, b) ==
  CASE op = "NOT_EQ" -> Truth(a # b)   [] op = "EQ" -> Truth(a = b)
    [] op = "GT" -> Truth(a > b)       [] op = "LT" -> Truth(a < b)
    [] op = "GE" -> Truth(a >= b)      [] op = "LE" -> Truth(a <= b)
    [] op = "ADD" -> a + b             [] op = "SUB" -> a - b
    [] op = "MUL" -> a * b             [] op = "DIV" -> Truncated(a, b)
    [] op = "MOD" -> Remainder(a, b)
    [] op = "AND" -> BitAnd(a, b)      [] op = "OR" -> BitOr(a, b)

\* An activation after its current line, whose result is v.
After(act, v) ==
  [act EXCEPT !.pc = FromLine(Body(program, act.fn), @ + 1),
              !.values = [i \in DOMAIN @ |-> IF i = act.pc THEN v ELSE @[i]]]

\* The running activation goes on after this line.
Proceed(v) ==
  /\ stack' = [stack EXCEPT ![Depth] = After(@, v)]
  /\ args' = IF StoresParameters(Running, Top.pc + 1) THEN args ELSE <<>>
  /\ UNCHANGED program
-----------------------------------------------------------------------------
Init ==
  /\ Depth = 1 /\ Entered(Top, Main, GlobalWords(program))
  /\ DOMAIN mem = GlobalWords(program) \cup ObjectWords(Top)
  /\ \A a \in GlobalWords(program) : mem[a] = InitialWord(program, a)
  /\ args = <<>> /\ out = <<>>

Compute ==
  /\ Depth > 0
  /\ CASE Current.tag = "binary" ->
            Proceed(Apply(Current.op, Operand(1), Operand(2)))
       [] Current.tag \in {"get_ptr", "get_elem_ptr"} ->
            Proceed(Operand(1) + Operand(2) * Current.n)
       [] Current.tag = "load" ->
            Operand(1) \in DOMAIN mem /\ Proceed(mem[Operand(1)])
       [] OTHER -> FALSE
  /\ UNCHANGED <<mem, out>>

DoStore ==
  /\ Depth > 0 /\ Current.tag = "store"
  /\ Operand(2) \in DOMAIN mem
  /\ mem' = [mem EXCEPT ![Operand(2)] = Operand(1)]
  /\ Proceed(0)
  /\ UNCHANGED out

Go ==
  /\ Depth > 0
  /\ \/ Current.tag = "jump"
     \/ Current.tag = "branch"
  /\ stack' =
       [stack EXCEPT ![Depth].pc =
          FromLine(Running, IF Current.tag = "branch" /\ Operand(1) = 0
                            THEN Current.to[2] ELSE Current.to[1])]
  /\ UNCHANGED <<program, args, mem, out>>

\* A call of a function of the program: a new activation, with new objects.
Enter ==
  /\ Depth > 0 /\ Current.tag = "call" /\ Current.n > 0
  /\ Len(stack') = Depth + 1
  /\ \A i \in 1 .. Depth : stack'[i] = stack[i]
  /\ Entered(stack'[Depth + 1], Current.n, DOMAIN mem)
  /\ args' = [i \in DOMAIN Current.args |-> Operand(i)]
  /\ DOMAIN mem' = DOMAIN mem \cup ObjectWords(stack'[Depth + 1])
  /\ \A a \in DOMAIN mem : mem'[a] = mem[a]
  /\ UNCHANGED <<program, out>>

\* The library functions
CallLibrary ==
  /\ Depth > 0 /\ Current.tag = "call" /\ Current.n <= 0
  /\ IF Current.n = Getint
     THEN /\ \E v \in Inputs : Proceed(v)
          /\ UNCHANGED out
     ELSE /\ Proceed(0)
          /\ out' = Append(out, Operand(1))
  /\ UNCHANGED mem

\* return: the activation and its objects are gone; the value is the result of
\* the call, or of main.
Leave ==
  /\ Depth > 0 /\ Current.tag = "return"
  /\ LET v == IF Current.args = <<>> THEN 0 ELSE Operand(1)
         rest == SubSeq(stack, 1, Depth - 1)
     IN  IF Depth = 1
         THEN stack' = <<>> /\ out' = Append(out, v)
         ELSE /\ UNCHANGED out
              /\ stack' = [rest EXCEPT ![Depth - 1] = After(@, v)]
  /\ DOMAIN mem' = DOMAIN mem \ ObjectWords(Top)
  /\ \A a \in DOMAIN mem' : mem'[a] = mem[a]
  /\ args' = <<>>
  /\ UNCHANGED program

Next == Compute \/ DoStore \/ Go \/ Enter \/ CallLibrary \/ Leave
Spec == Init /\ [][Next]_vars
=============================================================================
