----------------------------- MODULE MCRiscvRun -----------------------------
(***************************************************************************)
(* The programs of the RiscvRun runs.  A function T with an array          *)
(* parameter, a local variable and a local array uses a value: the ways to *)
(* produce one (what kind of line its result is) are combined with the     *)
(* ways to use one (what Visit does with the operand).  All are texts that *)
(* the front end writes.                                                   *)
(***************************************************************************)
EXTENDS RiscvRun

MCImmediates == -32 .. 31
MCInputs == {-3, 0, 2}

\* T(int b[]) { int x = 1; int arr[2] = {1, 0}; ...
InitElements(arr, first) ==
  <<GetElemPtr(Ref(arr), Num(0), 4), Store(Num(1), Ref(first + 1)),
    GetElemPtr(Ref(arr), Num(1), 4), Store(Num(0), Ref(first + 3))>>
Prologue ==
  <<Alloc(4), Store(Arg(0), Ref(1)), Alloc(4), Store(Num(1), Ref(3)), Alloc(8)>>
  \o InitElements(5, 5)
B == Ref(1)
X == Ref(3)
Arr == Ref(5)
Scalar == Global(1)
Vector == Global(2)

\* The other functions: at(int b[], int i) { return b[i]; }, and one with ten
\* parameters.
At == Function(2, "int",
  <<Alloc(4), Store(Arg(0), Ref(1)), Alloc(4), Store(Arg(1), Ref(3)),
    Load(Ref(3)), Load(Ref(1)), GetPtr(Ref(6), Ref(5), 4), Load(Ref(7)),
    Ret(<<Ref(8)>>)>>)
Ten == Function(10, "int",
  FlattenSeq([i \in 1..10 |-> <<Alloc(4), Store(Arg(i - 1), Ref(2 * i - 1))>>])
  \o <<Load(Ref(1)), Call(Putint, <<Ref(21)>>), Load(Ref(15)), Load(Ref(17)),
       Binary("SUB", Ref(23), Ref(24)), Call(Putint, <<Ref(25)>>),
       Load(Ref(19)), Ret(<<Ref(27)>>)>>)

\* main() { int arr[2] = {1, 0}; putint(T(arr)); return 0; }
MainOf(t) == Function(0, "int",
  <<Alloc(8)>> \o InitElements(1, 1)
  \o <<GetElemPtr(Ref(1), Num(0), 4), Call(t, <<Ref(6)>>),
       Call(Putint, <<Ref(7)>>), Ret(<<Num(0)>>)>>)

ProgramOf(lines) ==
  Program(<<<<1>>, <<0, 1>>>>,
          <<At, Ten, Function(1, "int", Prologue \o lines), MainOf(3)>>)

\* Ways to produce a value: the lines when n lines come before, and the operand.
Produce(n) ==
  [number |-> [lines |-> <<>>, value |-> Num(1)],
   local |-> [lines |-> <<Load(X)>>, value |-> Ref(n + 1)],
   global |-> [lines |-> <<Load(Scalar)>>, value |-> Ref(n + 1)],
   element |-> [lines |-> <<GetElemPtr(Arr, Num(0), 4), Load(Ref(n + 1))>>,
                value |-> Ref(n + 2)],
   through |-> [lines |-> <<Load(B), GetPtr(Ref(n + 1), Num(0), 4), Load(Ref(n + 2))>>,
                value |-> Ref(n + 3)],
   binary |-> [lines |-> <<Load(X), Binary("SUB", Ref(n + 1), Num(1))>>,
               value |-> Ref(n + 2)],
   library |-> [lines |-> <<Call(Getint, <<>>)>>, value |-> Ref(n + 1)],
   call |-> [lines |-> <<GetElemPtr(Arr, Num(0), 4), Call(1, <<Ref(n + 1), Num(1)>>)>>,
             value |-> Ref(n + 2)],
   passed |-> [lines |-> <<Load(B), Call(1, <<Ref(n + 1), Num(0)>>)>>,
               value |-> Ref(n + 2)]]
Producers == DOMAIN Produce(0)
Calling == {"library", "call", "passed"}

\* Ways to use one: the lines before it is computed (n come before them), and
\* the lines after (m come before them).
Before(n) ==
  [storeElement |-> <<GetElemPtr(Arr, Num(1), 4)>>,
   storeDeep |-> <<GetElemPtr(Arr, Num(0), 8), GetElemPtr(Ref(n + 1), Num(1), 4)>>,
   storeThrough |-> <<Load(B), GetPtr(Ref(n + 1), Num(1), 4)>>,
   storeThroughDeep |-> <<Load(B), GetPtr(Ref(n + 1), Num(0), 8),
                          GetElemPtr(Ref(n + 2), Num(1), 4)>>]
Use(n, m, v) ==
  [return |-> <<Ret(<<v>>)>>,
   left |-> <<Binary("SUB", v, Num(5)), Ret(<<Ref(m + 1)>>)>>,
   right |-> <<Binary("SUB", Num(5), v), Ret(<<Ref(m + 1)>>)>>,
   both |-> <<Binary("MUL", v, v), Ret(<<Ref(m + 1)>>)>>,
   storeLocal |-> <<Store(v, X), Load(X), Ret(<<Ref(m + 2)>>)>>,
   storeGlobal |-> <<Store(v, Scalar), Load(Scalar), Ret(<<Ref(m + 2)>>)>>,
   branch |-> <<Branch(v, m + 2, m + 3), Ret(<<Num(8)>>), Ret(<<Num(9)>>)>>,
   print |-> <<Call(Putint, <<v>>), Ret(<<Num(9)>>)>>,
   pass |-> <<Load(X), Call(2, <<v, Num(2), Num(3), Num(4), Num(5), Num(6), Num(7),
                                 v, Ref(m + 1), v>>),
              Ret(<<Ref(m + 2)>>)>>,
   index |-> <<GetElemPtr(Arr, v, 4), Load(Ref(m + 1)), Ret(<<Ref(m + 2)>>)>>,
   indexDeep |-> <<GetElemPtr(Arr, Num(0), 8), GetElemPtr(Ref(m + 1), v, 4),
                   Load(Ref(m + 2)), Ret(<<Ref(m + 3)>>)>>,
   indexGlobal |-> <<GetElemPtr(Vector, v, 4), Load(Ref(m + 1)), Ret(<<Ref(m + 2)>>)>>,
   indexThrough |-> <<Load(B), GetPtr(Ref(m + 1), v, 4), Load(Ref(m + 2)),
                      Ret(<<Ref(m + 3)>>)>>,
   indexThroughDeep |-> <<Load(B), GetPtr(Ref(m + 1), Num(0), 8),
                          GetElemPtr(Ref(m + 2), v, 4), Load(Ref(m + 3)),
                          Ret(<<Ref(m + 4)>>)>>,
   decay |-> <<Load(B), GetPtr(Ref(m + 1), Num(0), 8), GetElemPtr(Ref(m + 2), Num(0), 4),
               Call(1, <<Ref(m + 3), Num(1)>>), Binary("ADD", v, Ref(m + 4)),
               Ret(<<Ref(m + 5)>>)>>,
   storeElement |-> <<Store(v, Ref(n)), Load(Ref(n)), Ret(<<Ref(m + 2)>>)>>,
   storeDeep |-> <<Store(v, Ref(n)), Load(Ref(n)), Ret(<<Ref(m + 2)>>)>>,
   storeThrough |-> <<Store(v, Ref(n)), Load(Ref(n)), Ret(<<Ref(m + 2)>>)>>,
   storeThroughDeep |-> <<Store(v, Ref(n)), Load(Ref(n)), Ret(<<Ref(m + 2)>>)>>]
Uses == DOMAIN Use(0, 0, Num(0))

Combined(p, u) ==
  LET base == Len(Prologue)
      pre == IF u \in DOMAIN Before(0) THEN Before(base)[u] ELSE <<>>
      n == base + Len(pre)
      made == Produce(n)[p]
  IN  ProgramOf(pre \o made.lines \o Use(n, n + Len(made.lines), made.value)[u])
Combinations == [w \in Producers \X Uses |-> Combined(w[1], w[2])]

\* The operators on two numbers that are read: comparisons and arithmetic, the
\* division by 2 and -2, and what && and || do with two comparisons.
K == Len(Prologue)
Compare(op) == ProgramOf(
  <<Call(Getint, <<>>), Call(Getint, <<>>), Binary(op, Ref(K + 1), Ref(K + 2)),
    Ret(<<Ref(K + 3)>>)>>)
Divide(op, d) == ProgramOf(
  <<Call(Getint, <<>>), Binary(op, Ref(K + 1), Num(d)), Ret(<<Ref(K + 2)>>)>>)
Logic(op) == ProgramOf(
  <<Call(Getint, <<>>), Binary("NOT_EQ", Ref(K + 1), Num(0)),
    Call(Getint, <<>>), Binary("LT", Ref(K + 3), Num(1)),
    Binary(op, Ref(K + 2), Ref(K + 4)), Ret(<<Ref(K + 5)>>)>>)
Comparisons == {"NOT_EQ", "EQ", "GT", "LT", "GE", "LE", "ADD", "SUB", "MUL"}
Operators ==
  [w \in {<<"op", op>> : op \in Comparisons} |-> Compare(w[2])]
  @@ [w \in {<<op, d>> : op \in {"DIV", "MOD"}, d \in {"2", "-2"}} |->
        Divide(w[1], IF w[2] = "2" THEN 2 ELSE -2)]
  @@ [w \in {<<"logic", op>> : op \in {"AND", "OR"}} |-> Logic(w[2])]

\* while (x > 0) { x = arr[1]; continue; }, and a recursive function.
Loop == ProgramOf(
  <<Call(Getint, <<>>), Store(Ref(K + 1), X), Jump(K + 4),
    Load(X), Binary("GT", Ref(K + 4), Num(0)), Branch(Ref(K + 5), K + 7, K + 11),
    GetElemPtr(Arr, Num(1), 4), Load(Ref(K + 7)), Store(Ref(K + 8), X), Jump(K + 4),
    Load(X), Ret(<<Ref(K + 11)>>)>>)
Factorial == Function(1, "int",
  <<Alloc(4), Store(Arg(0), Ref(1)),
    Load(Ref(1)), Branch(Ref(3), 5, 10),
    Load(Ref(1)), Load(Ref(1)), Binary("SUB", Ref(6), Num(1)), Call(1, <<Ref(7)>>),
    Jump(11), Ret(<<Num(1)>>), Binary("MUL", Ref(5), Ref(8)), Ret(<<Ref(11)>>)>>)
Recursion == Program(<<>>,
  <<Factorial, Function(0, "void", <<Call(Putint, <<Num(7)>>), Ret(<<>>)>>),
    Function(0, "void", <<Ret(<<>>)>>),
    Function(0, "int", <<Call(2, <<>>), Call(3, <<>>), Call(1, <<Num(3)>>),
                         Ret(<<Ref(3)>>)>>)>>)

\* What the back end refuses: an index that is the result of a call, and a
\* call result stored through a pointer made by getptr.
MCRefused == [w \in Calling \X {"index", "storeThrough"} |-> Combinations[w]]

MCPrograms ==
  Combinations @@ Operators
  @@ [w \in {<<"main", "loop">>} |-> Loop]
  @@ [w \in {<<"main", "recursion">>} |-> Recursion]
=============================================================================
