-------------------------------- MODULE StmtRun --------------------------------
(***************************************************************************)
(* Does the lowered text do what the statements say?  StmtDump first dumps *)
(* a function; then its IR and its syntax tree are executed side by side.  *)
(*                                                                         *)
(* Both sides have the same observable events: evaluating a leaf           *)
(* expression (an instruction with operands and effects of its own: a      *)
(* call, a load, an arithmetic operation), storing to a variable, and      *)
(* returning.  Between events each side makes silent steps.  The two are   *)
(* run in lockstep: a side that has reached its next event waits for the   *)
(* other one.  A leaf may yield any of Values, chosen once for both.       *)
(*                                                                         *)
(* The tree is run by the rules of the C family (SysY is a subset of C):   *)
(* || and && short-circuit and yield 0 or 1, break and continue act on the *)
(* innermost loop, a function that runs off its end returns.               *)
(***************************************************************************)
EXTENDS StmtDump

CONSTANTS Values    \* what a leaf expression can evaluate to

\* A program that can be run has a function.
ASSUME HasFunction == <<>> \notin Programs

VARIABLES
  running,   \* FALSE while dumping, then TRUE
  pc,        \* IR: position in k_str
  env,       \* IR: values of the registers and temporaries written so far
  src,       \* tree: what is left to execute, innermost first
  val        \* tree: value of the last expression, 0 once it has been used, or
             \* the address of the element that is being looked for
runVars == <<running, pc, env, src, val>>

NoValue == -1
Truth(b) == IF b THEN 1 ELSE 0
-----------------------------------------------------------------------------
(* The IR side: Koopa's meaning of an item, where e holds the values *)

\* The address of a variable, and of what a pointer variable points to; an
\* element is one index further down.
Variable == <<0>>
Pointed == <<1>>

Value(a, e) == CASE a[1] = "imm" -> a[2]
                 [] a[1] = "@" -> Variable
                 [] OTHER -> e[a]
Bind(e, a, v) == [x \in DOMAIN e \cup {a} |-> IF x = a THEN v ELSE e[x]]
Target(l) == CHOOSE i \in DOMAIN k_str : k_str[i].op = "label" /\ k_str[i].dst = l

IsEvent(it) == \/ it.op \in {"ins", "ret"}
               \/ it.op = "store" /\ it.args[2][1] # "%temp_l_result"

EventOf(it, e) ==
  CASE it.op = "ins" -> <<"eval", it.args[1][2], 0>>
    [] it.op = "ret" ->
         <<"ret", IF it.args = <<>> THEN NoValue ELSE Value(it.args[1], e), 0>>
    [] it.op = "store" -> <<"store", Value(it.args[1], e), Value(it.args[2], e)>>

\* what a silent item computes, and where it puts that
Result(it, e) ==
  LET v(i) == Value(it.args[i], e) IN
  CASE it.op = "or" -> Truth(v(1) # 0 \/ v(2) # 0)
    [] it.op = "ne" -> Truth(v(1) # v(2))
    [] it.op = "and" -> Truth(v(1) = 1 /\ v(2) = 1)
    [] it.op = "load" /\ it.args[1][1] = "@" -> Pointed
    [] it.op = "load" /\ it.args[1][1] # "@" -> v(1)
    [] it.op = "store" -> v(1)
    [] it.op \in {"getelemptr", "getptr"} -> Append(v(1), v(2))

Written(it, e) ==
  CASE it.op \in {"or", "ne", "and", "load", "getelemptr", "getptr"} ->
         Bind(e, it.dst, Result(it, e))
    [] it.op = "store" -> Bind(e, it.args[2], Result(it, e))
    [] OTHER -> e

\* the label that a jump or a branch leads to
Chosen(it, e) ==
  it.to[IF it.op = "jump" \/ Value(it.args[1], e) # 0 THEN 1 ELSE 2]

It == k_str[pc]
IrReady == IsEvent(It)
IrEvent == EventOf(It, env)
IrSilent ==
  /\ env' = Written(It, env)
  /\ pc' = IF It.op \in {"jump", "br"} THEN Target(Chosen(It, env)) ELSE pc + 1
-----------------------------------------------------------------------------
(* The tree side: small steps of the source language.  Of what is left, s,  *)
(* the first part is executed when the last expression had the value v.     *)

Todo(at, x) == [at |-> at, x |-> x]

AtEvent(s) ==
  s # <<>> =>
    \/ Head(s).at = "Exp" /\ Head(s).exp.tag = "ins"
    \/ Head(s).at \in {"Assign", "Return"}
    \/ Head(s).at = "Stmt" /\ Head(s).stmt.tag = 10

SourceEvent(s, v) ==
  IF s = <<>> THEN <<"ret", NoValue, 0>>
  ELSE CASE Head(s).at = "Exp" -> <<"eval", Head(s).exp.name, 0>>
         [] Head(s).at = "Assign" -> <<"store", v, Head(s).x>>
         [] Head(s).at = "Return" -> <<"ret", v, 0>>
         [] Head(s).at = "Stmt" -> <<"ret", NoValue, 0>>

\* What a part puts in its place, and the value it leaves.
Becomes(next, v) == [next |-> next, val |-> v]

ExpStep(e) ==
  IF e.tag = "num" THEN Becomes(<<>>, e.val)
  ELSE Becomes(<<ExpF(e.lhs), Todo("Rest", e)>>, 0)

\* the left operand is known
RestStep(e, v) ==
  IF (e.tag = "lor") = (v # 0)
  THEN Becomes(<<>>, Truth(v # 0))
  ELSE Becomes(<<ExpF(e.rhs), Todo("Bool", 0)>>, 0)

\* The value of an index is known; had are those of the indices before.
Indexed(left, had, s) == [left |-> left, had |-> had, pointer |-> s.pointer, exp |-> s.exp]
\* These are the values of indices that are not in the address yet.
Sought(indices, exp) == [indices |-> indices, exp |-> exp]

IndexStep(x, v) ==
  IF x.left # <<>>
  THEN Becomes(<<ExpF(Head(x.left)), Todo("Index", Indexed(Tail(x.left), Append(x.had, v), x))>>, 0)
  ELSE Becomes(<<Todo("Place", Sought(Append(x.had, v), x.exp))>>,
               IF x.pointer THEN Pointed ELSE Variable)

\* The element is looked for index by index; v is the address so far.
PlaceStep(x, v) ==
  IF x.indices # <<>>
  THEN Becomes(<<Todo("Place", Sought(Tail(x.indices), x.exp))>>,
               Append(v, Head(x.indices)))
  ELSE Becomes(<<ExpF(x.exp), Todo("Assign", v)>>, 0)

StmtStep(s) ==
  Becomes(CASE s.tag = 0 /\ s.l_val = <<>> -> <<ExpF(s.exp), Todo("Assign", Variable)>>
            [] s.tag = 0 /\ s.l_val # <<>> ->
                 <<ExpF(Head(s.l_val)), Todo("Index", Indexed(Tail(s.l_val), <<>>, s))>>
            [] s.tag = 1 -> <<>>
            [] s.tag = 2 -> <<ExpF(s.exp), Todo("Drop", 0)>>
            [] s.tag = 3 -> <<BlockF(s.block)>>
            [] s.tag \in {4, 5} -> <<ExpF(s.exp), Todo("If", s)>>
            [] s.tag = 6 -> <<Todo("Loop", s)>>
            [] s.tag = 9 -> <<ExpF(s.exp), Todo("Return", 0)>>, 0)

BlockStep(items) ==
  IF items = <<>> THEN Becomes(<<>>, 0)
  ELSE Becomes((IF Head(items).tag = 0
                THEN <<ExpF(Head(items).exp), Todo("Assign", Variable)>>
                ELSE <<StmtF(Head(items).stmt)>>) \o <<BlockF(Tail(items))>>, 0)

Step(f, v) ==
  CASE f.at = "Exp" -> ExpStep(f.exp)
    [] f.at = "Rest" -> RestStep(f.x, v)
    [] f.at = "Bool" -> Becomes(<<>>, Truth(v # 0))
    [] f.at = "Index" -> IndexStep(f.x, v)
    [] f.at = "Place" -> PlaceStep(f.x, v)
    [] f.at = "Drop" -> Becomes(<<>>, 0)
    [] f.at = "Stmt" -> StmtStep(f.stmt)
    [] f.at = "If" ->
         Becomes(IF v # 0 THEN <<StmtF(IF f.x.tag = 4 THEN f.x.stmt ELSE f.x.stmt_if)>>
                 ELSE IF f.x.tag = 4 THEN <<>> ELSE <<StmtF(f.x.stmt_else)>>, 0)
    [] f.at = "Loop" -> Becomes(<<ExpF(f.x.exp), Todo("Test", f.x)>>, 0)
    [] f.at = "Test" ->
         Becomes(IF v # 0 THEN <<StmtF(f.x.stmt), Todo("Loop", f.x)>> ELSE <<>>, 0)
    [] f.at = "Block" -> BlockStep(f.items)

\* what is left from the innermost loop on
FromLoop(s) ==
  LET i == CHOOSE i \in DOMAIN s : s[i].at = "Loop" /\ \A j \in 1 .. i - 1 : s[j].at # "Loop"
  IN  SubSeq(s, i, Len(s))

Breaks(f) == f.at = "Stmt" /\ f.stmt.tag \in {7, 8}

\* The whole state of this side after one silent step.
After(s, v) ==
  LET f == Head(s) IN
  IF Breaks(f) THEN <<IF f.stmt.tag = 7 THEN Tail(FromLoop(s)) ELSE FromLoop(s), 0>>
  ELSE <<Step(f, v).next \o Tail(s), Step(f, v).val>>

SrcReady == AtEvent(src)
SrcEvent == SourceEvent(src, val)
SrcSilent == src' = After(src, val)[1] /\ val' = After(src, val)[2]
-----------------------------------------------------------------------------
(* Dump, then run *)

RunInit ==
  /\ Init
  /\ running = FALSE
  /\ pc = 1
  /\ env = << >>
  /\ src = <<BlockF(Head(unit))>>
  /\ val = 0

DumpStep == ~ running /\ ~ Dumped /\ Next /\ UNCHANGED runVars

Start ==
  /\ ~ running /\ Dumped
  /\ running' = TRUE
  /\ pc' = 2
  /\ UNCHANGED <<vars, env, src, val>>

\* each side that is not at an event makes one silent step
Silent ==
  /\ running
  /\ ~ IrReady \/ ~ SrcReady
  /\ IF IrReady THEN UNCHANGED <<pc, env>> ELSE IrSilent
  /\ IF SrcReady THEN UNCHANGED <<src, val>> ELSE SrcSilent
  /\ UNCHANGED <<vars, running>>

\* both are at an event other than a return, and it is the same one
Event ==
  /\ running /\ IrReady /\ SrcReady
  /\ IrEvent = SrcEvent /\ It.op # "ret"
  /\ pc' = pc + 1
  /\ src' = Tail(src)
  /\ IF It.op = "ins" THEN \E v \in Values : env' = Bind(env, It.dst, v) /\ val' = v
                      ELSE UNCHANGED env /\ val' = 0
  /\ UNCHANGED <<vars, running>>

Returned == running /\ IrReady /\ SrcReady /\ IrEvent = SrcEvent /\ It.op = "ret"
Over == Returned /\ UNCHANGED <<vars, runVars>>

RunNext == DumpStep \/ Start \/ Silent \/ Event \/ Over

\* A program that is run keeps running: nothing else is scheduled.
RunSpec == RunInit /\ [][RunNext]_<<vars, runVars>> /\ WF_<<vars, runVars>>(RunNext)
-----------------------------------------------------------------------------
(* Properties *)

\* The program the compiler writes does what the source says: whenever both
\* are at their next event it is the same event with the same values.  This is
\* what every label, jump and short-circuit store of Stmt.cpp, LOrExp.cpp and
\* LAndExp.cpp is there for.
SameEvents == running /\ IrReady /\ SrcReady => IrEvent = SrcEvent

\* Neither side runs on for ever in silence while the other has something to
\* do: the lowered loops end, and begin again, exactly when the source's do.
KeepsPace ==
  /\ running /\ SrcReady ~> running /\ SrcReady /\ IrReady
  /\ running /\ IrReady ~> running /\ SrcReady /\ IrReady
=============================================================================
