----------------------------- MODULE FrameLayout -----------------------------
(***************************************************************************)
(* Stack frames.  How large a frame is and where each value lives in it is *)
(* decided twice, by two walks that never meet:                            *)
(*                                                                         *)
(*   - the front end (the Dump methods) adds to the SpaceNeeded record of  *)
(*     the function whenever it appends a line that will need room, and    *)
(*     FuncDefAST::Dump rounds the sum up to total_needed;                 *)
(*   - the back end (the Visit functions of main.cpp) re-reads the text    *)
(*     and hands out offsets from sp_dev, one line at a time.              *)
(*                                                                         *)
(* Nothing in the code compares the two.  This module runs both over any   *)
(* text the front end can write, and states what has to come out.          *)
(*                                                                         *)
(* A line of Koopa is reduced to what the frame depends on; which operator *)
(* it applies, its constants, labels and global operands are left out.     *)
(* The library functions of CompUnitAST take at most two arguments: a call *)
(* of one is a call of a function with that Arity.                         *)
(***************************************************************************)
EXTENDS Integers, Sequences

CONSTANTS
  N,            \* functions 1 .. N, in the order of their definitions
  Arity,        \* Arity[f]: the number of parameters
  Returns,      \* Returns[f] \in {"int", "void"}
  Shapes,       \* dimensions of local arrays
  SizeOf(_),    \* bytes of an array of these dimensions
  Dims,         \* most indices an array element is selected with
  MaxLines,     \* a body of MaxLines[f] lines begins nothing new
  MaxNest       \* most &&, ||, calls and element assignments open at a time

ASSUME FrameConstants ==
  /\ N \in Nat \ {0}
  /\ Arity \in [1..N -> Nat]
  /\ Returns \in [1..N -> {"int", "void"}]
  /\ Shapes \subseteq Seq(Nat) \ {<<>>}
  /\ \A d \in Shapes : SizeOf(d) \in Nat
  /\ MaxLines \in [1..N -> Nat]
  /\ Dims \in Nat /\ MaxNest \in Nat

VARIABLES
  phase,      \* "dump", "visit", "done"
  cur,        \* cur_map_iter_for_func_space_needed
  map_space_needed_for_function,
  k_str,      \* the lines of each function
  open,       \* the Dump calls that wait for an expression, innermost first
  operands,   \* lines whose results the open expressions still have to use
  line,       \* the line of cur the back end visits next; 0: none yet
  sp_dev,     \* next free offset
  ins_map     \* <<function, line>> -> offset from sp

vars == <<phase, cur, map_space_needed_for_function, k_str, open, operands,
          line, sp_dev, ins_map>>

(***************************************************************************)
(* A line: its operation; the bytes of the object it allocates or of its   *)
(* result; the lines whose results it reads; the line of the object or     *)
(* pointer it reads or writes through (0: a global, or none); the argument *)
(* number of a "param", the callee of a "call"; and variate_needed at the  *)
(* time the line was appended (the compiler does not keep that: it is here *)
(* for the proofs, and no action reads it).                                *)
(***************************************************************************)
Line(op, bytes, uses, at, arg, counted) ==
  [op |-> op, bytes |-> bytes, uses |-> uses, at |-> at, arg |-> arg,
   counted |-> counted]

Functions == 1..N
Text == k_str[cur]
Space == map_space_needed_for_function[cur]
S == Space.variate_needed

\* SpaceNeeded::SpaceNeeded
NoSpace == [total_needed |-> 0, return_address_needed |-> 0,
            params_needed |-> 0, variate_needed |-> 0]

\* a binary, a load, a getelemptr or a getptr: one i32 or one pointer
Value(uses, at, counted) == Line("value", 4, uses, at, 0, counted)
Alloc(bytes, counted) == Line("alloc", bytes, {}, 0, 0, counted)
Store(uses, at, counted) == Line("store", 0, uses, at, 0, counted)

\* k values, each but the first computed through the one before
Path(k, uses, at) ==
  [i \in 1..k |-> IF i = 1 THEN Value(uses, at, S + 4)
                  ELSE Value({}, Len(Text) + i - 1, S + 4 * i)]

\* Append lines and count bytes for them.
Emit(lines, bytes) ==
  /\ k_str' = [k_str EXCEPT ![cur] = @ \o lines]
  /\ map_space_needed_for_function' =
       [map_space_needed_for_function EXCEPT ![cur].variate_needed = @ + bytes]
  /\ UNCHANGED <<phase, cur, line, sp_dev, ins_map>>

\* Operands that the innermost open expression has produced.
Available == Len(operands) - (IF open = <<>> THEN 0 ELSE Head(open).base)
Top(n) == {operands[i] : i \in Len(operands) - n + 1 .. Len(operands)}
Drop(n) == SubSeq(operands, 1, Len(operands) - n)
\* the other operands are numbers or constants, which need no line
Takes(n) == 0 .. (IF n <= Available THEN n ELSE Available)

Open(tag, left, dims, at) ==
  <<[tag |-> tag, left |-> left, dims |-> dims, at |-> at, uses |-> {},
     base |-> Len(operands)]>> \o open

Dumping == phase = "dump" /\ cur \in DOMAIN map_space_needed_for_function
Room == Len(Text) - 2 * Arity[cur] < MaxLines[cur]
Statement == Dumping /\ open = <<>>
Innermost(tags) == Dumping /\ open # <<>> /\ Head(open).tag \in tags
\* the Dump of an expression can be called
Expression == Dumping /\ ~ Innermost({"params", "init"}) /\ Room
Deeper == Len(open) < MaxNest
Locals == {i \in DOMAIN Text : Text[i].op = "alloc"}
-----------------------------------------------------------------------------
Init ==
  /\ phase = "dump" /\ cur = 1
  /\ map_space_needed_for_function = <<>>
  /\ k_str = [f \in Functions |-> <<>>]
  /\ open = <<>> /\ operands = <<>>
  /\ line = 0 /\ sp_dev = 0
  /\ ins_map = [v \in {} |-> 0]

\* FuncDefAST::Dump up to declare_alloc
DumpFuncDef ==
  /\ phase = "dump" /\ ~ Dumping
  /\ map_space_needed_for_function' =
       Append(map_space_needed_for_function, NoSpace)
  /\ open' = Open("params", Arity[cur], <<>>, 0)
  /\ UNCHANGED <<phase, cur, k_str, operands, line, sp_dev, ins_map>>

\* FuncFParamAST::declare_alloc, for one parameter
DeclareAlloc ==
  /\ Innermost({"params"})
  /\ IF Head(open).left = 0
     THEN open' = Tail(open) /\ Emit(<<>>, 0)
     ELSE /\ Emit(<<Alloc(4, S + 4),
                    Line("param", 0, {}, Len(Text) + 1,
                         Arity[cur] - Head(open).left, S + 4)>>, 4)
          /\ open' = <<[Head(open) EXCEPT !.left = @ - 1]>> \o Tail(open)
  /\ UNCHANGED operands

\* VarDefAST::Dump, int x;
DumpVarDef ==
  /\ Statement /\ Room
  /\ Emit(<<Alloc(4, S + 4)>>, 4)
  /\ UNCHANGED <<open, operands>>

\* VarDefAST::Dump, int x = e;
DumpVarDefInit ==
  /\ Statement /\ Room
  /\ \E n \in Takes(1) :
       Emit(<<Alloc(4, S + 4), Store(Top(n), Len(Text) + 1, S + 4)>>, 4)
  /\ operands' = <<>>
  /\ UNCHANGED open

\* VarDefAST::Dump and ConstDefAST::Dump, an array: the values of the
\* initialiser have been dumped, and wait in init_list until they are stored
DumpArrayDef ==
  /\ Statement /\ Room
  /\ \E d \in Shapes :
       /\ 4 * Len(operands) <= SizeOf(d)
       /\ Emit(<<Alloc(SizeOf(d), S + SizeOf(d))>>, SizeOf(d))
       /\ open' = Open("init", Head(d), Tail(d), Len(Text) + 1)
  /\ UNCHANGED operands

\* What an element of init_list holds: a number, or the next of the values that
\* are registers (Convert keeps their order, see ArrayInit).
ElementUses == {{}} \cup {{operands[i]} : i \in {1} \cap DOMAIN operands}

\* InitLocalArrayInKoopa: one turn of its loop, with the store that the call
\* of the innermost dimension makes, or the end of the loop
InitLocalArray ==
  /\ Innermost({"init"})
  /\ LET frame == Head(open)
         elem == Value({}, frame.at, S + 4)
         rest == <<[frame EXCEPT !.left = @ - 1]>> \o Tail(open)
     IN  IF frame.left = 0
         THEN /\ open' = Tail(open) /\ Emit(<<>>, 0)
              /\ operands' = IF Tail(open) = <<>> THEN <<>> ELSE operands
         ELSE IF frame.dims = <<>>
         THEN \E uses \in ElementUses :
                /\ Emit(<<elem, Store(uses, Len(Text) + 1, S + 4)>>, 4)
                /\ operands' = IF uses = {} THEN operands ELSE Tail(operands)
                /\ open' = rest
         ELSE /\ Emit(<<elem>>, 4)
              /\ UNCHANGED operands
              /\ open' = <<[frame EXCEPT !.left = Head(frame.dims),
                                         !.dims = Tail(frame.dims),
                                         !.at = Len(Text) + 1]>> \o rest

\* LValAST::Dump, a variable
DumpLVal ==
  /\ Expression
  /\ \E v \in Locals \cup {0} : Emit(<<Value({}, v, S + 4)>>, 4)
  /\ operands' = Append(operands, Len(Text) + 1)
  /\ UNCHANGED open

\* LValAST::Dump, an element: k pointers (one more for an array parameter,
\* whose pointer is loaded first) and the load or the final getelemptr
DumpLValElem ==
  /\ Expression
  /\ \E v \in Locals \cup {0}, k \in 2 .. Dims + 2, n \in Takes(Dims) :
       /\ Emit(Path(k, Top(n), v), 4 * k)
       /\ operands' = Append(Drop(n), Len(Text) + k)
  /\ UNCHANGED open

\* AddOpAST, MulOpAST, RelOpAST, EqOpAST, UnaryOpAST :: Dump
DumpOp ==
  /\ Expression
  /\ \E n \in Takes(2) :
       /\ Emit(<<Value(Top(n), 0, S + 4)>>, 4)
       /\ operands' = Append(Drop(n), Len(Text) + 1)
  /\ UNCHANGED open

\* LAndExpAST::Dump and LOrExpAST::Dump: the alloc of %temp_l_result_N
DumpLogic ==
  /\ Expression /\ Deeper
  /\ \E tag \in {"land", "lor"} : open' = Open(tag, 0, <<>>, Len(Text) + 1)
  /\ Emit(<<Alloc(4, S + 4)>>, 4)
  /\ UNCHANGED operands

\* ... the br on the left-hand side
DumpLogicRhs ==
  /\ Innermost({"land", "lor"}) /\ Head(open).left = 0
  /\ \E n \in Takes(1) :
       /\ Emit(<<Line("br", 0, Top(n), 0, 0, S)>>, 0)
       /\ open' = <<[Head(open) EXCEPT !.left = 1, !.uses = Top(n)]>> \o Tail(open)
       /\ operands' = Drop(n)

\* ... LAndOpAST::Dump or LOrOpAST::Dump, the two stores, a register that is
\* counted and never defined, and the load of the result
DumpLogicOp ==
  /\ Innermost({"land", "lor"}) /\ Head(open).left = 1
  /\ \E n \in Takes(1) :
       LET l == Len(Text)
           lhs == Head(open).uses
           at == Head(open).at
           op == IF Head(open).tag = "land"
                 THEN <<Value(lhs, 0, S + 4), Value(Top(n), 0, S + 8),
                        Value({l + 1, l + 2}, 0, S + 12)>>
                 ELSE <<Value(lhs \cup Top(n), 0, S + 4),
                        Value({l + 1}, 0, S + 8)>>
           s == S + 4 * Len(op)
       IN  /\ Emit(op \o <<Store({l + Len(op)}, at, s), Store({}, at, s),
                           Value({}, at, s + 8)>>, 4 * Len(op) + 8)
           /\ operands' = Append(Drop(n), l + Len(op) + 3)
  /\ open' = Tail(open)

\* Mutants of DumpCall: the claims of two calls added up, ...
DumpCallAdds ==
  /\ Expression /\ Deeper
  /\ \E f \in 1..cur :
       LET stacked == (Arity[f] - 8) * 4
       IN  /\ map_space_needed_for_function' =
                [map_space_needed_for_function EXCEPT
                   ![cur].return_address_needed = @ + 4,
                   ![cur].params_needed = IF stacked > @ THEN stacked ELSE @]
           /\ open' = Open("call", f, <<>>, 0)
  /\ UNCHANGED <<phase, cur, k_str, operands, line, sp_dev, ins_map>>

\* ... and the claim of the last call instead of the largest.
DumpCallLast ==
  /\ Expression /\ Deeper
  /\ \E f \in 1..cur :
       /\ map_space_needed_for_function' =
            [map_space_needed_for_function EXCEPT
               ![cur].return_address_needed = 4,
               ![cur].params_needed = IF Arity[f] > 8 THEN (Arity[f] - 8) * 4 ELSE 0]
       /\ open' = Open("call", f, <<>>, 0)
  /\ UNCHANGED <<phase, cur, k_str, operands, line, sp_dev, ins_map>>

\* UnaryExpAST::Dump, a call, with the first line of FuncRParamsAST::Dump(1):
\* the room for the arguments is claimed before they are evaluated.  A
\* function can be called from its own body on (SymbolTable::find).
DumpCall ==
  /\ Expression /\ Deeper
  /\ \E f \in 1..cur :
       LET stacked == (Arity[f] - 8) * 4
       IN  /\ map_space_needed_for_function' =
                [map_space_needed_for_function EXCEPT
                   ![cur].return_address_needed = 4,
                   ![cur].params_needed = IF stacked > @ THEN stacked ELSE @]
           /\ open' = Open("call", f, <<>>, 0)
  /\ UNCHANGED <<phase, cur, k_str, operands, line, sp_dev, ins_map>>

\* ... and, the arguments evaluated, the call
DumpCallEnd ==
  /\ Innermost({"call"})
  /\ \E n \in Takes(Arity[Head(open).left]) :
       LET f == Head(open).left
           result == IF Returns[f] = "int" THEN 4 ELSE 0
       IN  /\ Emit(<<Line("call", result, Top(n), 0, f, S + result)>>, result)
           /\ operands' = IF result = 0 THEN Drop(n)
                          ELSE Append(Drop(n), Len(Text) + 1)
  /\ open' = Tail(open)

\* StmtAST::Dump, x = e;
DumpAssign ==
  /\ Statement /\ Room
  /\ \E v \in Locals \cup {0}, n \in Takes(1) : Emit(<<Store(Top(n), v, S)>>, 0)
  /\ operands' = <<>>
  /\ UNCHANGED open

\* StmtAST::Dump, x[i] = e; the pointer first, then e, then the store
DumpElemPtr ==
  /\ Statement /\ Room
  /\ \E v \in Locals \cup {0}, k \in 1 .. Dims + 1, n \in Takes(Dims) :
       /\ Emit(Path(k, Top(n), v), 4 * k)
       /\ open' = Open("assign", 0, <<>>, Len(Text) + k)
  /\ UNCHANGED operands

DumpElemStore ==
  /\ Innermost({"assign"})
  /\ \E n \in Takes(1) : Emit(<<Store(Top(n), Head(open).at, S)>>, 0)
  /\ operands' = <<>>
  /\ open' = Tail(open)

\* StmtAST::Dump: the end of an expression statement; the br of if and while,
\* which StmtDump follows further; return e;
DumpExpStmt ==
  /\ Statement /\ operands # <<>>
  /\ operands' = <<>>
  /\ Emit(<<>>, 0)
  /\ UNCHANGED open

DumpBranch ==
  /\ Statement /\ Room
  /\ \E n \in Takes(1) : Emit(<<Line("br", 0, Top(n), 0, 0, S)>>, 0)
  /\ operands' = <<>>
  /\ UNCHANGED open

DumpReturn ==
  /\ Statement /\ Room
  /\ \E n \in Takes(1) : Emit(<<Line("ret", 0, Top(n), 0, 0, S)>>, 0)
  /\ operands' = <<>>
  /\ UNCHANGED open

\* A mutant of DumpFuncEnd: total_needed rounded down.
DumpFuncEndDown ==
  /\ Statement /\ operands = <<>>
  /\ k_str' = [k_str EXCEPT ![cur] = Append(@, Line("ret", 0, {}, 0, 0, S))]
  /\ map_space_needed_for_function' =
       [map_space_needed_for_function EXCEPT ![cur].total_needed =
          ((S + Space.return_address_needed + Space.params_needed) \div 16) * 16]
  /\ IF cur < N THEN cur' = cur + 1 /\ UNCHANGED phase
                ELSE cur' = 1 /\ phase' = "visit"
  /\ UNCHANGED <<open, operands, line, sp_dev, ins_map>>

\* FuncDefAST::Dump after the block; main then hands the text to the back end
DumpFuncEnd ==
  /\ Statement /\ operands = <<>>
  /\ k_str' = [k_str EXCEPT ![cur] = Append(@, Line("ret", 0, {}, 0, 0, S))]
  /\ map_space_needed_for_function' =
       [map_space_needed_for_function EXCEPT ![cur].total_needed =
          ((S + Space.return_address_needed + Space.params_needed + 15) \div 16)
          * 16]
  /\ IF cur < N THEN cur' = cur + 1 /\ UNCHANGED phase
                ELSE cur' = 1 /\ phase' = "visit"
  /\ UNCHANGED <<open, operands, line, sp_dev, ins_map>>
-----------------------------------------------------------------------------
FrontEnd == <<map_space_needed_for_function, k_str, open, operands>>

Visited == Text[line]
Visiting(ops) == phase = "visit" /\ line > 0 /\ Visited.op \in ops

\* The lines whose place in the frame the Visit of a line looks up, ...
Needs(l) == l.uses \cup (IF l.at = 0 THEN {} ELSE {l.at})
\* ... all found: where one is missing the code asserts false, and goes no
\* further.
Found == \A i \in Needs(Visited) : <<cur, i>> \in DOMAIN ins_map

\* A mutant of UsedBy that looks at the next line only.
UsedByNext(f, i) == i < Len(k_str[f]) /\ i \in Needs(k_str[f][i + 1])

\* used_by.len > 0
UsedBy(f, i) == \E j \in DOMAIN k_str[f] : i \in Needs(k_str[f][j])

\* ins_map.insert(make_pair(slice_ptr, sp_dev)); sp_dev += bytes
Place(bytes) ==
  /\ ins_map' = [v \in DOMAIN ins_map \cup {<<cur, line>>} |->
                   IF v \in DOMAIN ins_map THEN ins_map[v] ELSE sp_dev]
  /\ sp_dev' = sp_dev + bytes

\* Visit(koopa_raw_function_t)
VisitFunction ==
  /\ phase = "visit" /\ line = 0
  /\ sp_dev' = Space.params_needed
  /\ line' = 1
  /\ UNCHANGED <<phase, cur, ins_map, FrontEnd>>

\* A mutant of VisitAlloc: the size of an i32 for arrays too.
VisitAllocWord ==
  /\ Visiting({"alloc"})
  /\ Place(4)
  /\ line' = line + 1
  /\ UNCHANGED <<phase, cur, FrontEnd>>

VisitAlloc ==
  /\ Visiting({"alloc"})
  /\ Place(Visited.bytes)
  /\ line' = line + 1
  /\ UNCHANGED <<phase, cur, FrontEnd>>

VisitValue ==
  /\ Visiting({"value"}) /\ Found
  /\ Place(4)
  /\ line' = line + 1
  /\ UNCHANGED <<phase, cur, FrontEnd>>

VisitStore ==
  /\ Visiting({"store", "param", "br"}) /\ Found
  /\ line' = line + 1
  /\ UNCHANGED <<phase, cur, sp_dev, ins_map, FrontEnd>>

VisitCall ==
  /\ Visiting({"call"}) /\ Found
  /\ IF UsedBy(cur, line) THEN Place(4) ELSE UNCHANGED <<sp_dev, ins_map>>
  /\ line' = line + 1
  /\ UNCHANGED <<phase, cur, FrontEnd>>

\* Visit(koopa_raw_return_t), and the next function after the last line
VisitRet ==
  /\ Visiting({"ret"}) /\ Found
  /\ IF line < Len(Text) THEN line' = line + 1 /\ UNCHANGED <<phase, cur>>
     ELSE /\ line' = 0
          /\ IF cur < N THEN cur' = cur + 1 /\ UNCHANGED phase
                        ELSE phase' = "done" /\ UNCHANGED cur
  /\ UNCHANGED <<sp_dev, ins_map, FrontEnd>>

\* main has returned
Finish == phase = "done" /\ UNCHANGED vars

Dump ==
  \/ DumpFuncDef \/ DeclareAlloc \/ DumpVarDef \/ DumpVarDefInit
  \/ DumpArrayDef \/ InitLocalArray \/ DumpLVal \/ DumpLValElem \/ DumpOp
  \/ DumpLogic \/ DumpLogicRhs \/ DumpLogicOp \/ DumpCall \/ DumpCallEnd
  \/ DumpAssign \/ DumpElemPtr \/ DumpElemStore \/ DumpExpStmt
  \/ DumpBranch \/ DumpReturn \/ DumpFuncEnd

Visit ==
  \/ VisitFunction \/ VisitAlloc \/ VisitValue \/ VisitStore \/ VisitCall
  \/ VisitRet

Next == Dump \/ Visit \/ Finish
Spec == Init /\ [][Next]_vars
-----------------------------------------------------------------------------
(* Properties *)

Lines == [op : {"alloc", "param", "value", "store", "br", "call", "ret"},
          bytes : Nat, uses : SUBSET Nat, at : Nat, arg : Nat, counted : Nat]
Spaces == [total_needed : Nat, return_address_needed : {0, 4},
           params_needed : Nat, variate_needed : Nat]
Frames == [tag : {"params", "init", "land", "lor", "call", "assign"},
           left : Nat, dims : Seq(Nat), at : Nat, uses : SUBSET Nat, base : Nat]

\* The values of the variables, and what the tag of an open Dump says of its
\* left: the parameters still to be declared, the function that is called, the
\* side of && or || that is evaluated.
TypeOK ==
  /\ phase \in {"dump", "visit", "done"}
  /\ cur \in Functions
  /\ map_space_needed_for_function \in Seq(Spaces)
  /\ Len(map_space_needed_for_function) =
       IF phase # "dump" THEN N ELSE IF Dumping THEN cur ELSE cur - 1
  /\ k_str \in [Functions -> Seq(Lines)]
  /\ open \in Seq(Frames)
  /\ \A j \in DOMAIN open :
       CASE open[j].tag = "params" -> open[j].left \in 0..Arity[cur]
         [] open[j].tag = "call" -> open[j].left \in 1..cur
         [] open[j].tag \in {"land", "lor"} -> open[j].left \in {0, 1}
         [] OTHER -> TRUE
  /\ operands \in Seq(Nat)
  /\ line \in Nat /\ sp_dev \in Nat
  /\ DOMAIN ins_map \subseteq Functions \X Nat
  /\ \A v \in DOMAIN ins_map : ins_map[v] \in Nat

\* What the back end reserves for a line.
Bytes(v) == IF k_str[v[1]][v[2]].op = "call" THEN 4 ELSE k_str[v[1]][v[2]].bytes

\* Every offset the back end hands out lies inside the frame that FuncDefAST
\* sized without knowing it: above the outgoing arguments and below the saved
\* return address.  A line the front end forgot to count would put the last
\* slots of a full frame on top of ra or of the caller's frame.
SlotsInFrame ==
  \A v \in DOMAIN ins_map :
    LET space == map_space_needed_for_function[v[1]]
    IN  /\ space.params_needed <= ins_map[v]
        /\ ins_map[v] + Bytes(v)
             <= space.total_needed - space.return_address_needed

\* No two values of a function share a byte of its frame.
SlotsApart ==
  \A v, w \in DOMAIN ins_map :
    v[1] = w[1] /\ v # w =>
      \/ ins_map[v] + Bytes(v) <= ins_map[w]
      \/ ins_map[w] + Bytes(w) <= ins_map[v]

\* Wherever a call was appended, at any depth of nesting and whatever was
\* called after it, the area below the slots holds its ninth and later
\* arguments, and the return address it overwrites is saved.
CallsFit ==
  \A f \in DOMAIN map_space_needed_for_function :
    \A i \in DOMAIN k_str[f] :
      LET space == map_space_needed_for_function[f]
      IN  k_str[f][i].op = "call" =>
            /\ 4 * (Arity[k_str[f][i].arg] - 8) <= space.params_needed
            /\ space.return_address_needed = 4

\* No assert(false) of the Visit functions after an ins_map.find is reached:
\* whatever a line reads was given a place before, in particular the result
\* of a call, which gets one only if used_by says that it is read.
OperandsFound == phase = "visit" /\ line > 0 => Found
-----------------------------------------------------------------------------
(***************************************************************************)
(* Why: what the two walks keep, line by line.  FrameLayoutProofs shows    *)
(* that the conjunction FrameInv is inductive.                             *)
(***************************************************************************)

\* The back end may give the result of this line a place.
Result(l) == l.op \in {"alloc", "value"} \/ (l.op = "call" /\ l.bytes = 4)

\* Each line was counted when it was appended, on top of those before it.
WellCounted(t, s) ==
  \A i \in DOMAIN t :
    /\ (IF i = 1 THEN 0 ELSE t[i - 1].counted) + t[i].bytes <= t[i].counted
    /\ t[i].counted <= s
    /\ t[i].op = "value" => t[i].bytes = 4
    /\ t[i].op = "call" => t[i].bytes \in {0, 4}

\* A line reads results of earlier lines only.
WellRead(t) ==
  \A i \in DOMAIN t : \A u \in Needs(t[i]) : u \in 1 .. i - 1 /\ Result(t[u])

\* The outgoing arguments of a call of g fit.
Claimed(space, g) ==
  /\ g \in Functions
  /\ 4 * (Arity[g] - 8) <= space.params_needed
  /\ space.return_address_needed = 4

TextsKept ==
  /\ \A f \in DOMAIN map_space_needed_for_function :
       /\ WellCounted(k_str[f], map_space_needed_for_function[f].variate_needed)
       /\ WellRead(k_str[f])
       /\ \A i \in DOMAIN k_str[f] :
            k_str[f][i].op = "call" =>
              Claimed(map_space_needed_for_function[f], k_str[f][i].arg)
  /\ \A f \in Functions \ DOMAIN map_space_needed_for_function :
       k_str[f] = <<>>

\* What the open Dump calls hold is still good when they go on.
Readable == {u \in 1 .. Len(Text) : Result(Text[u])}
GoodFrames ==
  {frame \in Frames :
     /\ frame.at # 0 => frame.at \in Readable
     /\ frame.uses \subseteq Readable
     /\ frame.tag = "params" => frame.left <= Arity[cur]
     /\ frame.tag \in {"land", "lor"} => frame.left \in {0, 1}
     /\ frame.tag = "call" => frame.left \in 1..cur /\ Claimed(Space, frame.left)}

OpenKept ==
  IF Dumping THEN operands \in Seq(Readable) /\ open \in Seq(GoodFrames)
             ELSE operands = <<>> /\ open = <<>>

\* A finished function: sized, and its last line is a ret.
Sized ==
  \A f \in Functions :
    (phase # "dump" \/ f < cur) =>
      LET space == map_space_needed_for_function[f]
      IN  /\ space.variate_needed + space.return_address_needed
               + space.params_needed <= space.total_needed
          /\ Len(k_str[f]) > 0
          /\ k_str[f][Len(k_str[f])].op = "ret"

\* How far the back end is: what is placed, and that it stays below what the
\* front end had counted by the same line.
Progress ==
  /\ phase = "dump" => line = 0 /\ DOMAIN ins_map = {}
  /\ phase # "dump" => line \in 0 .. Len(Text)
  /\ phase = "visit" =>
       \A v \in DOMAIN ins_map : v[1] < cur \/ (v[1] = cur /\ v[2] < line)
  /\ phase = "visit" /\ line > 0 =>
       /\ Space.params_needed <= sp_dev
       /\ sp_dev <= Space.params_needed
                     + (IF line = 1 THEN 0 ELSE Text[line - 1].counted)
       /\ \A v \in DOMAIN ins_map : v[1] = cur => ins_map[v] + Bytes(v) <= sp_dev
       /\ \A i \in 1 .. line - 1 :
            Result(Text[i]) /\ (Text[i].op = "call" => UsedBy(cur, i)) =>
              <<cur, i>> \in DOMAIN ins_map

Placed ==
  \A v \in DOMAIN ins_map :
    /\ v[2] \in DOMAIN k_str[v[1]]
    /\ map_space_needed_for_function[v[1]].params_needed <= ins_map[v]
    /\ ins_map[v] + Bytes(v) <= map_space_needed_for_function[v[1]].params_needed
                                + k_str[v[1]][v[2]].counted

FrameInv ==
  TypeOK /\ TextsKept /\ OpenKept /\ Sized /\ Progress /\ Placed /\ SlotsApart
=============================================================================
