----------------------------- MODULE ParserStacks -----------------------------
(***************************************************************************)
(* How sysy.y collects lists.  A rule of bison yields one value, so the    *)
(* actions of sysy.y gather the members of a list (the items of a block,   *)
(* the indices of an element, the arguments of a call, the break and       *)
(* continue statements of a while) in static stacks and vectors that all   *)
(* activations of all rules share.  A list may lie inside a member of      *)
(* another list of its kind: a[b[0]], f(x, g(y)), {{1}, 2}, a block in a   *)
(* block.  The static variables keep no record of which rule a member      *)
(* belongs to; that they still come apart rests on the order in which the  *)
(* grammar runs the actions.                                               *)
(*                                                                         *)
(* An action here is one stretch of a semantic action of sysy.y.  Which    *)
(* text is parsed is left open: any rule may begin wherever the grammar    *)
(* has a place for it.  Operators, types, names and the two forms of Stmt  *)
(* that resolve a dangling else keep their operands on bison's own stack   *)
(* and are left out.                                                       *)
(***************************************************************************)
EXTENDS Integers, Sequences, FiniteSets, SequencesExt

CONSTANTS
  MaxValues,  \* values after which nothing optional begins
  MaxOpen     \* rules open at a time

ASSUME ParserBounds == MaxValues \in Nat /\ MaxOpen \in Nat /\ MaxOpen >= 3

VARIABLES
  parse,  \* bison's stack: the rules begun and not yet reduced, innermost last
  val,    \* the value just reduced, until the rule around it takes it
  stack,  \* the static stacks of vectors, by StackNames
  vec,    \* the static vectors and stacks of values, by VecNames
  node,   \* the last tree node that took a list
  next    \* number of values reduced so far; it names the next one

vars == <<parse, val, stack, vec, node, next>>

\* temp_stack_vec_block_item, temp_stack_stack_stmt_need_to_add_last_while_addr,
\* stack_vec_const_exp_for_array_len, stack_vec_exp_for_array_len,
\* stack_vec_const_init_val, stack_vec_init_val
StackNames == {"block_item", "last_while", "const_exp", "exp", "const_init_val", "init_val"}

\* temp_stack_comp_unit, temp_vec_const_def, temp_vec_var_def,
\* temp_stack_func_f_params, temp_stack_func_r_params
VecNames == {"comp_unit", "const_def", "var_def", "func_f_params", "func_r_params"}

(***************************************************************************)
(* A value is a kind and a number.  A rule that is open has recognised     *)
(* `done` of its parts, and `vals` are the values the text has put into    *)
(* its list so far: the specification's own account, which no action but   *)
(* the right-recursive reductions reads (they find their $1 on bison's     *)
(* stack).                                                                 *)
(***************************************************************************)
Value(kind, id) == [kind |-> kind, id |-> id]
NoValue == Value("none", 0)

\* <<rule, done, kind>>: the rule, so far recognised, goes on with a `kind`
Grammar ==
  {<<"CompUnit", 0, "FuncDef">>, <<"CompUnit", 0, "Decl">>,
   <<"FuncDef", 0, "FuncFParams">>, <<"FuncDef", 0, "Block">>, <<"FuncDef", 1, "Block">>,
   <<"FuncFParams", 0, "FuncFParam">>, <<"FuncFParam", 0, "Exp">>,
   <<"Block", 0, "Decl">>, <<"Block", 0, "Stmt">>, <<"Block", 0, "Block">>,
   <<"While", 0, "Exp">>, <<"While", 1, "Stmt">>, <<"While", 1, "Block">>,
   <<"If", 0, "Exp">>, <<"If", 1, "Stmt">>, <<"If", 1, "Block">>,
   <<"If", 2, "Stmt">>, <<"If", 2, "Block">>,
   <<"Stmt", 0, "Exp">>, <<"Stmt", 1, "Exp">>,
   <<"ConstDecl", 0, "ConstDef">>, <<"VarDecl", 0, "VarDef">>,
   <<"ConstDef", 0, "Exp">>, <<"ConstDef", 0, "ConstInitVal">>,
   <<"VarDef", 0, "Exp">>, <<"VarDef", 0, "InitVal">>,
   <<"ConstInitVal", 0, "Exp">>, <<"ConstInitVal", 0, "ConstInitVal">>,
   <<"InitVal", 0, "Exp">>, <<"InitVal", 0, "InitVal">>,
   <<"LVal", 0, "Exp">>, <<"FuncRParams", 0, "Exp">>}

Rules == {g[1] : g \in Grammar}

\* The rule can end here.
Complete(f) ==
  CASE f.rule \in {"FuncFParam", "Block", "VarDef"} -> TRUE
    [] f.rule \in {"FuncDef", "While"} -> f.done = 2
    [] f.rule = "If" -> f.done >= 2
    [] f.rule \in {"Stmt", "ConstDef"} -> f.done >= 1
    [] OTHER -> f.vals # <<>>

Top == Last(parse)
Innermost(rules) == parse # <<>> /\ Top.rule \in rules
Room == next < MaxValues
Deeper == Room /\ Len(parse) < MaxOpen

\* Here the text may go on with a `kind`.
MayBegin(kind) ==
  /\ parse # <<>> /\ val = NoValue
  /\ <<Top.rule, Top.done, kind>> \in Grammar
  /\ Room \/ ~ Complete(Top)

Begin(rule) == parse' = Append(parse, [rule |-> rule, done |-> 0, vals |-> <<>>])

\* The value just reduced is a next part of the innermost rule.
MayTake(rules, kinds) ==
  /\ Innermost(rules)
  /\ val.kind \in kinds
  /\ <<Top.rule, Top.done, val.kind>> \in Grammar

Take(done, vals) ==
  /\ parse' = Append(Front(parse), [Top EXCEPT !.done = done, !.vals = vals])
  /\ val' = NoValue
  /\ UNCHANGED <<node, next>>

MayReduce(rules) == Innermost(rules) /\ val = NoValue /\ Complete(Top)

Reduce(kind) ==
  /\ val' = Value(kind, next)
  /\ next' = next + 1

\* The rule is reduced to a node with the members `kids`.
ReduceList(kind, kids) ==
  /\ Reduce(kind)
  /\ parse' = Front(parse)
  /\ node' = [rule |-> Top.rule, kids |-> kids, vals |-> Top.vals]

PushVec(s, v) == stack' = [stack EXCEPT ![s] = Append(@, v)]
AddToTop(s, x) == stack' = [stack EXCEPT ![s] = Append(Front(@), Append(Last(@), x))]
PopVec(s) == stack' = [stack EXCEPT ![s] = Front(@)]
-----------------------------------------------------------------------------
Init ==
  /\ parse = <<[rule |-> "CompUnit", done |-> 0, vals |-> <<>>]>>
  /\ val = NoValue
  /\ stack = [s \in StackNames |-> <<>>]
  /\ vec = [v \in VecNames |-> <<>>]
  /\ node = [rule |-> "none", kids |-> <<>>, vals |-> <<>>]
  /\ next = 0

(* Expressions *)

\* Exp without a list: a number, a variable, a call without arguments
ReduceExp ==
  /\ MayBegin("Exp")
  /\ Reduce("Exp")
  /\ UNCHANGED <<parse, stack, vec, node>>

\* IDENT '[' and IDENT '(' Exp
BeginExp ==
  /\ MayBegin("Exp") /\ Deeper
  /\ \E rule \in {"LVal", "FuncRParams"} : Begin(rule)
  /\ UNCHANGED <<val, stack, vec, node, next>>

\* ExpInArray and ExpInArray_Prime: the vector is pushed behind the first Exp
TakeIndex ==
  /\ MayTake({"LVal"}, {"Exp"})
  /\ IF Top.vals = <<>> THEN PushVec("exp", <<val>>) ELSE AddToTop("exp", val)
  /\ Take(0, Append(Top.vals, val))
  /\ UNCHANGED vec

ReduceLVal ==
  /\ MayReduce({"LVal"})
  /\ ReduceList("Exp", Last(stack["exp"]))
  /\ PopVec("exp")
  /\ UNCHANGED vec

\* mutant: a member is pushed as soon as it is recognised, and nothing is
\* left for the right-recursive reductions
TakeParamEagerly ==
  /\ MayTake({"FuncRParams", "FuncFParams"}, {"Exp", "FuncFParam"})
  /\ vec' = [vec EXCEPT ![IF Top.rule = "FuncRParams" THEN "func_r_params"
                                                       ELSE "func_f_params"] =
               <<val>> \o @]
  /\ Take(0, Append(Top.vals, val))
  /\ UNCHANGED stack

\* Exp of FuncRParams, FuncFParam of FuncFParams: they stay on bison's stack
TakeParam ==
  /\ MayTake({"FuncRParams", "FuncFParams"}, {"Exp", "FuncFParam"})
  /\ Take(0, Append(Top.vals, val))
  /\ UNCHANGED <<stack, vec>>

\* mutant: the value of the rest of the list is pushed, which has none
ReduceParamSeqRest ==
  /\ MayReduce({"FuncRParams", "FuncFParams"})
  /\ Top.done < Len(Top.vals) - 1
  /\ vec' = [vec EXCEPT ![IF Top.rule = "FuncRParams" THEN "func_r_params"
                                                       ELSE "func_f_params"] =
               Append(@, NoValue)]
  /\ parse' = Append(Front(parse), [Top EXCEPT !.done = @ + 1])
  /\ UNCHANGED <<val, stack, node, next>>

\* FuncRParamSeq and FuncFParamSeq recurse on the right: when the list is at
\* its end they are reduced one behind the other, from the last member on
ReduceParamSeq ==
  /\ MayReduce({"FuncRParams", "FuncFParams"})
  /\ Top.done < Len(Top.vals) - 1
  /\ vec' = [vec EXCEPT ![IF Top.rule = "FuncRParams" THEN "func_r_params"
                                                       ELSE "func_f_params"] =
               Append(@, Top.vals[Len(Top.vals) - Top.done])]
  /\ parse' = Append(Front(parse), [Top EXCEPT !.done = @ + 1])
  /\ UNCHANGED <<val, stack, node, next>>

\* the first member is pushed, and the stack emptied from the top
ReduceFuncRParams ==
  /\ MayReduce({"FuncRParams"}) /\ Top.done = Len(Top.vals) - 1
  /\ ReduceList("Exp", Reverse(Append(vec["func_r_params"], Top.vals[1])))
  /\ vec' = [vec EXCEPT !["func_r_params"] = <<>>]
  /\ UNCHANGED stack

(* Functions *)

BeginFuncDef ==
  /\ MayBegin("FuncDef")
  /\ Begin("FuncDef")
  /\ UNCHANGED <<val, stack, vec, node, next>>

BeginFuncFParams ==
  /\ MayBegin("FuncFParams")
  /\ Begin("FuncFParams")
  /\ UNCHANGED <<val, stack, vec, node, next>>

\* KW_INT IDENT
ReduceFuncFParam ==
  /\ MayBegin("FuncFParam")
  /\ Reduce("FuncFParam")
  /\ UNCHANGED <<parse, stack, vec, node>>

\* KW_INT IDENT '[' ']' ConstExpInArray_Prime
BeginFuncFParam ==
  /\ MayBegin("FuncFParam") /\ Deeper
  /\ Begin("FuncFParam")
  /\ PushVec("const_exp", <<>>)
  /\ UNCHANGED <<val, vec, node, next>>

TakeParamDim ==
  /\ MayTake({"FuncFParam"}, {"Exp"})
  /\ AddToTop("const_exp", val)
  /\ Take(0, Append(Top.vals, val))
  /\ UNCHANGED vec

ReduceArrayParam ==
  /\ MayReduce({"FuncFParam"})
  /\ ReduceList("FuncFParam", Last(stack["const_exp"]))
  /\ PopVec("const_exp")
  /\ UNCHANGED vec

ReduceFuncFParams ==
  /\ MayReduce({"FuncFParams"}) /\ Top.done = Len(Top.vals) - 1
  /\ ReduceList("FuncFParams", Reverse(Append(vec["func_f_params"], Top.vals[1])))
  /\ vec' = [vec EXCEPT !["func_f_params"] = <<>>]
  /\ UNCHANGED stack

TakeFuncPart ==
  /\ MayTake({"FuncDef"}, {"FuncFParams", "Block"})
  /\ Take(IF val.kind = "Block" THEN 2 ELSE 1, <<>>)
  /\ UNCHANGED <<stack, vec>>

ReduceFuncDef ==
  /\ MayReduce({"FuncDef"})
  /\ Reduce("FuncDef")
  /\ parse' = Front(parse)
  /\ UNCHANGED <<stack, vec, node>>
-----------------------------------------------------------------------------
(* Declarations *)

BeginDecl ==
  /\ MayBegin("Decl") /\ Deeper
  /\ \E rule \in {"ConstDecl", "VarDecl"} : Begin(rule)
  /\ UNCHANGED <<val, stack, vec, node, next>>

BeginDef ==
  /\ \/ MayBegin("ConstDef") /\ Begin("ConstDef")
     \/ MayBegin("VarDef") /\ Begin("VarDef")
  /\ UNCHANGED <<val, stack, vec, node, next>>

DefVec(rule) == IF rule = "ConstDecl" THEN "const_def" ELSE "var_def"

\* ConstDefSeq and VarDefSeq
TakeDef ==
  /\ MayTake({"ConstDecl", "VarDecl"}, {"ConstDef", "VarDef"})
  /\ vec' = [vec EXCEPT ![DefVec(Top.rule)] = Append(@, val)]
  /\ Take(0, Append(Top.vals, val))
  /\ UNCHANGED stack

\* mutant: the vector is not cleared
ReduceDeclNoClear ==
  /\ MayReduce({"ConstDecl", "VarDecl"})
  /\ ReduceList("Decl", vec[DefVec(Top.rule)])
  /\ UNCHANGED <<stack, vec>>

ReduceDecl ==
  /\ MayReduce({"ConstDecl", "VarDecl"})
  /\ ReduceList("Decl", vec[DefVec(Top.rule)])
  /\ vec' = [vec EXCEPT ![DefVec(Top.rule)] = <<>>]
  /\ UNCHANGED stack

\* ConstExpInArray and ConstExpInArray_Prime
TakeDim ==
  /\ MayTake({"ConstDef", "VarDef"}, {"Exp"}) /\ Room
  /\ IF Top.vals = <<>> THEN PushVec("const_exp", <<val>>) ELSE AddToTop("const_exp", val)
  /\ Take(0, Append(Top.vals, val))
  /\ UNCHANGED vec

\* '=' InitVal and '=' ConstInitVal
TakeInit ==
  /\ MayTake({"ConstDef", "VarDef"}, {"Exp", "ConstInitVal", "InitVal"})
  /\ Take(1, Top.vals)
  /\ UNCHANGED <<stack, vec>>

\* mutant: the vector of an array with an initialiser stays on the stack
ReduceDefNoPop ==
  /\ MayReduce({"ConstDef", "VarDef"})
  /\ IF Top.vals = <<>>
     THEN /\ Reduce(Top.rule)
          /\ parse' = Front(parse)
          /\ UNCHANGED <<stack, node>>
     ELSE /\ ReduceList(Top.rule, Last(stack["const_exp"]))
          /\ IF Top.done = 0 THEN PopVec("const_exp") ELSE UNCHANGED stack
  /\ UNCHANGED vec

\* a scalar, or an array, whose dimensions are still on the stack
ReduceDef ==
  /\ MayReduce({"ConstDef", "VarDef"})
  /\ IF Top.vals = <<>>
     THEN /\ Reduce(Top.rule)
          /\ parse' = Front(parse)
          /\ UNCHANGED <<stack, node>>
     ELSE /\ ReduceList(Top.rule, Last(stack["const_exp"]))
          /\ PopVec("const_exp")
  /\ UNCHANGED vec

InitStack(rule) == IF rule = "ConstInitVal" THEN "const_init_val" ELSE "init_val"

\* '{' '}'
ReduceEmptyInitVal ==
  /\ \/ MayBegin("ConstInitVal") /\ Reduce("ConstInitVal")
     \/ MayBegin("InitVal") /\ Reduce("InitVal")
  /\ UNCHANGED <<parse, stack, vec, node>>

BeginInitVal ==
  /\ Deeper
  /\ \/ MayBegin("ConstInitVal") /\ Begin("ConstInitVal")
     \/ MayBegin("InitVal") /\ Begin("InitVal")
  /\ UNCHANGED <<val, stack, vec, node, next>>

\* the vector is pushed behind the first member, which may be a list itself
TakeInitVal ==
  /\ MayTake({"ConstInitVal", "InitVal"}, {"Exp", "ConstInitVal", "InitVal"})
  /\ IF Top.vals = <<>> THEN PushVec(InitStack(Top.rule), <<val>>)
                        ELSE AddToTop(InitStack(Top.rule), val)
  /\ Take(0, Append(Top.vals, val))
  /\ UNCHANGED vec

ReduceInitVal ==
  /\ MayReduce({"ConstInitVal", "InitVal"})
  /\ ReduceList(Top.rule, Last(stack[InitStack(Top.rule)]))
  /\ PopVec(InitStack(Top.rule))
  /\ UNCHANGED vec
-----------------------------------------------------------------------------
(* Blocks and statements *)

BeginBlock ==
  /\ MayBegin("Block") /\ (Deeper \/ Innermost({"FuncDef"}))
  /\ Begin("Block")
  /\ PushVec("block_item", <<>>)
  /\ UNCHANGED <<val, vec, node, next>>

\* BlockItemSeq
TakeBlockItem ==
  /\ MayTake({"Block"}, {"Decl", "Stmt", "Block"})
  /\ AddToTop("block_item", val)
  /\ Take(0, Append(Top.vals, val))
  /\ UNCHANGED vec

ReduceBlock ==
  /\ MayReduce({"Block"})
  /\ ReduceList("Block", Last(stack["block_item"]))
  /\ PopVec("block_item")
  /\ UNCHANGED vec

\* ';' and KW_RETURN ';'
ReduceEmptyStmt ==
  /\ MayBegin("Stmt")
  /\ Reduce("Stmt")
  /\ UNCHANGED <<parse, stack, vec, node>>

\* LVal '=' Exp ';', Exp ';', KW_RETURN Exp ';' and KW_IF
BeginStmt ==
  /\ MayBegin("Stmt") /\ Deeper
  /\ \E rule \in {"Stmt", "If"} : Begin(rule)
  /\ UNCHANGED <<val, stack, vec, node, next>>

\* WHILE
BeginWhile ==
  /\ MayBegin("Stmt") /\ Deeper
  /\ Begin("While")
  /\ PushVec("last_while", <<>>)
  /\ UNCHANGED <<val, vec, node, next>>

TakeStmtPart ==
  /\ MayTake({"Stmt", "If", "While"}, {"Exp", "Stmt", "Block"})
  /\ Take(Top.done + 1, Top.vals)
  /\ UNCHANGED <<stack, vec>>

ReduceStmt ==
  /\ MayReduce({"Stmt", "If"})
  /\ Reduce("Stmt")
  /\ parse' = Front(parse)
  /\ UNCHANGED <<stack, vec, node>>

\* The text is inside these while rules; break and continue belong to the last.
Whiles == {i \in DOMAIN parse : parse[i].rule = "While"}

\* KW_BREAK ';' and KW_CONTINUE ';'.  Outside a while the code takes the top
\* of an empty stack; such a text is no SysY program.
ReduceLoopExit ==
  /\ MayBegin("Stmt") /\ Whiles # {}
  /\ Reduce("Stmt")
  /\ \E w \in Whiles :
       /\ \A i \in Whiles : i <= w
       /\ parse' = [parse EXCEPT ![w].vals = Append(@, val')]
  /\ AddToTop("last_while", val')
  /\ UNCHANGED <<vec, node>>

\* WHILE '(' Exp ')' Stmt: last_while_ins of every statement noted is set
ReduceWhile ==
  /\ MayReduce({"While"})
  /\ ReduceList("Stmt", Last(stack["last_while"]))
  /\ PopVec("last_while")
  /\ UNCHANGED vec
-----------------------------------------------------------------------------
(* The compilation unit *)

\* CompUnitEle and CompUnitEleSeq: the first element is not pushed
TakeCompUnitEle ==
  /\ MayTake({"CompUnit"}, {"FuncDef", "Decl"})
  /\ IF Top.vals = <<>> THEN UNCHANGED vec
     ELSE vec' = [vec EXCEPT !["comp_unit"] = Append(@, val)]
  /\ Take(0, Append(Top.vals, val))
  /\ UNCHANGED stack

\* The elements are chained by next_comp_unit_ele, popped from the last one
\* on, each in front of those before.
ReduceCompUnit ==
  /\ MayReduce({"CompUnit"})
  /\ ReduceList("CompUnit", <<Top.vals[1]>> \o vec["comp_unit"])
  /\ vec' = [vec EXCEPT !["comp_unit"] = <<>>]
  /\ UNCHANGED stack

\* yyparse has returned
Finish == parse = <<>> /\ UNCHANGED vars

Next ==
  \/ ReduceExp \/ BeginExp \/ TakeIndex \/ ReduceLVal
  \/ TakeParam \/ ReduceParamSeq \/ ReduceFuncRParams
  \/ BeginFuncDef \/ BeginFuncFParams \/ ReduceFuncFParam \/ BeginFuncFParam
  \/ TakeParamDim \/ ReduceArrayParam \/ ReduceFuncFParams
  \/ TakeFuncPart \/ ReduceFuncDef
  \/ BeginDecl \/ BeginDef \/ TakeDef \/ ReduceDecl
  \/ TakeDim \/ TakeInit \/ ReduceDef
  \/ ReduceEmptyInitVal \/ BeginInitVal \/ TakeInitVal \/ ReduceInitVal
  \/ BeginBlock \/ TakeBlockItem \/ ReduceBlock
  \/ ReduceEmptyStmt \/ BeginStmt \/ BeginWhile \/ TakeStmtPart \/ ReduceStmt
  \/ ReduceLoopExit \/ ReduceWhile
  \/ TakeCompUnitEle \/ ReduceCompUnit \/ Finish

Spec == Init /\ [][Next]_vars
-----------------------------------------------------------------------------
(* Properties *)

Kinds == {"CompUnit", "FuncDef", "Decl", "FuncFParams", "FuncFParam", "Block", "Stmt",
          "Exp", "ConstDef", "VarDef", "ConstInitVal", "InitVal"}
Values == [kind : Kinds, id : Nat]
Frames == [rule : Rules, done : Nat, vals : Seq(Values)]
Nodes == [rule : Rules \cup {"none"}, kids : Seq(Values), vals : Seq(Values)]

\* The types of the static variables, and how far a rule can be recognised:
\* an `if` has at most two branches, a parameter list ends before its start.
TypeOK ==
  /\ parse \in Seq(Frames)
  /\ \A i \in DOMAIN parse :
       IF parse[i].rule \in {"FuncRParams", "FuncFParams"}
       THEN parse[i].vals = <<>> => parse[i].done = 0
       ELSE parse[i].done <= 3
  /\ val \in Values \cup {NoValue}
  /\ stack \in [StackNames -> Seq(Seq(Values))]
  /\ vec \in [VecNames -> Seq(Values)]
  /\ node \in Nodes
  /\ next \in Nat

\* Every list node of the tree has exactly the members the text gives it, in
\* their order, whatever lists of the same kind were parsed between two of
\* them; a while is the last_while_ins of exactly the break and continue
\* statements it is the innermost loop of.
ListsAreSource == node.kids = node.vals

\* The stack on which a rule keeps its list.
StackOf(rule) ==
  CASE rule = "Block" -> "block_item"
    [] rule = "While" -> "last_while"
    [] rule \in {"FuncFParam", "ConstDef", "VarDef"} -> "const_exp"
    [] rule = "LVal" -> "exp"
    [] rule = "ConstInitVal" -> "const_init_val"
    [] rule = "InitVal" -> "init_val"
    [] OTHER -> "none"

\* It pushed its vector when it began, or behind its first member.
HasVec(f, s) ==
  StackOf(f.rule) = s /\ (f.rule \in {"Block", "While", "FuncFParam"} \/ f.vals # <<>>)

Holders(s, n) == {i \in 1..n : HasVec(parse[i], s)}

\* Each stack holds one vector for each open rule that uses it, in the order
\* in which the rules began, and in it the members recognised so far: top() is
\* the innermost rule's whenever an action reads it, never a vector that an
\* earlier list left behind, and top() of an empty stack is never taken (the
\* assert(false) after it comes too late to help).
OwnVectors ==
  \A s \in StackNames :
    /\ Len(stack[s]) = Cardinality(Holders(s, Len(parse)))
    /\ \A i \in Holders(s, Len(parse)) :
         stack[s][Cardinality(Holders(s, i))] = parse[i].vals

\* The vectors that are no stacks of vectors belong to one open rule: a
\* declaration never begins inside one of its kind, and a parameter list fills
\* its stack only when no other list can begin before it is emptied.
VecOf(f) ==
  CASE f.rule = "CompUnit" -> IF f.vals = <<>> THEN <<>> ELSE Tail(f.vals)
    [] f.rule \in {"ConstDecl", "VarDecl"} -> f.vals
    [] f.rule \in {"FuncFParams", "FuncRParams"} ->
         [k \in 1..f.done |-> f.vals[Len(f.vals) + 1 - k]]
    [] OTHER -> <<>>

VecRule == [comp_unit |-> "CompUnit", const_def |-> "ConstDecl", var_def |-> "VarDecl",
            func_f_params |-> "FuncFParams", func_r_params |-> "FuncRParams"]

OwnMembers ==
  \A v \in VecNames :
    LET users == {i \in DOMAIN parse : parse[i].rule = VecRule[v] /\ VecOf(parse[i]) # <<>>}
    IN  IF users = {} THEN vec[v] = <<>>
        ELSE \E i \in users : users = {i} /\ vec[v] = VecOf(parse[i])
=============================================================================
