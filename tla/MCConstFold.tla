----------------------------- MODULE MCConstFold -----------------------------
(***************************************************************************)
(* ConstFold on the trees of ExpTrees, each where an expression can stand: *)
(* as a constant, a length, a global or local initialiser, an argument, an *)
(* index, either side of an assignment.                                    *)
(***************************************************************************)
EXTENDS ConstFold, ExpTrees

MCArgument(x) == CASE x = "x" -> Int1(2) [] OTHER -> Address(<<x, 0>>, <<0>>)
MCHeld(place) == Int1(FoldSeq(LAMBDA i, n : 3 * n + i, 0, place[3]))
MCAnswer(f, args) ==
  LET weight(v) == IF IsInt(v) THEN v[2] ELSE 50 + FoldSeq(LAMBDA i, n : 3 * n + i, 0, v[3])
  IN IF \E i \in DOMAIN args : args[i] = Undefined THEN Undefined
     ELSE Int1(FoldSeq(LAMBDA v, n : 2 * n + weight(v), 1, args))
-----------------------------------------------------------------------------
(* Items *)

Def(tag, name, dims, inits) == [tag |-> tag, name |-> name, dims |-> dims, inits |-> inits]
Const(name, e) == Def("ConstDef", name, <<>>, <<e>>)
Int0(name, e) == Def("VarDef", name, <<>>, <<e>>)
DeclConst(defs) == [tag |-> "Decl", const |-> TRUE, defs |-> defs]
DeclVar(defs) == [tag |-> "Decl", const |-> FALSE, defs |-> defs]
Param(name, array, dims) == [tag |-> "Param", name |-> name, array |-> array, dims |-> dims]
FuncDef(params) == [tag |-> "FuncDef", params |-> params]
ExpStmt(e) == [tag |-> "ExpStmt", exp |-> e]
Assign(name, idx, e) == [tag |-> "Assign", name |-> name, idx |-> idx, exp |-> e]

Two == Whole(Number(2))
X == Param("x", FALSE, <<>>)
P == Param("p", TRUE, <<>>)
Q == Param("q", TRUE, <<Two>>)
-----------------------------------------------------------------------------
(* Expressions: a constant one has literals and the constant c, others what  *)
(* a function can use.                                                       *)

C3 == Const("c", Whole(Number(3)))
ConstPool == <<Number(4), Ident("c"), Number(2), Number(5)>>
LocalPool == <<Ident("x"), Number(5), Element("q", <<Whole(Number(1)), Whole(Ident("x"))>>),
               Call("h", <<Whole(Ident("x")), Two>>)>>

\* The value of a constant tree and whether a divisor in it is 0.
RECURSIVE ConstVal(_), DividesByZero(_)
ConstVal(e) ==
  CASE e.tag = "Number" -> e.val
    [] e.tag = "LVal" -> 3
    [] e.tag = "Exp" -> ConstVal(e.exp)
    [] e.tag = "Unary" -> IF e.op = "plus" THEN ConstVal(e.rhs) ELSE Compute(e.op, 0, ConstVal(e.rhs))
    [] e.tag \in {"LOr", "LAnd"} ->
         Bit(IF e.tag = "LOr" THEN ConstVal(e.lhs) # 0 \/ ConstVal(e.rhs) # 0
             ELSE ConstVal(e.lhs) # 0 /\ ConstVal(e.rhs) # 0)
    [] OTHER -> Compute(e.op, ConstVal(e.lhs), ConstVal(e.rhs))
DividesByZero(e) ==
  CASE e.tag \in {"Number", "LVal"} -> FALSE
    [] e.tag = "Exp" -> DividesByZero(e.exp)
    [] e.tag = "Unary" -> DividesByZero(e.rhs)
    [] OTHER -> \/ DividesByZero(e.lhs) \/ DividesByZero(e.rhs)
                \/ e.tag = "Mul" /\ Stops(e.op, ConstVal(e.rhs))

\* At the root && and || that do not fold count bytes for no function: what
\* they do is undefined.
HasParens(e) == \E s \in SubExps(e) : s.tag = "Exp"
RootTrees(es) ==
  {e \in es : \A s \in SubExps(e) : s.tag \in {"LOr", "LAnd"} => ~ HasParens(s)}

ConstTrees == {e \in Filled(AllShapes, ConstPool) : ~ DividesByZero(e)}
SmallConsts == {e \in Filled(Shapes(1), ConstPool) : ~ DividesByZero(e)}
LocalTrees == Filled(AllShapes, LocalPool)
SmallLocals == Filled(Shapes(1), LocalPool)
-----------------------------------------------------------------------------
(* Programs *)

Inits == {<<>>} \cup {<<e>> : e \in SmallConsts} \cup {<<d, Two>> : d \in SmallConsts}
Lengths == {e \in ConstTrees : ConstVal(e) \in 1 .. 3 /\ Cardinality(SubExps(e)) < 7}

InRoot ==
  {<<DeclConst(<<C3, Const("k", e)>>)>> : e \in RootTrees(ConstTrees)}
  \cup {<<DeclConst(<<C3>>), DeclVar(<<Int0("g", e), Def("VarDef", "u", <<>>, <<>>)>>),
          FuncDef(<<>>), Assign("u", <<>>, Whole(Ident("g")))>> : e \in RootTrees(ConstTrees)}
  \cup {<<DeclConst(<<C3, Def("ConstDef", "t", <<e>>, <<Two>>)>>)>> : e \in RootTrees(Lengths)}
  \cup {<<DeclConst(<<C3>>), DeclVar(<<Def("VarDef", "t", <<Two>>, is)>>)>> :
          is \in {s \in Inits : \A i \in DOMAIN s : s[i] \in RootTrees({s[i]})}}

InFunction ==
  {<<FuncDef(<<X, Q>>), DeclVar(<<Int0("v", e)>>)>> : e \in LocalTrees}
  \cup {<<FuncDef(<<>>), DeclConst(<<C3, Const("k", e)>>), ExpStmt(Whole(Ident("k")))>> :
          e \in ConstTrees}
  \cup {<<FuncDef(<<>>), DeclConst(<<C3>>), DeclVar(<<Def("VarDef", "t", <<e>>, <<Two>>)>>)>> :
          e \in Lengths}
  \cup {<<DeclConst(<<C3>>), FuncDef(<<X, Param("r", TRUE, <<e>>)>>)>> : e \in Lengths}
  \cup {<<FuncDef(<<X, P, Q>>), DeclVar(<<Def("VarDef", "t", <<Two>>, <<d>>)>>),
          Assign("t", <<Whole(Number(1))>>, e)>> : d \in SmallLocals, e \in SmallLocals}
  \cup {<<FuncDef(<<X, P, Q>>), Assign("q", <<d, Two>>, e),
          ExpStmt(Whole(Call("h", <<Whole(Element("q", <<Two>>)), Whole(Ident("p")), d>>)))>> :
          d \in SmallLocals, e \in SmallLocals}
  \cup {<<FuncDef(<<X, P, Q>>), Assign("x", <<>>, Whole(Element("q", <<d, e>>))),
          ExpStmt(Whole([Call("put", <<Whole(Ident("x"))>>) EXCEPT !.void = TRUE]))>> :
          d \in SmallLocals, e \in SmallLocals}
  \cup {<<FuncDef(<<X, P>>),
          DeclConst(<<Def("ConstDef", "t", <<Two>>, <<Two, Whole(Number(7))>>)>>),
          Assign("p", <<Whole(Ident("x"))>>, Whole(Element("t", <<e>>))),
          ExpStmt(Whole(Call("h", <<Whole(Ident("t"))>>)))>> : e \in {Whole(Number(0)), Whole(Number(1))}}

AllPrograms == InRoot \cup InFunction
AllExps == ExpsOfPrograms(AllPrograms)
MCPrograms == AllPrograms
MCExps == AllExps
=============================================================================
