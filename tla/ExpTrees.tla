------------------------------- MODULE ExpTrees -------------------------------
(***************************************************************************)
(* Expression trees for model checking: every tree the expression rules of *)
(* sysy.y derive from a number of operators, parentheses counted, with     *)
(* holes for leaves that Fill takes from a pool, from left to right.       *)
(***************************************************************************)
EXTENDS Integers, Sequences, FiniteSets

CONSTANTS
  AllOps,     \* bound on the operators of trees with every operator
  FewOps      \* bound on those of trees with one operator of each class

Number(v) == [tag |-> "Number", val |-> v]
Ident(name) == [tag |-> "LVal", name |-> name, idx |-> <<>>]
Element(name, idx) == [tag |-> "LVal", name |-> name, idx |-> idx]
Whole(e) == [tag |-> "Exp", exp |-> e]
Call(name, params) == [tag |-> "Call", name |-> name, params |-> params, void |-> FALSE]
Hole == [tag |-> "hole"]

\* The rules, loosest first; all associate to the left.
Rules == <<"LOr", "LAnd", "Eq", "Rel", "Add", "Mul">>
UnaryRule == Len(Rules) + 1
Signs(rule, few) ==
  CASE rule = "Eq" -> IF few THEN {"ne"} ELSE {"eq", "ne"}
    [] rule = "Rel" -> IF few THEN {"lt"} ELSE {"gt", "lt", "ge", "le"}
    [] rule = "Add" -> IF few THEN {"sub"} ELSE {"add", "sub"}
    [] rule = "Mul" -> IF few THEN {"mul"} ELSE {"mul", "div", "mod"}
    [] rule = "Unary" -> IF few THEN {"sub"} ELSE {"plus", "sub", "eq"}
Binary(rule, l, r, few) ==
  IF rule \in {"LOr", "LAnd"} THEN {[tag |-> rule, lhs |-> l, rhs |-> r]}
  ELSE {[tag |-> rule, op |-> op, lhs |-> l, rhs |-> r] : op \in Signs(rule, few)}

RECURSIVE Derived(_, _, _)
\* The trees of n operators that rule number k and the tighter ones derive.
Derived(n, k, few) ==
  IF n = 0 THEN {Hole}
  ELSE UNION {UNION {UNION {Binary(Rules[j], l, r, few) :
                              l \in Derived(i, j, few), r \in Derived(n - 1 - i, j + 1, few)} :
                       i \in 0 .. n - 1} :
                j \in k .. Len(Rules)}
       \cup {[tag |-> "Unary", op |-> op, rhs |-> e] :
               op \in IF k <= UnaryRule THEN Signs("Unary", few) ELSE {},
               e \in Derived(n - 1, UnaryRule, few)}
       \cup {Whole(e) : e \in Derived(n - 1, 1, few)}

Shapes(n) == UNION {Derived(i, 1, FALSE) : i \in 0 .. n}
AllShapes == Shapes(AllOps) \cup UNION {Derived(i, 1, TRUE) : i \in AllOps .. FewOps}

\* A pair of the tree with its holes filled from number n on and the next number.
RECURSIVE FillFrom(_, _, _)
FillFrom(e, pool, n) ==
  CASE e.tag = "hole" -> <<pool[(n % Len(pool)) + 1], n + 1>>
    [] e.tag = "Exp" -> LET t == FillFrom(e.exp, pool, n) IN <<Whole(t[1]), t[2]>>
    [] e.tag = "Unary" -> LET t == FillFrom(e.rhs, pool, n) IN <<[e EXCEPT !.rhs = t[1]], t[2]>>
    [] OTHER -> LET l == FillFrom(e.lhs, pool, n)
                    r == FillFrom(e.rhs, pool, l[2])
                IN <<[e EXCEPT !.lhs = l[1], !.rhs = r[1]], r[2]>>
\* What an initialiser, an index, an argument or a statement holds is an Exp.
Filled(shapes, pool) == {Whole(FillFrom(e, pool, 0)[1]) : e \in shapes}

RECURSIVE SubExps(_)
SubExps(e) ==
  {e} \cup UNION {SubExps(c) :
    c \in CASE e.tag = "Exp" -> {e.exp}
            [] e.tag = "LVal" -> {e.idx[i] : i \in DOMAIN e.idx}
            [] e.tag = "Call" -> {e.params[i] : i \in DOMAIN e.params}
            [] e.tag = "Unary" -> {e.rhs}
            [] e.tag = "Number" -> {}
            [] OTHER -> {e.lhs, e.rhs}}

ExpsOfItem(it) ==
  LET Elems(s) == {s[i] : i \in DOMAIN s} IN
  UNION {SubExps(e) : e \in
    CASE it.tag = "Decl" -> UNION {Elems(it.defs[i].dims \o it.defs[i].inits) : i \in DOMAIN it.defs}
      [] it.tag = "FuncDef" -> UNION {Elems(it.params[i].dims) : i \in DOMAIN it.params}
      [] it.tag = "ExpStmt" -> {it.exp}
      [] it.tag = "Assign" -> Elems(it.idx) \cup {it.exp}}
ExpsOfPrograms(ps) == UNION {UNION {ExpsOfItem(p[i]) : i \in DOMAIN p} : p \in ps}
=============================================================================
