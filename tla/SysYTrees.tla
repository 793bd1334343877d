------------------------------ MODULE SysYTrees ------------------------------
(***************************************************************************)
(* Syntax trees for model checking: every function body up to a size, with *)
(* its leaf expressions numbered from left to right so that each has an    *)
(* identity of its own.  Two families: BlocksOf has every kind of node;    *)
(* ControlOf has only the statements that steer control, nested deeper.    *)
(***************************************************************************)
EXTENDS Integers, Sequences, FiniteSets

CONSTANTS
  BodySize,      \* bound on the statements, blocks, || and && of a body
  ControlSize    \* bound on the statements of a control-only body

Num(v) == [tag |-> "num", val |-> v]
Leaf(n) == [tag |-> "ins", name |-> n]
Logic(tag, l, r) == [tag |-> tag, lhs |-> l, rhs |-> r]

BaseExps == {Num(0), Num(1), Leaf(0)}

\* Expressions of size n: n is the number of || and &&.
ExpsOf(n) ==
  CASE n = 0 -> BaseExps
    [] n = 1 -> {Logic("lor", l, Leaf(0)) : l \in {Leaf(0), Num(1)}}
                \cup {Logic("land", l, Leaf(0)) : l \in {Leaf(0), Num(0)}}
    [] n = 2 -> {Logic("lor", Leaf(0), Logic("land", Leaf(0), Leaf(0))),
                 Logic("land", Logic("lor", Leaf(0), Leaf(0)), Leaf(0))}
    [] OTHER -> {}

Assign(l_val, pointer, e) ==
  [tag |-> 0, l_val |-> l_val, pointer |-> pointer, exp |-> e]

Simple(in_loop) ==
  {Assign(<<>>, FALSE, Leaf(0)), [tag |-> 1], [tag |-> 10]}
  \cup (IF in_loop THEN {[tag |-> 7], [tag |-> 8]} ELSE {})

\* two and three indices, one of which short-circuits
Subscripts == {<<l, Leaf(0)>> : l \in ExpsOf(1)} \cup {<<Leaf(0), Num(1), Leaf(0)>>}

Pairs(n) == {<<i, n - i>> : i \in 0 .. n}

RECURSIVE StmtsOf(_, _), BlocksOf(_, _)
\* Statements of size n, n >= 1; break and continue only inside a loop.
StmtsOf(n, in_loop) ==
  IF n = 0 THEN {}
  ELSE (IF n = 1 THEN Simple(in_loop) ELSE {})
    \cup {[tag |-> 9, exp |-> e] : e \in ExpsOf(n - 1) \ {Num(1)}}
    \cup (IF n = 2 THEN {[tag |-> 2, exp |-> e] : e \in ExpsOf(1)}
                   \cup {Assign(<<Leaf(0)>>, p, r) : p \in BOOLEAN, r \in ExpsOf(1)}
                   \cup {Assign(l, p, Leaf(0)) : p \in BOOLEAN, l \in Subscripts}
          ELSE {})
    \cup {[tag |-> 3, block |-> b] : b \in BlocksOf(n - 1, in_loop)}
    \cup UNION {{[tag |-> 4, exp |-> e, stmt |-> s] :
                   e \in ExpsOf(p[1]), s \in StmtsOf(p[2], in_loop)} : p \in Pairs(n - 1)}
    \cup UNION {{[tag |-> 6, exp |-> e, stmt |-> s] :
                   e \in ExpsOf(p[1]), s \in StmtsOf(p[2], TRUE)} : p \in Pairs(n - 1)}
    \cup UNION {{[tag |-> 5, exp |-> Leaf(0), stmt_if |-> s, stmt_else |-> t] :
                   s \in StmtsOf(p[1], in_loop), t \in StmtsOf(p[2], in_loop)} :
                p \in Pairs(n - 1)}

\* Blocks of size n: the sizes of the items add up to n.
BlocksOf(n, in_loop) ==
  (IF n = 0 THEN {<<>>} ELSE {})
  \cup UNION {{<<[tag |-> 1, stmt |-> s]>> \o b :
                 s \in StmtsOf(p[1], in_loop), b \in BlocksOf(p[2], in_loop)} :
              p \in {q \in Pairs(n) : q[1] > 0}}
  \cup (IF n = 0 THEN {}
        ELSE {<<[tag |-> 0, exp |-> Leaf(0)]>> \o b : b \in BlocksOf(n - 1, in_loop)})

RECURSIVE ControlOf(_, _)
\* Control statements of size n; a block of two statements is free.
ControlOf(n, in_loop) ==
  IF n = 0 THEN {}
  ELSE (IF n = 1 THEN Simple(in_loop) \ {[tag |-> 1]} ELSE {})
    \cup {[tag |-> 4, exp |-> Leaf(0), stmt |-> s] : s \in ControlOf(n - 1, in_loop)}
    \cup {[tag |-> 6, exp |-> Leaf(0), stmt |-> s] : s \in ControlOf(n - 1, TRUE)}
    \cup UNION {{[tag |-> 5, exp |-> Leaf(0), stmt_if |-> s, stmt_else |-> t] :
                   s \in ControlOf(p[1], in_loop), t \in ControlOf(p[2], in_loop)} :
                p \in Pairs(n - 1)}
    \cup UNION {{[tag |-> 3, block |-> <<[tag |-> 1, stmt |-> s], [tag |-> 1, stmt |-> t]>>] :
                   s \in ControlOf(p[1], in_loop), t \in ControlOf(p[2], in_loop)} :
                p \in {q \in Pairs(n) : q[1] \in 1 .. n - 1}}

\* Numbering: a pair of the numbered tree and the next free number.
RECURSIVE NumberExp(_, _), NumberExps(_, _), NumberStmt(_, _), NumberBlock(_, _)
NumberExp(e, n) ==
  CASE e.tag = "num" -> <<e, n>>
    [] e.tag = "ins" -> <<Leaf(n), n + 1>>
    [] OTHER -> LET l == NumberExp(e.lhs, n)
                    r == NumberExp(e.rhs, l[2])
                IN <<Logic(e.tag, l[1], r[1]), r[2]>>
NumberExps(es, n) ==
  IF es = <<>> THEN <<es, n>>
  ELSE LET h == NumberExp(Head(es), n)
           t == NumberExps(Tail(es), h[2])
       IN <<<<h[1]>> \o t[1], t[2]>>
NumberStmt(s, n) ==
  CASE s.tag \in {1, 7, 8, 10} -> <<s, n>>
    [] s.tag = 0 ->
         LET l == NumberExps(s.l_val, n)
             e == NumberExp(s.exp, l[2])
         IN <<[s EXCEPT !.l_val = l[1], !.exp = e[1]], e[2]>>
    [] s.tag \in {2, 9} ->
         LET e == NumberExp(s.exp, n) IN <<[s EXCEPT !.exp = e[1]], e[2]>>
    [] s.tag = 3 ->
         LET b == NumberBlock(s.block, n) IN <<[s EXCEPT !.block = b[1]], b[2]>>
    [] s.tag \in {4, 6} ->
         LET e == NumberExp(s.exp, n)
             t == NumberStmt(s.stmt, e[2])
         IN <<[s EXCEPT !.exp = e[1], !.stmt = t[1]], t[2]>>
    [] s.tag = 5 ->
         LET e == NumberExp(s.exp, n)
             t == NumberStmt(s.stmt_if, e[2])
             f == NumberStmt(s.stmt_else, t[2])
         IN <<[s EXCEPT !.exp = e[1], !.stmt_if = t[1], !.stmt_else = f[1]], f[2]>>
NumberBlock(b, n) ==
  IF b = <<>> THEN <<b, n>>
  ELSE LET it == Head(b)
           h == IF it.tag = 0 THEN NumberExp(it.exp, n) ELSE NumberStmt(it.stmt, n)
           t == NumberBlock(Tail(b), h[2])
       IN <<<<IF it.tag = 0 THEN [it EXCEPT !.exp = h[1]] ELSE [it EXCEPT !.stmt = h[1]]>>
              \o t[1], t[2]>>

Bodies(n) == {NumberBlock(b, 0)[1] : b \in UNION {BlocksOf(i, FALSE) : i \in 0 .. n}}
ControlBodies(n) ==
  {NumberBlock(<<[tag |-> 1, stmt |-> s]>>, 0)[1] : s \in ControlOf(n, FALSE)}

\* Subtrees
RECURSIVE SubExps(_), SubStmts(_), SubBlocks(_)
SubExps(e) == {e} \cup (IF e.tag \in {"lor", "land"}
                        THEN SubExps(e.lhs) \cup SubExps(e.rhs) ELSE {})
SubStmts(s) ==
  {s} \cup (CASE s.tag = 5 -> SubStmts(s.stmt_if) \cup SubStmts(s.stmt_else)
              [] s.tag \in {4, 6} -> SubStmts(s.stmt)
              [] s.tag = 3 -> UNION {SubStmts(s.block[i].stmt) :
                                       i \in {j \in DOMAIN s.block : s.block[j].tag = 1}}
              [] OTHER -> {})
BlockTails(b) == {SubSeq(b, i, Len(b)) : i \in 1 .. Len(b) + 1}
SubBlocks(b) ==
  BlockTails(b) \cup UNION {UNION {BlockTails(s.block) :
       s \in {t \in SubStmts(b[i].stmt) : t.tag = 3}} :
       i \in {j \in DOMAIN b : b[j].tag = 1}}
StmtsIn(bodies) == UNION {UNION {SubStmts(b[i].stmt) :
                      i \in {j \in DOMAIN b : b[j].tag = 1}} : b \in bodies}
ExpsIn(bodies) ==
  UNION {UNION {SubExps(b[i].exp) : i \in {j \in DOMAIN b : b[j].tag = 0}} : b \in bodies}
  \cup UNION {CASE s.tag \in {2, 4, 5, 6, 9} -> SubExps(s.exp)
                [] s.tag = 0 -> SubExps(s.exp) \cup
                                UNION {SubExps(s.l_val[i]) : i \in DOMAIN s.l_val}
                [] OTHER -> {} : s \in StmtsIn(bodies)}
BlocksIn(bodies) == UNION {SubBlocks(b) : b \in bodies}
=============================================================================
