---------------------------- MODULE StmtRunProofs ----------------------------
(***************************************************************************)
(* For every grammar, every program and all values of the leaf             *)
(* expressions: what the dumped text does when it is executed is what the  *)
(* source does.                                                            *)
(*                                                                         *)
(* The argument has two halves.  While dumping, every item that has been   *)
(* written is faithful: between a point before it and a point behind it,   *)
(* each of which says where the tree stands, it does what the tree does    *)
(* next (Trail), and what the active Dump calls still have to do is what   *)
(* is left of the tree at the end of the text (Stacked).  While running,   *)
(* the tree is on the way to, or from, the point at pc (Abreast): as the   *)
(* tree is deterministic between events, the two meet at every event.      *)
(***************************************************************************)
EXTENDS StmtRun, StmtDumpProofs
-----------------------------------------------------------------------------
(* Silent steps of the tree.  A state is a pair of what is left and a value. *)

IsPath(p, n, a, b) ==
  /\ p[0] = a /\ p[n] = b
  /\ \A i \in 0 .. n - 1 : ~ AtEvent(p[i][1]) /\ p[i + 1] = After(p[i][1], p[i][2])
Reaches(a, b) == \E n \in Nat : \E p : IsPath(p, n, a, b)

\* Two paths from one state agree as long as both go on.
LEMMA PathsAgree ==
  ASSUME NEW a, NEW b, NEW c, NEW n \in Nat, NEW m \in Nat, NEW p, NEW q,
         IsPath(p, n, a, b), IsPath(q, m, a, c), n <= m
  PROVE  \A i \in 0 .. n : p[i] = q[i]
<1> DEFINE S == {i \in 0 .. n : p[i] = q[i]}
<1>1. 0 \in S
  BY DEF IsPath
<1>2. \A i \in 0 .. n - 1 : i \in S => i + 1 \in S
  <2> SUFFICES ASSUME NEW i \in 0 .. n - 1, p[i] = q[i] PROVE p[i + 1] = q[i + 1]
    OBVIOUS
  <2>1. i \in 0 .. m - 1
    OBVIOUS
  <2> QED BY <2>1 DEF IsPath
<1> HIDE DEF S
<1>3. \A i \in 0 .. n : i \in S
  BY <1>1, <1>2, Climb
<1> QED BY <1>3 DEF S

LEMMA Rest ==
  ASSUME NEW n \in Nat, NEW m \in Nat, NEW a, NEW b, NEW c, NEW p, NEW q,
         IsPath(p, n, a, b), IsPath(q, m, a, c), n <= m
  PROVE  Reaches(b, c)
<1> DEFINE r == [i \in 0 .. m - n |-> q[n + i]]
<1>1. p[n] = q[n]
  BY PathsAgree
<1>2. r[0] = b
  BY <1>1 DEF IsPath
<1>3. r[m - n] = c /\ m - n \in Nat
  BY DEF IsPath
<1>4. ASSUME NEW i \in 0 .. (m - n) - 1
      PROVE  ~ AtEvent(r[i][1]) /\ r[i + 1] = After(r[i][1], r[i][2])
  <2>1. n + i \in 0 .. m - 1 /\ r[i] = q[n + i] /\ r[i + 1] = q[(n + i) + 1]
    OBVIOUS
  <2> QED BY <2>1 DEF IsPath
<1> HIDE DEF r
<1>5. IsPath(r, m - n, b, c)
  BY <1>2, <1>3, <1>4 DEF IsPath
<1> QED BY <1>3, <1>5 DEF Reaches

\* Each state has one future: of two states on it one comes before the other.
LEMMA OneFuture ==
  ASSUME NEW a, NEW b, NEW c, Reaches(a, b), Reaches(a, c)
  PROVE  Reaches(b, c) \/ Reaches(c, b)
<1>1. PICK n \in Nat : \E p : IsPath(p, n, a, b)
  BY DEF Reaches
<1>2. PICK p : IsPath(p, n, a, b)
  BY <1>1
<1>3. PICK m \in Nat : \E q : IsPath(q, m, a, c)
  BY DEF Reaches
<1>4. PICK q : IsPath(q, m, a, c)
  BY <1>3
<1>5. CASE n <= m
  BY <1>2, <1>4, <1>5, Rest
<1>6. CASE m <= n
  BY <1>2, <1>4, <1>6, Rest
<1> QED BY <1>5, <1>6

LEMMA ReachesSame == ASSUME NEW a PROVE Reaches(a, a)
<1> DEFINE p == [i \in {0} |-> a]
<1>1. IsPath(p, 0, a, a)
  BY DEF IsPath
<1> QED BY <1>1 DEF Reaches

LEMMA ReachesNext ==
  ASSUME NEW a, ~ AtEvent(a[1])
  PROVE  Reaches(a, After(a[1], a[2]))
<1> DEFINE p == [i \in 0 .. 1 |-> IF i = 0 THEN a ELSE After(a[1], a[2])]
<1>1. p[0] = a /\ p[1] = After(a[1], a[2])
  OBVIOUS
<1> HIDE DEF p
<1>2. IsPath(p, 1, a, After(a[1], a[2]))
  BY <1>1 DEF IsPath
<1> QED BY <1>2 DEF Reaches

LEMMA ReachesThrough ==
  ASSUME NEW a, NEW b, NEW c, Reaches(a, b), Reaches(b, c)
  PROVE  Reaches(a, c)
<1>1. PICK n \in Nat : \E p : IsPath(p, n, a, b)
  BY DEF Reaches
<1>2. PICK p : IsPath(p, n, a, b)
  BY <1>1
<1>3. PICK m \in Nat : \E q : IsPath(q, m, b, c)
  BY DEF Reaches
<1>4. PICK q : IsPath(q, m, b, c)
  BY <1>3
<1> DEFINE r == [i \in 0 .. n + m |-> IF i <= n THEN p[i] ELSE q[i - n]]
<1>5. r[0] = a /\ n + m \in Nat
  BY <1>2 DEF IsPath
<1>6. r[n + m] = c
  BY <1>2, <1>4 DEF IsPath
<1>7. \A i \in 0 .. m : r[n + i] = q[i]
  <2> SUFFICES ASSUME NEW i \in 0 .. m PROVE r[n + i] = q[i]
    OBVIOUS
  <2>1. CASE i = 0
    BY <1>2, <1>4, <2>1 DEF IsPath
  <2>2. CASE i > 0
    BY <2>2
  <2> QED BY <2>1, <2>2
<1>8. \A i \in 0 .. n : r[i] = p[i]
  OBVIOUS
<1> HIDE DEF r
<1>9. ASSUME NEW i \in 0 .. (n + m) - 1
      PROVE  ~ AtEvent(r[i][1]) /\ r[i + 1] = After(r[i][1], r[i][2])
  <2>1. CASE i \in 0 .. n - 1
    BY <1>2, <1>8, <2>1 DEF IsPath
  <2>2. CASE i >= n
    <3>1. i - n \in 0 .. m - 1 /\ i = n + (i - n) /\ i + 1 = n + ((i - n) + 1)
          /\ i - n \in 0 .. m /\ (i - n) + 1 \in 0 .. m
      BY <2>2
    <3>2. r[i] = q[i - n] /\ r[i + 1] = q[(i - n) + 1]
      BY <1>7, <3>1
    <3> QED BY <1>4, <3>1, <3>2 DEF IsPath
  <2> QED BY <2>1, <2>2
<1>10. IsPath(r, n + m, a, c)
  BY <1>5, <1>6, <1>9 DEF IsPath
<1> QED BY <1>5, <1>10 DEF Reaches

\* A state at an event waits there.
LEMMA ReachesStop ==
  ASSUME NEW a, NEW b, AtEvent(a[1]), Reaches(a, b)
  PROVE  a = b
<1>1. PICK n \in Nat : \E p : IsPath(p, n, a, b)
  BY DEF Reaches
<1>2. PICK p : IsPath(p, n, a, b)
  BY <1>1
<1>3. n = 0
  BY <1>2 DEF IsPath
<1> QED BY <1>2, <1>3 DEF IsPath
-----------------------------------------------------------------------------
(* Points.  Where the text stands at some item, the tree stands at a state  *)
(* that is given by the values of the operands: a mark is a part of what is *)
(* left, with the operand in the place of the value it may hold.            *)

Marks ==
       [at : {"Stmt"}, stmt : Stmts]
  \cup [at : {"Exp"}, exp : Exps]
  \cup [at : {"Block"}, items : Blocks]
  \cup [at : {"Rest"}, x : Exps]
  \cup [at : {"Index"},
         x : [left : Seq(Exps), had : Seq(Operands), pointer : BOOLEAN, exp : Exps]]
  \cup [at : {"Place"}, x : [indices : Seq(Operands), exp : Exps]]
  \cup [at : {"If", "Loop", "Test"}, x : Stmts]
  \cup [at : {"Assign"}, x : Operands]
  \cup [at : {"Bool"}, x : {"lor", "land"} \X Operands]
  \cup [at : {"Return", "Drop"}, x : {0}]

\* The part that a mark stands for, and a whole state.
ValuesOf(s, e) == [i \in 1 .. Len(s) |-> Value(s[i], e)]
Concrete(f, e) ==
  CASE f.at = "Assign" -> Todo("Assign", Value(f.x, e))
    [] f.at = "Bool" -> Todo("Bool", 0)
    [] f.at = "Index" -> Todo("Index", Indexed(f.x.left, ValuesOf(f.x.had, e), f.x))
    [] f.at = "Place" -> Todo("Place", Sought(ValuesOf(f.x.indices, e), f.x.exp))
    [] OTHER -> f
Stack(c, e) == [i \in 1 .. Len(c) |-> Concrete(c[i], e)]

Conf(c, a, e) == <<Stack(c, e), Value(a, e)>>

\* The operands have values, and the left operand of an operator whose right
\* one is evaluated was not enough to decide.
Has(a, e) == IsLocal(a) => a \in DOMAIN e
MarkHolds(f, e) ==
  /\ f.at = "Assign" => Has(f.x, e)
  /\ f.at = "Index" => \A a \in Range(f.x.had) : Has(a, e)
  /\ f.at = "Place" => \A a \in Range(f.x.indices) : Has(a, e)
  /\ f.at = "Bool" => Has(f.x[2], e) /\ (f.x[1] = "lor" <=> Value(f.x[2], e) = 0)
StackHolds(c, e) == \A i \in 1 .. Len(c) : MarkHolds(c[i], e)

\* know: operands, each with a set that its value is in.
Point(c, a) == [src |-> c, data |-> a, know |-> {}]
State(p, e) == Conf(p.src, p.data, e)
Applies(p, e) ==
  /\ StackHolds(p.src, e)
  /\ Has(p.data, e)
  /\ \A q \in p.know : Has(q[1], e) /\ Value(q[1], e) \in q[2]

\* From p the tree comes to q in silence, whatever the operands are.
Turns(p, q) ==
  \A e : Applies(p, e) => Applies(q, e) /\ Reaches(State(p, e), State(q, e))

(***************************************************************************)
(* The item it, at point p, does what the tree does next; q is the point   *)
(* behind it, and L has the points of the labels.                          *)
(***************************************************************************)
AnswersEvent(it, p, q, e) ==
  \E s : /\ Reaches(State(p, e), s) /\ AtEvent(s[1])
         /\ EventOf(it, e) = SourceEvent(s[1], s[2])
         /\ it.op = "ins" =>
              \A v : /\ Applies(q, Bind(e, it.dst, v))
                     /\ Reaches(<<Tail(s[1]), v>>, State(q, Bind(e, it.dst, v)))
         /\ it.op = "store" => Applies(q, e) /\ Reaches(<<Tail(s[1]), 0>>, State(q, e))

KeepsState(it, p, q, e) ==
  Applies(q, Written(it, e)) /\ Reaches(State(p, e), State(q, Written(it, e)))

Faithful(it, p, q, L) ==
  /\ Range(it.to) \subseteq DOMAIN L
  /\ it.op = "label" /\ it.dst # Entry => it.dst \in DOMAIN L /\ p = L[it.dst]
  /\ it.op \in {"jump", "br"} => \A e : Chosen(it, e) \in Range(it.to)
  /\ it.op \notin {"fun", "end"} =>
       \A e : Applies(p, e) =>
         IF IsEvent(it) THEN AnswersEvent(it, p, q, e)
         ELSE KeepsState(it, p, IF it.op \in {"jump", "br"} THEN L[Chosen(it, e)] ELSE q, e)

\* The items of k are faithful at points of which the second is s, and the one
\* behind the last item is h.
Trail(k, L, s, h) ==
  /\ Len(k) >= 2
  /\ \E P : /\ P[2] = s /\ P[Len(k) + 1] = h
            /\ \A i \in 1 .. Len(k) : Faithful(k[i], P[i], P[i + 1], L)

\* M has what L has.
Extends(L, M) == \A l \in DOMAIN L : l \in DOMAIN M /\ M[l] = L[l]
AtLabel(L, l, p) == l \in DOMAIN L /\ L[l] = p
-----------------------------------------------------------------------------
(* Stacks *)

LEMMA ConsFacts ==
  ASSUME NEW S, NEW f \in S, NEW c \in Seq(S)
  PROVE  /\ Cons(f, c) \in Seq(S) /\ Len(Cons(f, c)) = Len(c) + 1 /\ Cons(f, c) # <<>>
         /\ Cons(f, c)[1] = f /\ Head(Cons(f, c)) = f /\ Tail(Cons(f, c)) = c
         /\ \A i \in 1 .. Len(c) : Cons(f, c)[i + 1] = c[i]
<1>1. <<f>> \in Seq(S) /\ Len(<<f>>) = 1 /\ <<f>>[1] = f
  OBVIOUS
<1>2. /\ <<f>> \o c \in Seq(S) /\ Len(<<f>> \o c) = 1 + Len(c)
      /\ \A i \in 1 .. 1 + Len(c) : (<<f>> \o c)[i] = IF i <= 1 THEN <<f>>[i] ELSE c[i - 1]
  BY <1>1, ConcatProperties
<1>3. Len(c) \in Nat
  OBVIOUS
<1>4. (<<f>> \o c)[1] = f /\ \A i \in 1 .. Len(c) : (<<f>> \o c)[i + 1] = c[i]
  <2>1. 1 \in 1 .. 1 + Len(c)
    BY <1>3
  <2>2. ASSUME NEW i \in 1 .. Len(c) PROVE (<<f>> \o c)[i + 1] = c[i]
    <3>1. i + 1 \in 1 .. 1 + Len(c) /\ ~ (i + 1 <= 1) /\ (i + 1) - 1 = i
      BY <1>3
    <3> QED BY <1>2, <3>1
  <2> QED BY <1>1, <1>2, <2>1, <2>2
<1>5. Tail(<<f>> \o c) = c /\ Head(<<f>> \o c) = f
  BY <1>2
<1> QED BY <1>2, <1>3, <1>4, <1>5 DEF Cons

LEMMA StackCons ==
  ASSUME NEW f \in Marks, NEW c \in Seq(Marks), NEW e
  PROVE  /\ Stack(Cons(f, c), e) = Cons(Concrete(f, e), Stack(c, e))
         /\ Stack(Cons(f, c), e) # <<>>
         /\ Head(Stack(Cons(f, c), e)) = Concrete(f, e) /\ Tail(Stack(Cons(f, c), e)) = Stack(c, e)
<1> DEFINE T == {Concrete(x, e) : x \in Marks}
<1> PICK M : M = Marks
  OBVIOUS
<1> PICK U : U = T
  BY Zenon
<1>0. f \in M /\ c \in Seq(M) /\ \A x \in M : Concrete(x, e) \in U
  OBVIOUS
<1> HIDE DEF T
<1>1. /\ Cons(f, c) \in Seq(M) /\ Len(Cons(f, c)) = Len(c) + 1 /\ Len(c) \in Nat
      /\ Cons(f, c)[1] = f /\ \A i \in 1 .. Len(c) : Cons(f, c)[i + 1] = c[i]
  <2>1. Len(c) \in Nat
    BY <1>0
  <2> QED BY ONLY <1>0, <2>1, ConsFacts
<1>2. \A i \in 1 .. Len(c) : c[i] \in M
  BY ONLY <1>0
<1>3. Stack(c, e) \in Seq(U) /\ Len(Stack(c, e)) = Len(c) /\ Concrete(f, e) \in U
  <2>1. Stack(c, e) \in [1 .. Len(c) -> U]
    BY <1>0, <1>2 DEF Stack
  <2> QED BY ONLY <1>0, <1>1, <2>1
<1>4. /\ Cons(Concrete(f, e), Stack(c, e)) \in Seq(U)
      /\ Len(Cons(Concrete(f, e), Stack(c, e))) = Len(c) + 1
      /\ Cons(Concrete(f, e), Stack(c, e))[1] = Concrete(f, e)
      /\ \A i \in 1 .. Len(c) : Cons(Concrete(f, e), Stack(c, e))[i + 1] = Stack(c, e)[i]
      /\ Head(Cons(Concrete(f, e), Stack(c, e))) = Concrete(f, e)
      /\ Tail(Cons(Concrete(f, e), Stack(c, e))) = Stack(c, e)
      /\ Cons(Concrete(f, e), Stack(c, e)) # <<>>
  <2> PICK x, s : x = Concrete(f, e) /\ s = Stack(c, e)
    OBVIOUS
  <2>1. x \in U /\ s \in Seq(U) /\ Len(s) = Len(c)
    BY <1>3
  <2>3. x \in U /\ s \in Seq(U)
    BY <2>1
  <2>2. /\ Cons(x, s) \in Seq(U) /\ Len(Cons(x, s)) = Len(s) + 1
        /\ Cons(x, s)[1] = x /\ \A i \in 1 .. Len(s) : Cons(x, s)[i + 1] = s[i]
    BY ONLY <2>3, ConsFacts
  <2>4. Cons(x, s) # <<>> /\ Head(Cons(x, s)) = x
    BY ONLY <2>3, ConsFacts
  <2>5. Tail(Cons(x, s)) = s
    BY ONLY <2>3, ConsFacts
  <2> QED BY <2>1, <2>2, <2>4, <2>5
<1>5. Stack(Cons(f, c), e) = Cons(Concrete(f, e), Stack(c, e))
  <2> DEFINE s == Cons(Concrete(f, e), Stack(c, e))
  <2>1. ASSUME NEW i \in 1 .. Len(c) + 1 PROVE s[i] = Concrete(Cons(f, c)[i], e)
    <3>1. CASE i = 1
      BY <1>1, <1>4, <3>1
    <3>2. CASE i # 1
      <4>1. i - 1 \in 1 .. Len(c) /\ (i - 1) + 1 = i
        BY <1>1, <3>2
      <4>2. s[i] = Stack(c, e)[i - 1] /\ Cons(f, c)[i] = c[i - 1]
        BY <1>1, <1>4, <4>1, Zenon
      <4> QED BY <4>1, <4>2 DEF Stack
    <3> QED BY <3>1, <3>2
  <2>2. s = [i \in 1 .. Len(c) + 1 |-> s[i]]
    BY <1>4
  <2> HIDE DEF s
  <2>3. s = [i \in 1 .. Len(c) + 1 |-> Concrete(Cons(f, c)[i], e)]
    BY <2>1, <2>2
  <2> QED BY <1>1, <2>3 DEF Stack, s
<1> QED BY <1>4, <1>5

LEMMA ConsType ==
  ASSUME NEW f \in Marks, NEW c \in Seq(Marks)
  PROVE  Cons(f, c) \in Seq(Marks)
<1> PICK M : M = Marks
  OBVIOUS
<1>1. f \in M /\ c \in Seq(M)
  OBVIOUS
<1>2. Cons(f, c) \in Seq(M)
  BY ONLY <1>1, ConsFacts
<1> QED BY <1>2

LEMMA ConsIndex ==
  ASSUME NEW f \in Marks, NEW c \in Seq(Marks)
  PROVE  /\ Len(Cons(f, c)) = Len(c) + 1 /\ Len(c) \in Nat
         /\ Cons(f, c)[1] = f /\ \A i \in 1 .. Len(c) : Cons(f, c)[i + 1] = c[i]
<1> PICK M : M = Marks
  OBVIOUS
<1>1. f \in M /\ c \in Seq(M)
  OBVIOUS
<1>2. /\ Len(Cons(f, c)) = Len(c) + 1
      /\ Cons(f, c)[1] = f /\ \A i \in 1 .. Len(c) : Cons(f, c)[i + 1] = c[i]
  BY ONLY <1>1, ConsFacts
<1>3. Len(c) \in Nat
  BY ONLY <1>1
<1> QED BY <1>2, <1>3

\* What holds of all parts holds of the first one and of the rest.
LEMMA ConsAll ==
  ASSUME NEW f \in Marks, NEW c \in Seq(Marks), NEW S
  PROVE  (\A i \in 1 .. Len(Cons(f, c)) : Cons(f, c)[i] \in S)
           <=> f \in S /\ \A i \in 1 .. Len(c) : c[i] \in S
<1> PICK d, n : d = Cons(f, c) /\ n = Len(c)
  OBVIOUS
<1>1. Len(d) = n + 1 /\ n \in Nat /\ d[1] = f /\ \A i \in 1 .. n : d[i + 1] = c[i]
  BY ConsIndex
<1>2. ASSUME \A i \in 1 .. n + 1 : d[i] \in S PROVE f \in S /\ \A i \in 1 .. n : c[i] \in S
  BY ONLY <1>1, <1>2
<1>3. ASSUME f \in S, \A i \in 1 .. n : c[i] \in S, NEW i \in 1 .. n + 1 PROVE d[i] \in S
  <2>1. i = 1 \/ (i - 1 \in 1 .. n /\ d[(i - 1) + 1] = c[i - 1] /\ (i - 1) + 1 = i)
    BY ONLY <1>1
  <2> QED BY ONLY <1>1, <1>3, <2>1
<1> QED BY <1>1, <1>2, <1>3, Zenon

LEMMA HoldsCons ==
  ASSUME NEW f \in Marks, NEW c \in Seq(Marks), NEW e
  PROVE  StackHolds(Cons(f, c), e) <=> MarkHolds(f, e) /\ StackHolds(c, e)
<1> DEFINE S == {x \in Marks : MarkHolds(x, e)}
<1>1. /\ \A i \in 1 .. Len(c) : c[i] \in Marks
      /\ \A i \in 1 .. Len(Cons(f, c)) : Cons(f, c)[i] \in Marks
  BY ConsType
<1>2. (\A i \in 1 .. Len(Cons(f, c)) : Cons(f, c)[i] \in S)
        <=> f \in S /\ \A i \in 1 .. Len(c) : c[i] \in S
  BY ConsAll, Zenon
<1> QED BY <1>1, <1>2, Zenon DEF StackHolds

LEMMA EmptyStack ==
  ASSUME NEW e
  PROVE  Stack(<<>>, e) = <<>> /\ StackHolds(<<>>, e)
<1>1. 1 .. Len(<<>>) = {}
  OBVIOUS
<1> QED BY <1>1 DEF Stack, StackHolds

\* One and two parts in front, as the rules of the tree write them.
LEMMA StackOne ==
  ASSUME NEW f \in Marks, NEW c \in Seq(Marks), NEW e
  PROVE  <<Concrete(f, e)>> \o Stack(c, e) = Stack(Cons(f, c), e)
BY StackCons, Zenon DEF Cons

LEMMA StackTwo ==
  ASSUME NEW f \in Marks, NEW g \in Marks, NEW c \in Seq(Marks), NEW e
  PROVE  <<Concrete(f, e), Concrete(g, e)>> \o Stack(c, e) = Stack(Cons(f, Cons(g, c)), e)
<1> DEFINE T == {Concrete(x, e) : x \in Marks}
<1> PICK U : U = T
  BY Zenon
<1> PICK x, y, s : x = Concrete(f, e) /\ y = Concrete(g, e) /\ s = Stack(c, e)
  OBVIOUS
<1>1. x \in U /\ y \in U
  OBVIOUS
<1>2. s \in Seq(U)
  <2>1. \A i \in 1 .. Len(c) : c[i] \in Marks
    OBVIOUS
  <2>2. Len(c) \in Nat /\ s \in [1 .. Len(c) -> U]
    BY <2>1 DEF Stack
  <2> QED BY ONLY <2>2
<1> HIDE DEF T
<1>3. <<x, y>> \o s = <<x>> \o (<<y>> \o s)
  <2>1. <<x>> \in Seq(U) /\ <<y>> \in Seq(U)
    BY ONLY <1>1
  <2>2. <<x>> \o <<y>> = <<x, y>>
    BY ONLY <1>1, Pair
  <2>3. (<<x>> \o <<y>>) \o s = <<x>> \o (<<y>> \o s)
    BY ONLY <1>2, <2>1, ConcatAssociative
  <2> QED BY ONLY <2>2, <2>3, Zenon
<1>4. <<y>> \o s = Stack(Cons(g, c), e)
  BY StackOne
<1>5. <<x>> \o Stack(Cons(g, c), e) = Stack(Cons(f, Cons(g, c)), e)
  BY ConsType, StackOne
<1> QED BY <1>3, <1>4, <1>5, Zenon

LEMMA StackNone ==
  ASSUME NEW c \in Seq(Marks), NEW e
  PROVE  <<>> \o Stack(c, e) = Stack(c, e)
<1> DEFINE T == {Concrete(x, e) : x \in Marks}
<1> PICK U : U = T
  BY Zenon
<1>1. \A i \in 1 .. Len(c) : c[i] \in Marks
  OBVIOUS
<1>2. Len(c) \in Nat /\ Stack(c, e) \in [1 .. Len(c) -> U]
  BY <1>1 DEF Stack
<1>3. Stack(c, e) \in Seq(U)
  BY ONLY <1>2
<1> QED BY ONLY <1>3
-----------------------------------------------------------------------------
(* Silent steps *)

\* Parts that the tree executes in silence and without leaving a loop.
Moving(m) == /\ m.at \notin {"Assign", "Return"}
             /\ ~ (m.at = "Exp" /\ m.exp.tag = "ins")
             /\ ~ (m.at = "Stmt" /\ m.stmt.tag \in {7, 8, 10})

LEMMA ConcreteAt ==
  ASSUME NEW m, NEW e
  PROVE  /\ m.at \notin {"Assign", "Bool", "Index", "Place"} => Concrete(m, e) = m
         /\ m.at = "Bool" => Concrete(m, e) = Todo("Bool", 0)
         /\ m.at = "Assign" => Concrete(m, e) = Todo("Assign", Value(m.x, e))
         /\ Concrete(m, e).at = m.at
  BY DEF Concrete, Todo

LEMMA ConcretePlace ==
  ASSUME NEW m, NEW e
  PROVE  /\ m.at = "Index" =>
              Concrete(m, e) = Todo("Index", Indexed(m.x.left, ValuesOf(m.x.had, e), m.x))
         /\ m.at = "Place" =>
              Concrete(m, e) = Todo("Place", Sought(ValuesOf(m.x.indices, e), m.x.exp))
  BY DEF Concrete

LEMMA OneStep ==
  ASSUME NEW m \in Marks, Moving(m), NEW r \in Seq(Marks), NEW e, NEW v, NEW n, NEW w, NEW s,
         Step(Concrete(m, e), v) = Becomes(n, w), n \o Stack(r, e) = s
  PROVE  Reaches(<<Stack(Cons(m, r), e), v>>, <<s, w>>)
<1> PICK a, t, f : a = <<Stack(Cons(m, r), e), v>> /\ t = Stack(Cons(m, r), e) /\ f = Concrete(m, e)
  BY Zenon
<1>1. t # <<>> /\ Head(t) = f /\ Tail(t) = Stack(r, e) /\ a[1] = t /\ a[2] = v
  BY StackCons
<1>2. ~ AtEvent(t) /\ ~ Breaks(f)
  BY <1>1, ConcreteAt DEF Moving, AtEvent, Breaks, Todo
<1>3. After(t, v) = <<Step(f, v).next \o Stack(r, e), Step(f, v).val>>
  BY <1>1, <1>2, Zenon DEF After
<1>4. Step(f, v).next = n /\ Step(f, v).val = w
  BY DEF Becomes
<1>5. After(a[1], a[2]) = <<s, w>>
  BY <1>1, <1>3, <1>4, Zenon
<1>6. Reaches(a, After(a[1], a[2]))
  BY <1>1, <1>2, ReachesNext
<1> QED BY <1>5, <1>6, Zenon
-----------------------------------------------------------------------------
(* Turns that change no value *)

LEMMA PointState ==
  ASSUME NEW c, NEW a, NEW e
  PROVE  /\ State(Point(c, a), e) = <<Stack(c, e), Value(a, e)>>
         /\ Applies(Point(c, a), e) <=> StackHolds(c, e) /\ Has(a, e)
  BY DEF State, Conf, Applies, Point

LEMMA ImmValue ==
  ASSUME NEW e, NEW v
  PROVE  Value(Imm(v), e) = v /\ Has(Imm(v), e)
  BY DEF Value, Imm, Has, IsLocal

LEMMA TurnsSame == ASSUME NEW p PROVE Turns(p, p)
  BY ReachesSame DEF Turns

LEMMA TurnsThrough ==
  ASSUME NEW p, NEW q, NEW r, Turns(p, q), Turns(q, r)
  PROVE  Turns(p, r)
<1>1. ASSUME NEW e, Applies(p, e) PROVE Applies(r, e) /\ Reaches(State(p, e), State(r, e))
  <2>1. Applies(q, e) /\ Reaches(State(p, e), State(q, e))
    BY <1>1 DEF Turns
  <2>2. Applies(r, e) /\ Reaches(State(q, e), State(r, e))
    BY <2>1 DEF Turns
  <2> QED BY <2>1, <2>2, ReachesThrough
<1> QED BY <1>1 DEF Turns

LEMMA TurnIf ==
  ASSUME NEW m \in Marks, Moving(m), NEW r \in Seq(Marks), NEW a, NEW c, NEW b,
         \A e : Applies(Point(Cons(m, r), a), e) =>
           /\ Applies(Point(c, b), e)
           /\ \E n : /\ Step(Concrete(m, e), Value(a, e)) = Becomes(n, Value(b, e))
                     /\ n \o Stack(r, e) = Stack(c, e)
  PROVE  Turns(Point(Cons(m, r), a), Point(c, b))
<1> SUFFICES ASSUME NEW e, Applies(Point(Cons(m, r), a), e)
             PROVE  /\ Applies(Point(c, b), e)
                    /\ Reaches(State(Point(Cons(m, r), a), e), State(Point(c, b), e))
  BY DEF Turns
<1>1. PICK n : /\ Step(Concrete(m, e), Value(a, e)) = Becomes(n, Value(b, e))
               /\ n \o Stack(r, e) = Stack(c, e)
  BY Zenon
<1>2. Reaches(<<Stack(Cons(m, r), e), Value(a, e)>>, <<Stack(c, e), Value(b, e)>>)
  BY <1>1, OneStep, Zenon
<1> QED BY <1>2, PointState

\* A part that holds no operand.
Steady(m, f) == \A e : Concrete(m, e) = f /\ MarkHolds(m, e)

LEMMA PlainSteady ==
  ASSUME NEW m, m.at \notin {"Assign", "Bool", "Index", "Place"}
  PROVE  Steady(m, m)
  BY ConcreteAt DEF Steady, MarkHolds

LEMMA VarSteady ==
  ASSUME NEW n
  PROVE  Steady(Todo("Assign", Var(n)), Todo("Assign", Variable))
<1>1. ~ IsLocal(Var(n)) /\ \A e : Value(Var(n), e) = Variable
  BY DEF IsLocal, Var, Value
<1> QED BY <1>1, ConcreteAt DEF Steady, MarkHolds, Todo, Has

LEMMA TurnAway ==
  ASSUME NEW m \in Marks, Moving(m), NEW r \in Seq(Marks), NEW a, NEW w,
         \A e : Step(Concrete(m, e), Value(a, e)) = Becomes(<<>>, w)
  PROVE  Turns(Point(Cons(m, r), a), Point(r, Imm(w)))
<1>1. ASSUME NEW e, Applies(Point(Cons(m, r), a), e)
      PROVE  /\ Applies(Point(r, Imm(w)), e)
             /\ \E n : /\ Step(Concrete(m, e), Value(a, e)) = Becomes(n, Value(Imm(w), e))
                       /\ n \o Stack(r, e) = Stack(r, e)
  <2>1. Applies(Point(r, Imm(w)), e)
    BY <1>1, PointState, HoldsCons, ImmValue
  <2>2. <<>> \o Stack(r, e) = Stack(r, e)
    BY StackNone
  <2> QED BY <2>1, <2>2, ImmValue, Zenon
<1> QED BY <1>1, TurnIf

LEMMA TurnInto ==
  ASSUME NEW m \in Marks, Moving(m), NEW r \in Seq(Marks), NEW a,
         NEW g \in Marks, NEW f, Steady(g, f),
         \A e : Step(Concrete(m, e), Value(a, e)) = Becomes(<<f>>, 0)
  PROVE  Turns(Point(Cons(m, r), a), Point(Cons(g, r), Imm(0)))
<1>1. ASSUME NEW e, Applies(Point(Cons(m, r), a), e)
      PROVE  /\ Applies(Point(Cons(g, r), Imm(0)), e)
             /\ \E n : /\ Step(Concrete(m, e), Value(a, e)) = Becomes(n, Value(Imm(0), e))
                       /\ n \o Stack(r, e) = Stack(Cons(g, r), e)
  <2>1. Concrete(g, e) = f /\ MarkHolds(g, e)
    BY DEF Steady
  <2>2. Applies(Point(Cons(g, r), Imm(0)), e)
    BY <1>1, <2>1, PointState, HoldsCons, ImmValue
  <2>3. <<f>> \o Stack(r, e) = Stack(Cons(g, r), e)
    BY <2>1, StackOne
  <2> QED BY <2>2, <2>3, ImmValue, Zenon
<1> QED BY <1>1, TurnIf, Zenon

LEMMA TurnIntoTwo ==
  ASSUME NEW m \in Marks, Moving(m), NEW r \in Seq(Marks), NEW a,
         NEW g \in Marks, NEW f, Steady(g, f), NEW h \in Marks, NEW k, Steady(h, k),
         \A e : Step(Concrete(m, e), Value(a, e)) = Becomes(<<f, k>>, 0)
  PROVE  Turns(Point(Cons(m, r), a), Point(Cons(g, Cons(h, r)), Imm(0)))
<1>1. ASSUME NEW e, Applies(Point(Cons(m, r), a), e)
      PROVE  /\ Applies(Point(Cons(g, Cons(h, r)), Imm(0)), e)
             /\ \E n : /\ Step(Concrete(m, e), Value(a, e)) = Becomes(n, Value(Imm(0), e))
                       /\ n \o Stack(r, e) = Stack(Cons(g, Cons(h, r)), e)
  <2>1. Concrete(g, e) = f /\ MarkHolds(g, e) /\ Concrete(h, e) = k /\ MarkHolds(h, e)
    BY DEF Steady
  <2>2. StackHolds(Cons(h, r), e) /\ Cons(h, r) \in Seq(Marks)
    BY <1>1, <2>1, PointState, HoldsCons, ConsType
  <2>3. Applies(Point(Cons(g, Cons(h, r)), Imm(0)), e)
    BY <2>1, <2>2, PointState, HoldsCons, ImmValue
  <2>4. <<f, k>> \o Stack(r, e) = Stack(Cons(g, Cons(h, r)), e)
    BY <2>1, StackTwo
  <2> QED BY <2>3, <2>4, ImmValue, Zenon
<1> QED BY <1>1, TurnIf
-----------------------------------------------------------------------------
(* Trails *)

LEMMA FaithfulGrows ==
  ASSUME NEW it, NEW p, NEW q, NEW L, NEW M, Faithful(it, p, q, L), Extends(L, M)
  PROVE  Faithful(it, p, q, M)
<1>1. Range(it.to) \subseteq DOMAIN M
  BY DEF Faithful, Extends
<1>2. it.op = "label" /\ it.dst # Entry => it.dst \in DOMAIN M /\ p = M[it.dst]
  BY DEF Faithful, Extends
<1>3. it.op \in {"jump", "br"} => \A e : Chosen(it, e) \in Range(it.to)
  BY DEF Faithful
<1>4. ASSUME NEW e, it.op \in {"jump", "br"} PROVE M[Chosen(it, e)] = L[Chosen(it, e)]
  BY <1>3, <1>4 DEF Faithful, Extends
<1>5. ASSUME it.op \notin {"fun", "end"}, NEW e, Applies(p, e)
      PROVE  IF IsEvent(it) THEN AnswersEvent(it, p, q, e)
             ELSE KeepsState(it, p, IF it.op \in {"jump", "br"} THEN M[Chosen(it, e)] ELSE q, e)
  <2>1. IF IsEvent(it) THEN AnswersEvent(it, p, q, e)
        ELSE KeepsState(it, p, IF it.op \in {"jump", "br"} THEN L[Chosen(it, e)] ELSE q, e)
    BY <1>5, Zenon DEF Faithful
  <2> QED BY <1>4, <2>1
<1> QED BY <1>1, <1>2, <1>3, <1>5, Zenon DEF Faithful

LEMMA TrailGrows ==
  ASSUME NEW k, NEW L, NEW M, NEW s, NEW h, Trail(k, L, s, h), Extends(L, M)
  PROVE  Trail(k, M, s, h)
<1>1. PICK P : /\ P[2] = s /\ P[Len(k) + 1] = h
               /\ \A i \in 1 .. Len(k) : Faithful(k[i], P[i], P[i + 1], L)
  BY DEF Trail
<1>2. \A i \in 1 .. Len(k) : Faithful(k[i], P[i], P[i + 1], M)
  BY <1>1, FaithfulGrows
<1> QED BY <1>1, <1>2, Zenon DEF Trail

\* Behind an item the tree may move on.
LEMMA FaithfulTurns ==
  ASSUME NEW it, NEW p, NEW q, NEW r, NEW L, Faithful(it, p, q, L), Turns(q, r)
  PROVE  Faithful(it, p, r, L)
<1>1. ASSUME NEW e, NEW a, Applies(q, e), Reaches(a, State(q, e))
      PROVE  Applies(r, e) /\ Reaches(a, State(r, e))
  <2>1. Applies(r, e) /\ Reaches(State(q, e), State(r, e))
    BY <1>1 DEF Turns
  <2> QED BY <1>1, <2>1, ReachesThrough
<1>2. ASSUME NEW e, AnswersEvent(it, p, q, e) PROVE AnswersEvent(it, p, r, e)
  BY <1>1, <1>2, Zenon DEF AnswersEvent
<1>3. ASSUME NEW e, KeepsState(it, p, q, e) PROVE KeepsState(it, p, r, e)
  BY <1>1, <1>3 DEF KeepsState
<1>4. ASSUME it.op \notin {"fun", "end"}, NEW e, Applies(p, e)
      PROVE  IF IsEvent(it) THEN AnswersEvent(it, p, r, e)
             ELSE KeepsState(it, p, IF it.op \in {"jump", "br"} THEN L[Chosen(it, e)] ELSE r, e)
  <2>1. IF IsEvent(it) THEN AnswersEvent(it, p, q, e)
        ELSE KeepsState(it, p, IF it.op \in {"jump", "br"} THEN L[Chosen(it, e)] ELSE q, e)
    BY <1>4, Zenon DEF Faithful
  <2> QED BY <1>2, <1>3, <2>1
<1> QED BY <1>4, Zenon DEF Faithful

\* What is behind an item that is never passed does not matter.
LEMMA FaithfulAnyhow ==
  ASSUME NEW it, NEW p, NEW q, NEW r, NEW L, Faithful(it, p, q, L),
         it.op \in {"jump", "br", "ret", "end"}
  PROVE  Faithful(it, p, r, L)
<1>1. ASSUME it.op \notin {"fun", "end"}, NEW e, Applies(p, e)
      PROVE  IF IsEvent(it) THEN AnswersEvent(it, p, r, e)
             ELSE KeepsState(it, p, IF it.op \in {"jump", "br"} THEN L[Chosen(it, e)] ELSE r, e)
  <2>1. IF IsEvent(it) THEN AnswersEvent(it, p, q, e)
        ELSE KeepsState(it, p, IF it.op \in {"jump", "br"} THEN L[Chosen(it, e)] ELSE q, e)
    BY <1>1, Zenon DEF Faithful
  <2>2. CASE it.op \in {"jump", "br"}
    BY <2>1, <2>2 DEF IsEvent
  <2>3. CASE it.op = "ret"
    <3>1. AnswersEvent(it, p, q, e) /\ IsEvent(it)
      BY <2>1, <2>3 DEF IsEvent
    <3>2. it.op # "ins" /\ it.op # "store"
      BY <2>3
    <3>3. AnswersEvent(it, p, r, e)
      BY <3>1, <3>2 DEF AnswersEvent
    <3> QED BY <3>1, <3>3
  <2> QED BY <1>1, <2>2, <2>3
<1> QED BY <1>1, Zenon DEF Faithful

\* The point behind the last item is another one.
LEMMA TrailEnd ==
  ASSUME NEW k \in Seq(Items), NEW L, NEW s, NEW h, Trail(k, L, s, h), NEW r,
         \A p : Faithful(k[Len(k)], p, h, L) => Faithful(k[Len(k)], p, r, L)
  PROVE  Trail(k, L, s, r)
<1> PICK n : n = Len(k)
  OBVIOUS
<1>1. PICK P : /\ P[2] = s /\ P[n + 1] = h
               /\ \A i \in 1 .. n : Faithful(k[i], P[i], P[i + 1], L)
  BY DEF Trail
<1>2. n \in Nat /\ n >= 2
  BY DEF Trail
<1> DEFINE Q == [i \in 1 .. n + 1 |-> IF i = n + 1 THEN r ELSE P[i]]
<1>3. Q[2] = s /\ Q[n + 1] = r /\ \A i \in 1 .. n : Q[i] = P[i]
  BY <1>1, <1>2
<1> HIDE DEF Q
<1>4. ASSUME NEW i \in 1 .. n PROVE Faithful(k[i], Q[i], Q[i + 1], L)
  <2>1. CASE i = n
    BY <1>1, <1>2, <1>3, <2>1
  <2>2. CASE i # n
    <3>1. i + 1 \in 1 .. n
      BY <1>2, <2>2
    <3>2. Q[i] = P[i] /\ Q[i + 1] = P[i + 1] /\ Faithful(k[i], P[i], P[i + 1], L)
      BY <1>1, <1>3, <3>1
    <3> QED BY <3>2
  <2> QED BY <2>1, <2>2
<1> QED BY <1>2, <1>3, <1>4 DEF Trail

LEMMA TrailMove ==
  ASSUME NEW k \in Seq(Items), NEW L, NEW s, NEW h, Trail(k, L, s, h), NEW r, Turns(h, r)
  PROVE  Trail(k, L, s, r)
BY FaithfulTurns, TrailEnd

LEMMA TrailClosed ==
  ASSUME NEW k \in Seq(Items), NEW L, NEW s, NEW h, Trail(k, L, s, h),
         k[Len(k)].op \in {"jump", "br", "ret", "end"}
  PROVE  \A r : Trail(k, L, s, r)
BY FaithfulAnyhow, TrailEnd

\* One more item.
LEMMA TrailWrite ==
  ASSUME NEW k \in Seq(Items), NEW L, NEW s, NEW h, Trail(k, L, s, h),
         NEW it \in Items, NEW r, Faithful(it, h, r, L)
  PROVE  /\ k \o <<it>> \in Seq(Items) /\ Trail(k \o <<it>>, L, s, r)
         /\ (k \o <<it>>)[Len(k \o <<it>>)] = it
<1> PICK n, t : n = Len(k) /\ t = k \o <<it>>
  BY Zenon
<1>1. PICK P : /\ P[2] = s /\ P[n + 1] = h
               /\ \A i \in 1 .. n : Faithful(k[i], P[i], P[i + 1], L)
  BY DEF Trail
<1>2. n \in Nat /\ n >= 2
  BY DEF Trail
<1>3. t \in Seq(Items) /\ Len(t) = n + 1 /\ t[n + 1] = it /\ \A i \in 1 .. n : t[i] = k[i]
  <2>1. <<it>> \in Seq(Items) /\ Len(<<it>>) = 1 /\ <<it>>[1] = it
    OBVIOUS
  <2>2. /\ k \o <<it>> \in Seq(Items) /\ Len(k \o <<it>>) = Len(k) + Len(<<it>>)
        /\ \A i \in 1 .. Len(k) : (k \o <<it>>)[i] = k[i]
        /\ \A i \in 1 .. Len(<<it>>) : (k \o <<it>>)[Len(k) + i] = <<it>>[i]
    BY <2>1, Behind
  <2> QED BY <1>2, <2>1, <2>2
<1> DEFINE Q == [i \in 1 .. n + 2 |-> IF i = n + 2 THEN r ELSE P[i]]
<1>4. Q[2] = s /\ Q[n + 2] = r /\ \A i \in 1 .. n + 1 : Q[i] = P[i]
  BY <1>1, <1>2
<1> HIDE DEF Q
<1>5. ASSUME NEW i \in 1 .. n + 1 PROVE Faithful(t[i], Q[i], Q[i + 1], L)
  <2>1. CASE i = n + 1
    <3>1. i \in 1 .. n + 1 /\ i + 1 = n + 2
      BY <1>2, <2>1
    <3>2. Q[i] = h /\ Q[i + 1] = r /\ t[i] = it
      BY <1>1, <1>3, <1>4, <2>1, <3>1
    <3> QED BY <3>2
  <2>2. CASE i # n + 1
    <3>1. i \in 1 .. n /\ i + 1 \in 1 .. n + 1
      BY <1>2, <2>2
    <3>2. Q[i] = P[i] /\ Q[i + 1] = P[i + 1] /\ t[i] = k[i] /\ Faithful(k[i], P[i], P[i + 1], L)
      BY <1>1, <1>3, <1>4, <3>1
    <3> QED BY <3>2
  <2> QED BY <2>1, <2>2
<1>6. Len(t) >= 2 /\ Len(t) + 1 = n + 2
  BY <1>2, <1>3
<1>7. Trail(t, L, s, r)
  BY <1>3, <1>4, <1>5, <1>6 DEF Trail
<1> QED BY <1>3, <1>7
-----------------------------------------------------------------------------
(* Control items *)

LEMMA FaithfulEnds ==
  ASSUME NEW p, NEW q, NEW L
  PROVE  Faithful(Fun, p, q, L) /\ Faithful(End, p, q, L)
BY Ranges DEF Faithful, Fun, End, Item

\* An item that is executed in silence, and leads to the next one.
LEMMA FaithfulSilent ==
  ASSUME NEW it, it.op \notin {"label", "jump", "br"}, it.to = <<>>, ~ IsEvent(it),
         NEW p, NEW q, NEW L, \A e : Applies(p, e) => KeepsState(it, p, q, e)
  PROVE  Faithful(it, p, q, L)
<1>1. Range(it.to) = {}
  BY Ranges
<1> QED BY <1>1 DEF Faithful

LEMMA FaithfulEvent ==
  ASSUME NEW it, it.op \notin {"label", "jump", "br"}, it.to = <<>>, IsEvent(it),
         NEW p, NEW q, NEW L, \A e : Applies(p, e) => AnswersEvent(it, p, q, e)
  PROVE  Faithful(it, p, q, L)
<1>1. Range(it.to) = {}
  BY Ranges
<1> QED BY <1>1 DEF Faithful

LEMMA FaithfulLabel ==
  ASSUME NEW l, NEW L, NEW p, l = Entry \/ AtLabel(L, l, p)
  PROVE  Faithful(Label(l), p, p, L)
<1> PICK it : it = Label(l)
  OBVIOUS
<1>1. it.op = "label" /\ it.dst = l /\ it.to = <<>> /\ it.args = <<>>
  BY DEF Label, Item
<1>2. ~ IsEvent(it) /\ Range(it.to) = {} /\ \A e : Written(it, e) = e
  BY <1>1, Ranges DEF IsEvent, Written
<1>3. \A e : Applies(p, e) => KeepsState(it, p, p, e)
  BY <1>2, ReachesSame DEF KeepsState
<1>4. it.op = "label" /\ it.dst # Entry => it.dst \in DOMAIN L /\ p = L[it.dst]
  BY <1>1 DEF AtLabel
<1>5. Faithful(it, p, p, L)
  BY <1>1, <1>2, <1>3, <1>4 DEF Faithful
<1> QED BY <1>5

LEMMA FaithfulJump ==
  ASSUME NEW l, NEW L, NEW p, NEW r, AtLabel(L, l, r), Turns(p, r), NEW q
  PROVE  Faithful(Jump(l), p, q, L)
<1> PICK it : it = Jump(l)
  OBVIOUS
<1>1. it.op = "jump" /\ it.to = <<l>>
  BY DEF Jump, Item
<1>2. ~ IsEvent(it) /\ Range(it.to) = {l} /\ \A e : Written(it, e) = e /\ Chosen(it, e) = l
  BY <1>1, Ranges DEF IsEvent, Written, Chosen
<1>3. \A e : Applies(p, e) => KeepsState(it, p, L[Chosen(it, e)], e)
  BY <1>2 DEF KeepsState, Turns, AtLabel
<1>4. Faithful(it, p, q, L)
  BY <1>1, <1>2, <1>3 DEF Faithful, AtLabel
<1> QED BY <1>4

LEMMA FaithfulBr ==
  ASSUME NEW a, NEW t, NEW f, NEW L, NEW p, NEW r, NEW u, AtLabel(L, t, r), AtLabel(L, f, u),
         \A e : Applies(p, e) /\ Value(a, e) # 0 =>
                  Applies(r, e) /\ Reaches(State(p, e), State(r, e)),
         \A e : Applies(p, e) /\ Value(a, e) = 0 =>
                  Applies(u, e) /\ Reaches(State(p, e), State(u, e)),
         NEW q
  PROVE  Faithful(Br(a, t, f), p, q, L)
<1> PICK it : it = Br(a, t, f)
  OBVIOUS
<1>1. it.op = "br" /\ it.to = <<t, f>> /\ it.args = <<a>> /\ it.args[1] = a
  BY DEF Br, Item
<1>2. /\ ~ IsEvent(it) /\ Range(it.to) = {t, f}
      /\ \A e : Written(it, e) = e /\ Chosen(it, e) = (IF Value(a, e) # 0 THEN t ELSE f)
  BY <1>1, Ranges DEF IsEvent, Written, Chosen
<1>3. ASSUME NEW e, Applies(p, e) PROVE KeepsState(it, p, L[Chosen(it, e)], e)
  BY <1>2, <1>3 DEF KeepsState, AtLabel
<1>4. Faithful(it, p, q, L)
  BY <1>1, <1>2, <1>3 DEF Faithful, AtLabel
<1> QED BY <1>4

LEMMA FaithfulAlloc ==
  ASSUME NEW x, NEW L, NEW p
  PROVE  Faithful(Alloc(x), p, p, L)
<1> PICK it : it = Alloc(x)
  OBVIOUS
<1>1. it.op = "alloc" /\ it.to = <<>>
  BY DEF Alloc, Item
<1>2. ~ IsEvent(it) /\ \A e : Written(it, e) = e
  BY <1>1 DEF IsEvent, Written
<1>3. \A e : Applies(p, e) => KeepsState(it, p, p, e)
  BY <1>2, ReachesSame DEF KeepsState
<1>4. Faithful(it, p, p, L)
  BY <1>1, <1>2, <1>3, FaithfulSilent
<1> QED BY <1>4

\* JoinText goes from p to what label opens, whether it writes the jump or not.
LEMMA TrailJoin ==
  ASSUME NEW k \in Seq(Items), NEW L, NEW s, NEW p, Trail(k, L, s, p),
         NEW is_ret \in BOOLEAN, is_ret => k[Len(k)].op = "ret",
         NEW to \in Labels, NEW label \in Labels, NEW r, AtLabel(L, to, p), AtLabel(L, label, r)
  PROVE  Trail(k \o JoinText(is_ret, to, label), L, s, r)
<1> PICK j, b : j = Jump(to) /\ b = Label(label)
  OBVIOUS
<1>1. j \in Items /\ b \in Items /\ j.op = "jump"
  BY ControlItems
<1>2. Faithful(b, r, r, L)
  BY FaithfulLabel
<1>3. CASE is_ret
  <2>1. Trail(k, L, s, r)
    BY <1>3, TrailClosed
  <2>2. Trail(k \o <<b>>, L, s, r)
    BY <1>1, <1>2, <2>1, TrailWrite
  <2> QED BY <1>3, <2>2 DEF JoinText
<1>4. CASE ~ is_ret
  <2> PICK t : t = k \o <<j>>
    BY Zenon
  <2>1. Faithful(j, p, p, L)
    BY TurnsSame, FaithfulJump, Zenon
  <2>2. t \in Seq(Items) /\ Trail(t, L, s, p) /\ t[Len(t)] = j
    BY <1>1, <2>1, TrailWrite
  <2>3. Trail(t, L, s, r)
    BY <1>1, <2>2, TrailClosed, Zenon
  <2>4. Trail(t \o <<b>>, L, s, r)
    BY <1>1, <1>2, <2>2, <2>3, TrailWrite, Zenon
  <2>5. t \o <<b>> = k \o <<j, b>>
    BY <1>1, TwoBehind
  <2> QED BY <1>4, <2>4, <2>5, Zenon DEF JoinText
<1> QED BY <1>3, <1>4
-----------------------------------------------------------------------------
(* Operands.  What the parts hold are registers that were defined before:  *)
(* writing a later register, or a temporary, does not change the state.    *)

Old(a, n) == a[1] = "imm" \/ (a[1] = "%" /\ a[2] < n)
Kept(f) == IF f.at = "Assign" /\ f.x[1] # "@" THEN {f.x}
           ELSE IF f.at = "Bool" THEN {f.x[2]}
           ELSE IF f.at = "Index" THEN Range(f.x.had)
           ELSE IF f.at = "Place" THEN Range(f.x.indices) ELSE {}
Sealed(c, n) == \A i \in 1 .. Len(c) : \A a \in Kept(c[i]) : Old(a, n)

\* A destination that none of the parts holds.
New(a, n) == a[1] = "%temp_l_result" \/ (a[1] = "%" /\ a[2] >= n)

LEMMA SealedCons ==
  ASSUME NEW f \in Marks, NEW c \in Seq(Marks), NEW n
  PROVE  Sealed(Cons(f, c), n) <=> (\A a \in Kept(f) : Old(a, n)) /\ Sealed(c, n)
<1> DEFINE S == {x \in Marks : \A a \in Kept(x) : Old(a, n)}
<1>1. /\ \A i \in 1 .. Len(c) : c[i] \in Marks
      /\ \A i \in 1 .. Len(Cons(f, c)) : Cons(f, c)[i] \in Marks
  BY ConsType
<1>2. (\A i \in 1 .. Len(Cons(f, c)) : Cons(f, c)[i] \in S)
        <=> f \in S /\ \A i \in 1 .. Len(c) : c[i] \in S
  BY ConsAll, Zenon
<1> QED BY <1>1, <1>2, Zenon DEF Sealed

LEMMA SealedEmpty == \A n : Sealed(<<>>, n)
<1>1. 1 .. Len(<<>>) = {}
  OBVIOUS
<1> QED BY <1>1 DEF Sealed

LEMMA OldGrows ==
  ASSUME NEW a \in Operands, NEW n \in Nat, NEW m \in Nat, n <= m, Old(a, n)
  PROVE  Old(a, m)
BY DEF Old, Operands

LEMMA KeptType ==
  ASSUME NEW f \in Marks
  PROVE  \A a \in Kept(f) : a \in Operands
<1>1. CASE f.at \in {"Index", "Place"}
  <2> PICK s : s = IF f.at = "Index" THEN f.x.had ELSE f.x.indices
    OBVIOUS
  <2>1. Kept(f) = Range(s)
    BY <1>1 DEF Kept
  <2>2. s \in Seq(Operands)
    BY <1>1 DEF Marks
  <2> QED BY <2>1, <2>2 DEF Range
<1>2. CASE f.at \notin {"Index", "Place"}
  BY <1>2 DEF Kept, Marks
<1> QED BY <1>1, <1>2

LEMMA SealedGrows ==
  ASSUME NEW c \in Seq(Marks), NEW n \in Nat, NEW m \in Nat, n <= m, Sealed(c, n)
  PROVE  Sealed(c, m)
<1>1. \A i \in 1 .. Len(c) : c[i] \in Marks
  OBVIOUS
<1>2. ASSUME NEW i \in 1 .. Len(c), NEW a \in Kept(c[i]) PROVE Old(a, m)
  <2>1. a \in Operands
    BY <1>1, KeptType
  <2>2. Old(a, n)
    BY DEF Sealed
  <2> QED BY <2>1, <2>2, OldGrows
<1> QED BY <1>2, Zenon DEF Sealed

LEMMA BindValue ==
  ASSUME NEW e, NEW d, NEW v
  PROVE  /\ \A a : a # d => (Has(a, e) => Has(a, Bind(e, d, v)))
         /\ \A a : a # d /\ Has(a, e) /\ (IsLocal(a) \/ a[1] = "imm") => Value(a, Bind(e, d, v)) = Value(a, e)
         /\ Has(d, Bind(e, d, v)) /\ (IsLocal(d) => Value(d, Bind(e, d, v)) = v)
BY DEF Has, Bind, Value, IsLocal

LEMMA Apart ==
  ASSUME NEW a \in Operands, NEW n \in Nat, Old(a, n), NEW d \in Operands, New(d, n)
  PROVE  a # d
BY DEF Old, New, Operands

LEMMA UnmovedMark ==
  ASSUME NEW f \in Marks, NEW n \in Nat, \A a \in Kept(f) : Old(a, n),
         NEW d \in Operands, New(d, n), NEW e, NEW v, MarkHolds(f, e)
  PROVE  MarkHolds(f, Bind(e, d, v)) /\ Concrete(f, Bind(e, d, v)) = Concrete(f, e)
<1>1. ASSUME NEW a \in Kept(f), Has(a, e)
      PROVE  Has(a, Bind(e, d, v)) /\ Value(a, Bind(e, d, v)) = Value(a, e)
  <2>1. a \in Operands /\ Old(a, n)
    BY KeptType
  <2>2. a # d
    BY <2>1, Apart
  <2>3. IsLocal(a) \/ a[1] = "imm"
    BY <2>1 DEF Old, IsLocal
  <2> QED BY <1>1, <2>2, <2>3, BindValue
<1>2. CASE f.at = "Assign" /\ f.x[1] = "@"
  <2>1. ~ IsLocal(f.x)
    BY <1>2 DEF IsLocal
  <2>2. \A w : Value(f.x, w) = Variable
    BY <1>2 DEF Value
  <2> QED BY <1>2, <2>1, <2>2, ConcreteAt DEF MarkHolds, Has
<1>3. CASE f.at = "Assign" /\ f.x[1] # "@"
  <2>1. f.x \in Kept(f) /\ Has(f.x, e)
    BY <1>3 DEF Kept, MarkHolds
  <2> QED BY <1>1, <1>3, <2>1, ConcreteAt DEF MarkHolds
<1>4. CASE f.at = "Bool"
  <2>1. f.x[2] \in Kept(f) /\ Has(f.x[2], e) /\ (f.x[1] = "lor" <=> Value(f.x[2], e) = 0)
    BY <1>4 DEF Kept, MarkHolds
  <2> QED BY <1>1, <1>4, <2>1, ConcreteAt DEF MarkHolds
<1>5. CASE f.at \notin {"Assign", "Bool", "Index", "Place"}
  BY <1>5, ConcreteAt DEF MarkHolds
<1>6. CASE f.at \in {"Index", "Place"}
  <2> PICK s, w : /\ s = (IF f.at = "Index" THEN f.x.had ELSE f.x.indices)
                  /\ w = Bind(e, d, v)
    OBVIOUS
  <2>1. Kept(f) = Range(s) /\ \A a \in Range(s) : Has(a, e)
    BY <1>6 DEF Kept, MarkHolds
  <2>2. \A a \in Range(s) : Has(a, w) /\ Value(a, w) = Value(a, e)
    BY <1>1, <2>1
  <2>3. s \in Seq(Operands)
    BY <1>6 DEF Marks
  <2>4. ValuesOf(s, w) = ValuesOf(s, e)
    BY <2>2, <2>3 DEF ValuesOf, Range
  <2>5. MarkHolds(f, w)
    BY <1>6, <2>2 DEF MarkHolds
  <2>6. Concrete(f, w) = Concrete(f, e)
    BY <1>6, <2>4, ConcretePlace, Zenon
  <2> QED BY <2>5, <2>6
<1> QED BY <1>2, <1>3, <1>4, <1>5, <1>6

LEMMA Unmoved ==
  ASSUME NEW c \in Seq(Marks), NEW n \in Nat, Sealed(c, n),
         NEW d \in Operands, New(d, n), NEW e, NEW v, StackHolds(c, e)
  PROVE  StackHolds(c, Bind(e, d, v)) /\ Stack(c, Bind(e, d, v)) = Stack(c, e)
<1>1. \A i \in 1 .. Len(c) : c[i] \in Marks
  OBVIOUS
<1>2. ASSUME NEW i \in 1 .. Len(c)
      PROVE  MarkHolds(c[i], Bind(e, d, v)) /\ Concrete(c[i], Bind(e, d, v)) = Concrete(c[i], e)
  <2>1. \A a \in Kept(c[i]) : Old(a, n)
    BY DEF Sealed
  <2>2. MarkHolds(c[i], e)
    BY DEF StackHolds
  <2> QED BY <1>1, <2>1, <2>2, UnmovedMark
<1> QED BY <1>2 DEF StackHolds, Stack
-----------------------------------------------------------------------------
(* Items that are executed *)

LEMMA MarkType ==
  /\ \A s \in Stmts : /\ StmtF(s) \in Marks /\ StmtF(s).at = "Stmt" /\ StmtF(s).stmt = s
                      /\ \A at \in {"If", "Loop", "Test"} : Todo(at, s) \in Marks
  /\ \A e \in Exps : /\ ExpF(e) \in Marks /\ ExpF(e).at = "Exp" /\ ExpF(e).exp = e
                     /\ Todo("Rest", e) \in Marks
  /\ \A b \in Blocks : BlockF(b) \in Marks /\ BlockF(b).at = "Block" /\ BlockF(b).items = b
  /\ \A a \in Operands : Todo("Assign", a) \in Marks
  /\ \A a \in Operands, tag \in {"lor", "land"} : Todo("Bool", <<tag, a>>) \in Marks
  /\ Todo("Return", 0) \in Marks /\ Todo("Drop", 0) \in Marks
  /\ \A at, x : Todo(at, x).at = at /\ Todo(at, x).x = x
<1>1. \A s \in Stmts : /\ StmtF(s) \in Marks /\ StmtF(s).at = "Stmt" /\ StmtF(s).stmt = s
                       /\ \A at \in {"If", "Loop", "Test"} : Todo(at, s) \in Marks
  BY DEF Marks, StmtF, Todo
<1>2. \A e \in Exps : /\ ExpF(e) \in Marks /\ ExpF(e).at = "Exp" /\ ExpF(e).exp = e
                      /\ Todo("Rest", e) \in Marks
  BY DEF Marks, ExpF, Todo
<1>3. \A b \in Blocks : BlockF(b) \in Marks /\ BlockF(b).at = "Block" /\ BlockF(b).items = b
  BY DEF Marks, BlockF
<1>4. /\ \A a \in Operands : Todo("Assign", a) \in Marks
      /\ \A a \in Operands, tag \in {"lor", "land"} : Todo("Bool", <<tag, a>>) \in Marks
  BY DEF Marks, Todo
<1>5. /\ Todo("Return", 0) \in Marks /\ Todo("Drop", 0) \in Marks
      /\ \A at, x : Todo(at, x).at = at /\ Todo(at, x).x = x
  BY DEF Marks, Todo
<1> QED BY <1>1, <1>2, <1>3, <1>4, <1>5

LEMMA PlaceType ==
  ASSUME NEW e \in Exps
  PROVE  /\ \A left \in Seq(Exps), had \in Seq(Operands) : \A s : s.pointer \in BOOLEAN /\ s.exp = e =>
              Todo("Index", Indexed(left, had, s)) \in Marks
         /\ \A indices \in Seq(Operands) :
              Todo("Place", Sought(indices, e)) \in Marks
BY DEF Marks, Todo, Indexed, Sought

\* The tree at an event.
Eventful(m) == \/ m.at \in {"Assign", "Return"}
               \/ m.at = "Exp" /\ m.exp.tag = "ins"
               \/ m.at = "Stmt" /\ m.stmt.tag = 10
LEMMA StackEvent ==
  ASSUME NEW m \in Marks, NEW r \in Seq(Marks), NEW e, NEW v, Eventful(m)
  PROVE  /\ AtEvent(Stack(Cons(m, r), e)) /\ Tail(Stack(Cons(m, r), e)) = Stack(r, e)
         /\ m.at = "Exp" => SourceEvent(Stack(Cons(m, r), e), v) = <<"eval", m.exp.name, 0>>
         /\ m.at = "Assign" => SourceEvent(Stack(Cons(m, r), e), v)
              = <<"store", v, Value(m.x, e)>>
         /\ m.at = "Return" => SourceEvent(Stack(Cons(m, r), e), v) = <<"ret", v, 0>>
         /\ m.at = "Stmt" => SourceEvent(Stack(Cons(m, r), e), v) = <<"ret", NoValue, 0>>
<1> PICK t, f : t = Stack(Cons(m, r), e) /\ f = Concrete(m, e)
  OBVIOUS
<1>1. t # <<>> /\ Head(t) = f /\ Tail(t) = Stack(r, e)
  BY StackCons
<1>2. f.at = m.at /\ m.at # "Bool"
  BY ConcreteAt DEF Eventful
<1>3. CASE m.at = "Assign"
  <2>1. f.x = Value(m.x, e)
    BY <1>3, ConcreteAt, MarkType
  <2>2. AtEvent(t)
    BY <1>1, <1>2, <1>3 DEF AtEvent, Eventful
  <2>3. SourceEvent(t, v) = <<"store", v, f.x>>
    BY <1>1, <1>2, <1>3 DEF SourceEvent
  <2> QED BY <1>1, <1>3, <2>1, <2>2, <2>3
<1>4. CASE m.at # "Assign"
  <2>1. f = m
    BY <1>2, <1>4, ConcreteAt DEF Eventful
  <2>2. AtEvent(t)
    BY <1>1, <2>1 DEF AtEvent, Eventful
  <2>3. CASE m.at = "Exp"
    <3>1. SourceEvent(t, v) = <<"eval", m.exp.name, 0>>
      BY <1>1, <2>1, <2>3 DEF SourceEvent
    <3> QED BY <1>1, <2>2, <2>3, <3>1
  <2>4. CASE m.at = "Return"
    <3>1. SourceEvent(t, v) = <<"ret", v, 0>>
      BY <1>1, <2>1, <2>4 DEF SourceEvent
    <3> QED BY <1>1, <2>2, <2>4, <3>1
  <2>5. CASE m.at = "Stmt"
    <3>1. SourceEvent(t, v) = <<"ret", NoValue, 0>>
      BY <1>1, <2>1, <2>5 DEF SourceEvent
    <3> QED BY <1>1, <2>2, <2>5, <3>1
  <2> QED BY <1>4, <2>3, <2>4, <2>5 DEF Eventful
<1> QED BY <1>3, <1>4

LEMMA FaithfulLeaf ==
  ASSUME NEW x \in Exps, x.tag = "ins", NEW r \in Seq(Marks), NEW n \in Nat, Sealed(r, n),
         NEW a, NEW L
  PROVE  Faithful(Ins("ins", Reg(n), <<<<"leaf", x.name>>>>), Point(Cons(ExpF(x), r), a),
                  Point(r, Reg(n)), L)
<1> PICK it, p, q, d : /\ it = Ins("ins", Reg(n), <<<<"leaf", x.name>>>>)
                       /\ p = Point(Cons(ExpF(x), r), a) /\ q = Point(r, Reg(n)) /\ d = Reg(n)
  OBVIOUS
<1>1. it.op = "ins" /\ it.to = <<>> /\ it.dst = d /\ it.args[1][2] = x.name /\ IsEvent(it)
  BY DEF Ins, Item, IsEvent
<1>2. ExpF(x) \in Marks /\ ExpF(x).at = "Exp" /\ ExpF(x).exp = x /\ Eventful(ExpF(x))
  BY MarkType DEF Eventful
<1>3. d \in Operands /\ New(d, n) /\ IsLocal(d)
  BY DEF New, Reg, Operands, IsLocal
<1>4. ASSUME NEW e, Applies(p, e) PROVE AnswersEvent(it, p, q, e)
  <2> PICK s, t : s = State(p, e) /\ t = Stack(Cons(ExpF(x), r), e)
    OBVIOUS
  <2>1. s[1] = t /\ StackHolds(r, e)
    BY <1>2, <1>4, PointState, HoldsCons
  <2>2. AtEvent(t) /\ Tail(t) = Stack(r, e) /\ SourceEvent(t, s[2]) = <<"eval", x.name, 0>>
    BY <1>2, StackEvent
  <2>3. EventOf(it, e) = <<"eval", x.name, 0>>
    BY <1>1 DEF EventOf
  <2>4. ASSUME NEW v PROVE /\ Applies(q, Bind(e, d, v)) /\ <<Tail(t), v>> = State(q, Bind(e, d, v))
    <3>1. StackHolds(r, Bind(e, d, v)) /\ Stack(r, Bind(e, d, v)) = Stack(r, e)
      BY <1>3, <2>1, Unmoved
    <3>2. Has(d, Bind(e, d, v)) /\ Value(d, Bind(e, d, v)) = v
      BY <1>3, BindValue
    <3> QED BY <2>2, <3>1, <3>2, PointState
  <2>5. \A v : /\ Applies(q, Bind(e, d, v))
               /\ Reaches(<<Tail(s[1]), v>>, State(q, Bind(e, d, v)))
    BY <2>1, <2>4, ReachesSame, Zenon
  <2>6. Reaches(State(p, e), s)
    BY ReachesSame
  <2> QED BY <1>1, <2>1, <2>2, <2>3, <2>5, <2>6, Zenon DEF AnswersEvent
<1>5. Faithful(it, p, q, L)
  BY <1>1, <1>4, FaithfulEvent
<1> QED BY <1>5

LEMMA FaithfulStore ==
  ASSUME NEW d \in Operands, d[1] # "%temp_l_result", NEW r \in Seq(Marks), NEW a, NEW L
  PROVE  Faithful(Store(a, d), Point(Cons(Todo("Assign", d), r), a), Point(r, Imm(0)), L)
<1> PICK it, p, q, m : /\ it = Store(a, d) /\ m = Todo("Assign", d)
                       /\ p = Point(Cons(m, r), a) /\ q = Point(r, Imm(0))
  OBVIOUS
<1>1. /\ it.op = "store" /\ it.to = <<>> /\ it.args[1] = a /\ it.args[2] = d /\ IsEvent(it)
  BY DEF Store, Item, IsEvent
<1>2. m \in Marks /\ m.at = "Assign" /\ m.x = d /\ Eventful(m)
  BY MarkType DEF Eventful
<1>3. ASSUME NEW e, Applies(p, e) PROVE AnswersEvent(it, p, q, e)
  <2> PICK s, t, w : /\ s = State(p, e) /\ t = Stack(Cons(m, r), e)
                     /\ w = <<"store", Value(a, e), Value(d, e)>>
    BY Zenon
  <2>1. s[1] = t /\ s[2] = Value(a, e) /\ StackHolds(r, e)
    BY <1>2, <1>3, PointState, HoldsCons
  <2>2. AtEvent(t) /\ Tail(t) = Stack(r, e) /\ SourceEvent(t, s[2]) = w
    BY <1>2, <2>1, StackEvent, SMTT(30)
  <2>3. EventOf(it, e) = w
    BY <1>1 DEF EventOf
  <2>4. Applies(q, e) /\ <<Tail(t), 0>> = State(q, e)
    BY <2>1, <2>2, PointState, ImmValue
  <2>5. Reaches(<<Tail(s[1]), 0>>, State(q, e)) /\ Reaches(State(p, e), s)
    BY <2>1, <2>4, ReachesSame, Zenon
  <2> QED BY <1>1, <2>1, <2>2, <2>3, <2>4, <2>5, Zenon DEF AnswersEvent
<1>4. Faithful(it, p, q, L)
  BY <1>1, <1>3, FaithfulEvent
<1> QED BY <1>4

LEMMA FaithfulRet ==
  ASSUME NEW args, NEW p, NEW q, NEW L,
         \A e : Applies(p, e) =>
           /\ AtEvent(State(p, e)[1])
           /\ SourceEvent(State(p, e)[1], State(p, e)[2])
                = <<"ret", IF args = <<>> THEN NoValue ELSE Value(args[1], e), 0>>
  PROVE  Faithful(Ret(args), p, q, L)
<1> PICK it : it = Ret(args)
  OBVIOUS
<1>1. it.op = "ret" /\ it.to = <<>> /\ it.args = args /\ IsEvent(it)
  BY DEF Ret, Item, IsEvent
<1>2. ASSUME NEW e, Applies(p, e) PROVE AnswersEvent(it, p, q, e)
  <2>1. EventOf(it, e) = <<"ret", IF args = <<>> THEN NoValue ELSE Value(args[1], e), 0>>
    BY <1>1 DEF EventOf
  <2>2. Reaches(State(p, e), State(p, e)) /\ it.op # "ins" /\ it.op # "store"
    BY <1>1, ReachesSame
  <2> QED BY <1>2, <2>1, <2>2 DEF AnswersEvent
<1>3. Faithful(it, p, q, L)
  BY <1>1, <1>2, FaithfulEvent
<1> QED BY <1>3

LEMMA FaithfulReturn ==
  ASSUME NEW r \in Seq(Marks), NEW a, NEW q, NEW L
  PROVE  /\ Faithful(Ret(<<a>>), Point(Cons(Todo("Return", 0), r), a), q, L)
         /\ Faithful(Ret(<<>>), Point(<<>>, a), q, L)
         /\ \A s \in Stmts : s.tag = 10 => Faithful(Ret(<<>>), Point(Cons(StmtF(s), r), a), q, L)
<1>1. Faithful(Ret(<<a>>), Point(Cons(Todo("Return", 0), r), a), q, L)
  <2> PICK m, p : m = Todo("Return", 0) /\ p = Point(Cons(m, r), a)
    OBVIOUS
  <2>1. m \in Marks /\ m.at = "Return" /\ <<a>> # <<>> /\ <<a>>[1] = a /\ Eventful(m)
    BY MarkType DEF Eventful
  <2>2. ASSUME NEW e
        PROVE  /\ AtEvent(State(p, e)[1])
               /\ SourceEvent(State(p, e)[1], State(p, e)[2]) = <<"ret", Value(a, e), 0>>
    <3>1. State(p, e)[1] = Stack(Cons(m, r), e) /\ State(p, e)[2] = Value(a, e)
      BY PointState
    <3> QED BY <2>1, <3>1, StackEvent
  <2> QED BY <2>1, <2>2, FaithfulRet
<1>2. Faithful(Ret(<<>>), Point(<<>>, a), q, L)
  <2>1. ASSUME NEW e
        PROVE  /\ AtEvent(State(Point(<<>>, a), e)[1])
               /\ SourceEvent(State(Point(<<>>, a), e)[1], State(Point(<<>>, a), e)[2])
                    = <<"ret", NoValue, 0>>
    <3>1. State(Point(<<>>, a), e)[1] = <<>>
      BY PointState, EmptyStack
    <3> QED BY <3>1 DEF AtEvent, SourceEvent
  <2> QED BY <2>1, FaithfulRet
<1>3. ASSUME NEW s \in Stmts, s.tag = 10 PROVE Faithful(Ret(<<>>), Point(Cons(StmtF(s), r), a), q, L)
  <2> PICK m, p : m = StmtF(s) /\ p = Point(Cons(m, r), a)
    OBVIOUS
  <2>1. m \in Marks /\ m.at = "Stmt" /\ m.stmt.tag = 10 /\ Eventful(m)
    BY <1>3, MarkType DEF Eventful
  <2>2. ASSUME NEW e
        PROVE  /\ AtEvent(State(p, e)[1])
               /\ SourceEvent(State(p, e)[1], State(p, e)[2]) = <<"ret", NoValue, 0>>
    <3>1. State(p, e)[1] = Stack(Cons(m, r), e)
      BY PointState
    <3> PICK v, u : v = State(p, e)[2] /\ u = Stack(Cons(m, r), e)
      OBVIOUS
    <3>2. AtEvent(u) /\ SourceEvent(u, v) = <<"ret", NoValue, 0>>
      BY <2>1, StackEvent
    <3> QED BY <3>1, <3>2
  <2> QED BY <2>2, FaithfulRet
<1> QED BY <1>1, <1>2, <1>3
-----------------------------------------------------------------------------
(* The silent steps of the tree, one by one *)

LEMMA StepOf ==
  ASSUME NEW f, NEW v
  PROVE  /\ f.at = "Exp" => Step(f, v) = ExpStep(f.exp)
         /\ f.at = "Rest" => Step(f, v) = RestStep(f.x, v)
         /\ f.at = "Bool" => Step(f, v) = Becomes(<<>>, Truth(v # 0))
         /\ f.at = "Index" => Step(f, v) = IndexStep(f.x, v)
         /\ f.at = "Place" => Step(f, v) = PlaceStep(f.x, v)
         /\ f.at = "Drop" => Step(f, v) = Becomes(<<>>, 0)
         /\ f.at = "Stmt" => Step(f, v) = StmtStep(f.stmt)
         /\ f.at = "Loop" => Step(f, v) = Becomes(<<ExpF(f.x.exp), Todo("Test", f.x)>>, 0)
         /\ f.at = "Block" => Step(f, v) = BlockStep(f.items)
BY DEF Step

LEMMA StepIf ==
  ASSUME NEW f, NEW s, f.x = s, f.at = "If", NEW v
  PROVE  /\ v # 0 /\ s.tag = 4 => Step(f, v) = Becomes(<<StmtF(s.stmt)>>, 0)
         /\ v # 0 /\ s.tag = 5 => Step(f, v) = Becomes(<<StmtF(s.stmt_if)>>, 0)
         /\ v = 0 /\ s.tag = 4 => Step(f, v) = Becomes(<<>>, 0)
         /\ v = 0 /\ s.tag = 5 => Step(f, v) = Becomes(<<StmtF(s.stmt_else)>>, 0)
BY DEF Step

LEMMA StepTest ==
  ASSUME NEW f, NEW s, f.x = s, f.at = "Test", NEW v
  PROVE  /\ v # 0 => Step(f, v) = Becomes(<<StmtF(s.stmt), Todo("Loop", s)>>, 0)
         /\ v = 0 => Step(f, v) = Becomes(<<>>, 0)
BY DEF Step

LEMMA StepStmt ==
  ASSUME NEW s
  PROVE  /\ s.tag = 0 /\ s.l_val = <<>> => StmtStep(s) = Becomes(<<ExpF(s.exp), Todo("Assign", Variable)>>, 0)
         /\ s.tag = 0 /\ s.l_val # <<>> =>
              StmtStep(s) = Becomes(<<ExpF(Head(s.l_val)),
                                      Todo("Index", Indexed(Tail(s.l_val), <<>>, s))>>, 0)
         /\ s.tag = 1 => StmtStep(s) = Becomes(<<>>, 0)
         /\ s.tag = 2 => StmtStep(s) = Becomes(<<ExpF(s.exp), Todo("Drop", 0)>>, 0)
         /\ s.tag = 3 => StmtStep(s) = Becomes(<<BlockF(s.block)>>, 0)
         /\ s.tag \in {4, 5} => StmtStep(s) = Becomes(<<ExpF(s.exp), Todo("If", s)>>, 0)
         /\ s.tag = 6 => StmtStep(s) = Becomes(<<Todo("Loop", s)>>, 0)
         /\ s.tag = 9 => StmtStep(s) = Becomes(<<ExpF(s.exp), Todo("Return", 0)>>, 0)
BY DEF StmtStep

LEMMA Plain ==
  /\ \A s : Steady(StmtF(s), StmtF(s)) /\ Steady(Todo("If", s), Todo("If", s))
            /\ Steady(Todo("Loop", s), Todo("Loop", s)) /\ Steady(Todo("Test", s), Todo("Test", s))
  /\ \A e : Steady(ExpF(e), ExpF(e)) /\ Steady(Todo("Rest", e), Todo("Rest", e))
  /\ \A b : Steady(BlockF(b), BlockF(b))
  /\ Steady(Todo("Return", 0), Todo("Return", 0)) /\ Steady(Todo("Drop", 0), Todo("Drop", 0))
BY PlainSteady DEF StmtF, ExpF, BlockF, Todo

LEMMA PlainStep ==
  ASSUME NEW m, NEW f, Steady(m, f), NEW a
  PROVE  \A e : Step(Concrete(m, e), Value(a, e)) = Step(f, Value(a, e))
BY DEF Steady

LEMMA TurnNum ==
  ASSUME NEW x \in Exps, x.tag = "num", NEW r \in Seq(Marks), NEW a
  PROVE  Turns(Point(Cons(ExpF(x), r), a), Point(r, Imm(x.val)))
<1> PICK m : m = ExpF(x)
  OBVIOUS
<1>1. m \in Marks /\ m.at = "Exp" /\ m.exp = x /\ Moving(m) /\ Steady(m, m)
  BY MarkType, Plain DEF Moving
<1>2. \A v : Step(m, v) = Becomes(<<>>, x.val)
  BY <1>1, StepOf, Zenon DEF ExpStep
<1>3. \A e : Step(Concrete(m, e), Value(a, e)) = Becomes(<<>>, x.val)
  BY <1>1, <1>2, PlainStep
<1>4. Turns(Point(Cons(m, r), a), Point(r, Imm(x.val)))
  BY <1>1, <1>3, TurnAway
<1> QED BY <1>4

LEMMA TurnDrop ==
  ASSUME NEW r \in Seq(Marks), NEW a
  PROVE  Turns(Point(Cons(Todo("Drop", 0), r), a), Point(r, Imm(0)))
<1> PICK m : m = Todo("Drop", 0)
  OBVIOUS
<1>1. m \in Marks /\ m.at = "Drop" /\ Moving(m) /\ Steady(m, m)
  BY MarkType, Plain DEF Moving
<1>2. \A v : Step(m, v) = Becomes(<<>>, 0)
  BY <1>1, StepOf, Zenon
<1>3. \A e : Step(Concrete(m, e), Value(a, e)) = Becomes(<<>>, 0)
  BY <1>1, <1>2, PlainStep
<1>4. Turns(Point(Cons(m, r), a), Point(r, Imm(0)))
  BY <1>1, <1>3, TurnAway
<1> QED BY <1>4

LEMMA TurnLogic ==
  ASSUME NEW x \in Exps, x.tag \in {"lor", "land"}, NEW r \in Seq(Marks), NEW a
  PROVE  /\ x.lhs \in Exps /\ x.rhs \in Exps
         /\ Turns(Point(Cons(ExpF(x), r), a), Point(Cons(ExpF(x.lhs), Cons(Todo("Rest", x), r)), Imm(0)))
<1> PICK m, g, h : m = ExpF(x) /\ g = ExpF(x.lhs) /\ h = Todo("Rest", x)
  OBVIOUS
<1>0. x.lhs \in Exps /\ x.rhs \in Exps
  BY Grammar DEF GrammarExp
<1>1. m \in Marks /\ m.at = "Exp" /\ m.exp = x /\ Moving(m) /\ Steady(m, m)
  BY MarkType, Plain DEF Moving
<1>2. g \in Marks /\ Steady(g, g) /\ h \in Marks /\ Steady(h, h)
  BY <1>0, MarkType, Plain
<1>3. \A v : Step(m, v) = Becomes(<<g, h>>, 0)
  BY <1>1, StepOf, Zenon DEF ExpStep
<1>4. \A e : Step(Concrete(m, e), Value(a, e)) = Becomes(<<g, h>>, 0)
  BY <1>1, <1>3, PlainStep
<1>5. Turns(Point(Cons(m, r), a), Point(Cons(g, Cons(h, r)), Imm(0)))
  BY <1>1, <1>2, <1>4, TurnIntoTwo
<1> QED BY <1>0, <1>5

LEMMA TurnLoop ==
  ASSUME NEW s \in Stmts, s.tag = 6, NEW r \in Seq(Marks), NEW a
  PROVE  /\ s.exp \in Exps /\ s.stmt \in Stmts
         /\ Turns(Point(Cons(Todo("Loop", s), r), a), Point(Cons(ExpF(s.exp), Cons(Todo("Test", s), r)), Imm(0)))
<1> PICK m, g, h : m = Todo("Loop", s) /\ g = ExpF(s.exp) /\ h = Todo("Test", s)
  OBVIOUS
<1>0. s.exp \in Exps /\ s.stmt \in Stmts
  BY Grammar DEF GrammarStmt
<1>1. m \in Marks /\ m.at = "Loop" /\ m.x = s /\ Moving(m) /\ Steady(m, m)
  BY MarkType, Plain DEF Moving
<1>2. g \in Marks /\ Steady(g, g) /\ h \in Marks /\ Steady(h, h)
  BY <1>0, MarkType, Plain
<1>3. \A v : Step(m, v) = Becomes(<<g, h>>, 0)
  BY <1>1, StepOf, Zenon
<1>4. \A e : Step(Concrete(m, e), Value(a, e)) = Becomes(<<g, h>>, 0)
  BY <1>1, <1>3, PlainStep
<1>5. Turns(Point(Cons(m, r), a), Point(Cons(g, Cons(h, r)), Imm(0)))
  BY <1>1, <1>2, <1>4, TurnIntoTwo
<1> QED BY <1>0, <1>5

LEMMA StmtTurns ==
  ASSUME NEW s \in Stmts, s.tag \notin {7, 8, 10}, NEW r \in Seq(Marks), NEW a
  PROVE  /\ StmtStep(s) = Becomes(<<>>, 0) => Turns(Point(Cons(StmtF(s), r), a), Point(r, Imm(0)))
         /\ \A g \in Marks : \A f : Steady(g, f) /\ StmtStep(s) = Becomes(<<f>>, 0) =>
              Turns(Point(Cons(StmtF(s), r), a), Point(Cons(g, r), Imm(0)))
         /\ \A g, h \in Marks : \A f, k :
              Steady(g, f) /\ Steady(h, k) /\ StmtStep(s) = Becomes(<<f, k>>, 0) =>
                Turns(Point(Cons(StmtF(s), r), a), Point(Cons(g, Cons(h, r)), Imm(0)))
<1> PICK m : m = StmtF(s)
  OBVIOUS
<1>1. m \in Marks /\ m.at = "Stmt" /\ m.stmt = s /\ Moving(m) /\ Steady(m, m)
  BY MarkType, Plain DEF Moving
<1>2. \A v : Step(m, v) = StmtStep(s)
  BY <1>1, StepOf, Zenon
<1>3. \A e : Step(Concrete(m, e), Value(a, e)) = StmtStep(s)
  BY <1>1, <1>2, PlainStep
<1>4. ASSUME StmtStep(s) = Becomes(<<>>, 0) PROVE Turns(Point(Cons(m, r), a), Point(r, Imm(0)))
  BY <1>1, <1>3, <1>4, TurnAway
<1>5. ASSUME NEW g \in Marks, NEW f, Steady(g, f), StmtStep(s) = Becomes(<<f>>, 0)
      PROVE  Turns(Point(Cons(m, r), a), Point(Cons(g, r), Imm(0)))
  BY <1>1, <1>3, <1>5, TurnInto
<1>6. ASSUME NEW g \in Marks, NEW f, NEW h \in Marks, NEW k, Steady(g, f), Steady(h, k),
             StmtStep(s) = Becomes(<<f, k>>, 0)
      PROVE  Turns(Point(Cons(m, r), a), Point(Cons(g, Cons(h, r)), Imm(0)))
  BY <1>1, <1>3, <1>6, TurnIntoTwo
<1> QED BY <1>4, <1>5, <1>6

LEMMA TurnNested ==
  ASSUME NEW s \in Stmts, NEW r \in Seq(Marks), NEW a
  PROVE  /\ s.tag = 1 => Turns(Point(Cons(StmtF(s), r), a), Point(r, Imm(0)))
         /\ s.tag = 2 => /\ s.exp \in Exps
                         /\ Turns(Point(Cons(StmtF(s), r), a),
                                  Point(Cons(ExpF(s.exp), Cons(Todo("Drop", 0), r)), Imm(0)))
         /\ s.tag = 3 => /\ s.block \in Blocks
                         /\ Turns(Point(Cons(StmtF(s), r), a), Point(Cons(BlockF(s.block), r), Imm(0)))
         /\ s.tag = 6 => Turns(Point(Cons(StmtF(s), r), a), Point(Cons(Todo("Loop", s), r), Imm(0)))
<1>1. /\ s.tag = 2 => s.exp \in Exps
      /\ s.tag = 3 => s.block \in Blocks
  BY Grammar DEF GrammarStmt
<1>2. CASE s.tag = 1
  <2>1. StmtStep(s) = Becomes(<<>>, 0)
    BY <1>2, StepStmt, Zenon
  <2>2. Turns(Point(Cons(StmtF(s), r), a), Point(r, Imm(0)))
    BY <1>2, <2>1, StmtTurns
  <2> QED BY <1>2, <2>2
<1>3. CASE s.tag = 2
  <2> PICK g, h : g = ExpF(s.exp) /\ h = Todo("Drop", 0)
    OBVIOUS
  <2>1. g \in Marks /\ Steady(g, g) /\ h \in Marks /\ Steady(h, h)
    BY <1>1, <1>3, MarkType, Plain
  <2>2. StmtStep(s) = Becomes(<<g, h>>, 0)
    BY <1>3, StepStmt, Zenon
  <2>3. Turns(Point(Cons(StmtF(s), r), a), Point(Cons(g, Cons(h, r)), Imm(0)))
    BY <1>3, <2>1, <2>2, StmtTurns
  <2> QED BY <1>1, <1>3, <2>3
<1>4. CASE s.tag = 3
  <2> PICK g : g = BlockF(s.block)
    OBVIOUS
  <2>1. g \in Marks /\ Steady(g, g)
    BY <1>1, <1>4, MarkType, Plain
  <2>2. StmtStep(s) = Becomes(<<g>>, 0)
    BY <1>4, StepStmt, Zenon
  <2>3. Turns(Point(Cons(StmtF(s), r), a), Point(Cons(g, r), Imm(0)))
    BY <1>4, <2>1, <2>2, StmtTurns
  <2> QED BY <1>1, <1>4, <2>3
<1>5. CASE s.tag = 6
  <2> PICK g : g = Todo("Loop", s)
    OBVIOUS
  <2>1. g \in Marks /\ Steady(g, g)
    BY MarkType, Plain
  <2>2. StmtStep(s) = Becomes(<<g>>, 0)
    BY <1>5, StepStmt, Zenon
  <2>3. Turns(Point(Cons(StmtF(s), r), a), Point(Cons(g, r), Imm(0)))
    BY <1>5, <2>1, <2>2, StmtTurns
  <2> QED BY <1>5, <2>3
<1> QED BY <1>2, <1>3, <1>4, <1>5

LEMMA TurnReader ==
  ASSUME NEW s \in Stmts, NEW r \in Seq(Marks), NEW a
  PROVE  /\ s.tag = 0 /\ s.l_val = <<>> =>
              /\ s.exp \in Exps
              /\ Turns(Point(Cons(StmtF(s), r), a),
                       Point(Cons(ExpF(s.exp), Cons(Todo("Assign", Var(0)), r)), Imm(0)))
         /\ s.tag = 0 /\ s.l_val # <<>> =>
              /\ s.exp \in Exps /\ Head(s.l_val) \in Exps
              /\ Turns(Point(Cons(StmtF(s), r), a),
                       Point(Cons(ExpF(Head(s.l_val)),
                                  Cons(Todo("Index", Indexed(Tail(s.l_val), <<>>, s)), r)), Imm(0)))
         /\ s.tag \in {4, 5} =>
              /\ s.exp \in Exps
              /\ Turns(Point(Cons(StmtF(s), r), a),
                       Point(Cons(ExpF(s.exp), Cons(Todo("If", s), r)), Imm(0)))
         /\ s.tag = 9 =>
              /\ s.exp \in Exps
              /\ Turns(Point(Cons(StmtF(s), r), a),
                       Point(Cons(ExpF(s.exp), Cons(Todo("Return", 0), r)), Imm(0)))
<1>1. /\ s.tag \in {0, 4, 5, 9} => s.exp \in Exps
      /\ s.tag = 0 /\ s.l_val # <<>> => Head(s.l_val) \in Exps
  BY Grammar DEF GrammarStmt
<1>2. ASSUME NEW x \in Exps, NEW h \in Marks, NEW k, Steady(h, k), s.tag \notin {7, 8, 10},
             StmtStep(s) = Becomes(<<ExpF(x), k>>, 0)
      PROVE  Turns(Point(Cons(StmtF(s), r), a), Point(Cons(ExpF(x), Cons(h, r)), Imm(0)))
  <2>1. ExpF(x) \in Marks /\ Steady(ExpF(x), ExpF(x))
    BY MarkType, Plain
  <2> QED BY <1>2, <2>1, StmtTurns
<1>3. CASE s.tag = 0 /\ s.l_val = <<>>
  <2>1. Todo("Assign", Var(0)) \in Marks /\ Steady(Todo("Assign", Var(0)), Todo("Assign", Variable))
    BY MarkType, OperandType, VarSteady
  <2>2. StmtStep(s) = Becomes(<<ExpF(s.exp), Todo("Assign", Variable)>>, 0)
    BY <1>3, StepStmt, Zenon
  <2>3. Turns(Point(Cons(StmtF(s), r), a), Point(Cons(ExpF(s.exp), Cons(Todo("Assign", Var(0)), r)), Imm(0)))
    BY <1>1, <1>2, <1>3, <2>1, <2>2
  <2> QED BY <1>1, <1>3, <2>3
<1>4. CASE s.tag = 0 /\ s.l_val # <<>>
  <2> PICK h : h = Todo("Index", Indexed(Tail(s.l_val), <<>>, s))
    OBVIOUS
  <2>1. h \in Marks
    <3>1. s.l_val \in Seq(Exps) /\ s.pointer \in BOOLEAN
      BY <1>4, Grammar DEF GrammarStmt
    <3>2. Tail(s.l_val) \in Seq(Exps) /\ <<>> \in Seq(Operands)
      BY <1>4, <3>1
    <3> QED BY <1>1, <1>4, <3>1, <3>2, PlaceType
  <2>2. Steady(h, h)
    <3> PICK x : x = Indexed(Tail(s.l_val), <<>>, s)
      OBVIOUS
    <3>1. h.at = "Index" /\ h.x = x /\ x.had = <<>> /\ h = Todo("Index", x)
      BY DEF Indexed, Todo
    <3>2. Indexed(x.left, <<>>, x) = x
      BY DEF Indexed
    <3>3. ASSUME NEW e PROVE Concrete(h, e) = h /\ MarkHolds(h, e)
      <4>1. ValuesOf(<<>>, e) = <<>> /\ Range(<<>>) = {}
        BY DEF ValuesOf, Range
      <4>2. Concrete(h, e) = Todo("Index", Indexed(h.x.left, ValuesOf(h.x.had, e), h.x))
        BY <3>1, ConcretePlace, Zenon
      <4>3. MarkHolds(h, e)
        BY <3>1, <4>1 DEF MarkHolds
      <4> QED BY <3>1, <3>2, <4>1, <4>2, <4>3
    <3> QED BY <3>3 DEF Steady
  <2>3. StmtStep(s) = Becomes(<<ExpF(Head(s.l_val)), h>>, 0)
    BY <1>4, StepStmt, Zenon
  <2>4. Turns(Point(Cons(StmtF(s), r), a), Point(Cons(ExpF(Head(s.l_val)), Cons(h, r)), Imm(0)))
    BY <1>1, <1>2, <1>4, <2>1, <2>2, <2>3
  <2> QED BY <1>1, <1>4, <2>4
<1>5. CASE s.tag \in {4, 5}
  <2>1. Todo("If", s) \in Marks /\ Steady(Todo("If", s), Todo("If", s))
    BY MarkType, Plain
  <2>2. StmtStep(s) = Becomes(<<ExpF(s.exp), Todo("If", s)>>, 0)
    BY <1>5, StepStmt, Zenon
  <2>3. Turns(Point(Cons(StmtF(s), r), a), Point(Cons(ExpF(s.exp), Cons(Todo("If", s), r)), Imm(0)))
    BY <1>1, <1>2, <1>5, <2>1, <2>2
  <2> QED BY <1>1, <1>5, <2>3
<1>6. CASE s.tag = 9
  <2>1. Todo("Return", 0) \in Marks /\ Steady(Todo("Return", 0), Todo("Return", 0))
    BY MarkType, Plain
  <2>2. StmtStep(s) = Becomes(<<ExpF(s.exp), Todo("Return", 0)>>, 0)
    BY <1>6, StepStmt, Zenon
  <2>3. Turns(Point(Cons(StmtF(s), r), a), Point(Cons(ExpF(s.exp), Cons(Todo("Return", 0), r)), Imm(0)))
    BY <1>1, <1>2, <1>6, <2>1, <2>2
  <2> QED BY <1>1, <1>6, <2>3
<1> QED BY <1>3, <1>4, <1>5, <1>6

LEMMA StackThree ==
  ASSUME NEW f \in Marks, NEW g \in Marks, NEW h \in Marks, NEW c \in Seq(Marks), NEW e
  PROVE  (<<Concrete(f, e), Concrete(g, e)>> \o <<Concrete(h, e)>>) \o Stack(c, e)
           = Stack(Cons(f, Cons(g, Cons(h, c))), e)
<1> DEFINE T == {Concrete(x, e) : x \in Marks}
<1> PICK U : U = T
  BY Zenon
<1> PICK x, y, z, s : x = Concrete(f, e) /\ y = Concrete(g, e) /\ z = Concrete(h, e) /\ s = Stack(c, e)
  OBVIOUS
<1>1. x \in U /\ y \in U /\ z \in U
  OBVIOUS
<1>2. s \in Seq(U)
  <2>1. \A i \in 1 .. Len(c) : c[i] \in Marks
    OBVIOUS
  <2>2. Len(c) \in Nat /\ s \in [1 .. Len(c) -> U]
    BY <2>1 DEF Stack
  <2> QED BY ONLY <2>2
<1> HIDE DEF T
<1>3. (<<x, y>> \o <<z>>) \o s = <<x, y>> \o (<<z>> \o s)
  <2>1. <<x, y>> \in Seq(U) /\ <<z>> \in Seq(U)
    BY ONLY <1>1
  <2> QED BY ONLY <1>2, <2>1, ConcatAssociative
<1>4. <<z>> \o s = Stack(Cons(h, c), e)
  BY StackOne
<1>5. <<x, y>> \o Stack(Cons(h, c), e) = Stack(Cons(f, Cons(g, Cons(h, c))), e)
  BY ConsType, StackTwo
<1> QED BY <1>3, <1>4, <1>5, Zenon

LEMMA StackPair ==
  ASSUME NEW f \in Marks, NEW g \in Marks, NEW c \in Seq(Marks), NEW e
  PROVE  (<<Concrete(f, e)>> \o <<Concrete(g, e)>>) \o Stack(c, e) = Stack(Cons(f, Cons(g, c)), e)
<1> DEFINE T == {Concrete(x, e) : x \in Marks}
<1> PICK x, y : x = Concrete(f, e) /\ y = Concrete(g, e)
  OBVIOUS
<1>1. x \in T /\ y \in T
  OBVIOUS
<1> HIDE DEF T
<1>2. <<x>> \o <<y>> = <<x, y>>
  BY <1>1, Pair
<1>3. <<x, y>> \o Stack(c, e) = Stack(Cons(f, Cons(g, c)), e)
  BY StackTwo
<1> QED BY <1>2, <1>3

LEMMA TurnBlock ==
  ASSUME NEW b \in Blocks, NEW r \in Seq(Marks), NEW a
  PROVE  /\ b = <<>> => Turns(Point(Cons(BlockF(b), r), a), Point(r, Imm(0)))
         /\ b # <<>> => Tail(b) \in Blocks
         /\ b # <<>> /\ Head(b).tag = 0 =>
              /\ Head(b).exp \in Exps
              /\ Turns(Point(Cons(BlockF(b), r), a),
                       Point(Cons(ExpF(Head(b).exp), Cons(Todo("Assign", Var(0)), Cons(BlockF(Tail(b)), r))),
                             Imm(0)))
         /\ b # <<>> /\ Head(b).tag # 0 =>
              /\ Head(b).stmt \in Stmts
              /\ Turns(Point(Cons(BlockF(b), r), a),
                       Point(Cons(StmtF(Head(b).stmt), Cons(BlockF(Tail(b)), r)), Imm(0)))
<1> PICK m : m = BlockF(b)
  OBVIOUS
<1>1. m \in Marks /\ m.at = "Block" /\ m.items = b /\ Moving(m) /\ Steady(m, m)
  BY MarkType, Plain DEF Moving
<1>2. \A v : Step(m, v) = BlockStep(b)
  BY <1>1, StepOf, Zenon
<1>3. \A e : Step(Concrete(m, e), Value(a, e)) = BlockStep(b)
  BY <1>1, <1>2, PlainStep
<1>4. b # <<>> => /\ Tail(b) \in Blocks
                  /\ Head(b).tag = 0 => Head(b).exp \in Exps
                  /\ Head(b).tag # 0 => Head(b).stmt \in Stmts
  BY Grammar DEF GrammarItem
<1>5. CASE b = <<>>
  <2>1. BlockStep(b) = Becomes(<<>>, 0)
    BY <1>5 DEF BlockStep
  <2>2. Turns(Point(Cons(m, r), a), Point(r, Imm(0)))
    BY <1>1, <1>3, <2>1, TurnAway
  <2> QED BY <1>5, <2>2
<1>6. CASE b # <<>> /\ Head(b).tag # 0
  <2> PICK g, h : g = StmtF(Head(b).stmt) /\ h = BlockF(Tail(b))
    OBVIOUS
  <2>1. g \in Marks /\ h \in Marks /\ Steady(g, g) /\ Steady(h, h)
    BY <1>4, <1>6, MarkType, Plain
  <2>2. BlockStep(b) = Becomes(<<g>> \o <<h>>, 0)
    BY <1>6 DEF BlockStep
  <2>3. ASSUME NEW e, Applies(Point(Cons(m, r), a), e)
        PROVE  /\ Applies(Point(Cons(g, Cons(h, r)), Imm(0)), e)
               /\ \E n : /\ Step(Concrete(m, e), Value(a, e)) = Becomes(n, Value(Imm(0), e))
                         /\ n \o Stack(r, e) = Stack(Cons(g, Cons(h, r)), e)
    <3>1. /\ MarkHolds(g, e) /\ MarkHolds(h, e) /\ Concrete(g, e) = g /\ Concrete(h, e) = h
      BY <2>1 DEF Steady
    <3>2. StackHolds(r, e)
      BY <1>1, <2>3, PointState, HoldsCons
    <3>3. StackHolds(Cons(h, r), e) /\ Cons(h, r) \in Seq(Marks)
      BY <2>1, <3>1, <3>2, HoldsCons, ConsType
    <3>4. Applies(Point(Cons(g, Cons(h, r)), Imm(0)), e)
      BY <2>1, <3>1, <3>3, PointState, HoldsCons, ImmValue
    <3>5. (<<g>> \o <<h>>) \o Stack(r, e) = Stack(Cons(g, Cons(h, r)), e)
      BY <2>1, <3>1, StackPair
    <3> QED BY <1>3, <2>2, <3>4, <3>5, ImmValue, Zenon
  <2>4. Turns(Point(Cons(m, r), a), Point(Cons(g, Cons(h, r)), Imm(0)))
    BY <1>1, <2>3, TurnIf
  <2> QED BY <1>4, <1>6, <2>4
<1>7. CASE b # <<>> /\ Head(b).tag = 0
  <2> PICK f, g, h : /\ f = ExpF(Head(b).exp) /\ g = Todo("Assign", Var(0)) /\ h = BlockF(Tail(b))
    OBVIOUS
  <2>1. /\ f \in Marks /\ g \in Marks /\ h \in Marks
        /\ Steady(f, f) /\ Steady(g, Todo("Assign", Variable)) /\ Steady(h, h)
    BY <1>4, <1>7, MarkType, OperandType, Plain, VarSteady
  <2>2. BlockStep(b) = Becomes(<<f, Todo("Assign", Variable)>> \o <<h>>, 0)
    BY <1>7 DEF BlockStep
  <2>3. ASSUME NEW e, Applies(Point(Cons(m, r), a), e)
        PROVE  /\ Applies(Point(Cons(f, Cons(g, Cons(h, r))), Imm(0)), e)
               /\ \E n : /\ Step(Concrete(m, e), Value(a, e)) = Becomes(n, Value(Imm(0), e))
                         /\ n \o Stack(r, e) = Stack(Cons(f, Cons(g, Cons(h, r))), e)
    <3>1. /\ MarkHolds(f, e) /\ MarkHolds(g, e) /\ MarkHolds(h, e)
          /\ Concrete(f, e) = f /\ Concrete(g, e) = Todo("Assign", Variable) /\ Concrete(h, e) = h
      BY <2>1 DEF Steady
    <3>2. StackHolds(r, e)
      BY <1>1, <2>3, PointState, HoldsCons
    <3>3. StackHolds(Cons(h, r), e) /\ Cons(h, r) \in Seq(Marks)
      BY <2>1, <3>1, <3>2, HoldsCons, ConsType
    <3>4. StackHolds(Cons(g, Cons(h, r)), e) /\ Cons(g, Cons(h, r)) \in Seq(Marks)
      BY <2>1, <3>1, <3>3, HoldsCons, ConsType
    <3>5. Applies(Point(Cons(f, Cons(g, Cons(h, r))), Imm(0)), e)
      BY <2>1, <3>1, <3>4, PointState, HoldsCons, ImmValue
    <3>6. (<<f, Todo("Assign", Variable)>> \o <<h>>) \o Stack(r, e) = Stack(Cons(f, Cons(g, Cons(h, r))), e)
      BY <2>1, <3>1, StackThree
    <3> QED BY <1>3, <2>2, <3>5, <3>6, ImmValue, Zenon
  <2>4. Turns(Point(Cons(m, r), a), Point(Cons(f, Cons(g, Cons(h, r))), Imm(0)))
    BY <1>1, <2>3, TurnIf
  <2> QED BY <1>4, <1>7, <2>4
<1> QED BY <1>4, <1>5, <1>6, <1>7
-----------------------------------------------------------------------------
(* Branches *)

\* From one state to another, at the same values.
Ahead(p, q, e) == Applies(q, e) /\ Reaches(State(p, e), State(q, e))

LEMMA AheadAway ==
  ASSUME NEW m \in Marks, Moving(m), NEW r \in Seq(Marks), NEW a, NEW e,
         Applies(Point(Cons(m, r), a), e), NEW b, Has(b, e),
         Step(Concrete(m, e), Value(a, e)) = Becomes(<<>>, Value(b, e))
  PROVE  Ahead(Point(Cons(m, r), a), Point(r, b), e)
<1>1. <<>> \o Stack(r, e) = Stack(r, e)
  BY StackNone
<1>2. Reaches(<<Stack(Cons(m, r), e), Value(a, e)>>, <<Stack(r, e), Value(b, e)>>)
  BY <1>1, OneStep, Zenon
<1>3. StackHolds(r, e)
  BY PointState, HoldsCons
<1> QED BY <1>2, <1>3, PointState DEF Ahead

LEMMA AheadInto ==
  ASSUME NEW m \in Marks, Moving(m), NEW r \in Seq(Marks), NEW a, NEW e,
         Applies(Point(Cons(m, r), a), e), NEW g \in Marks, MarkHolds(g, e),
         Step(Concrete(m, e), Value(a, e)) = Becomes(<<Concrete(g, e)>>, 0)
  PROVE  Ahead(Point(Cons(m, r), a), Point(Cons(g, r), Imm(0)), e)
<1>1. <<Concrete(g, e)>> \o Stack(r, e) = Stack(Cons(g, r), e)
  BY StackOne
<1>2. Reaches(<<Stack(Cons(m, r), e), Value(a, e)>>, <<Stack(Cons(g, r), e), 0>>)
  BY <1>1, OneStep, Zenon
<1>3. StackHolds(Cons(g, r), e)
  BY PointState, HoldsCons
<1> QED BY <1>2, <1>3, PointState, ImmValue, SMTT(30) DEF Ahead

LEMMA AheadIntoTwo ==
  ASSUME NEW m \in Marks, Moving(m), NEW r \in Seq(Marks), NEW a, NEW e,
         Applies(Point(Cons(m, r), a), e),
         NEW g \in Marks, MarkHolds(g, e), NEW h \in Marks, MarkHolds(h, e),
         Step(Concrete(m, e), Value(a, e)) = Becomes(<<Concrete(g, e), Concrete(h, e)>>, 0)
  PROVE  Ahead(Point(Cons(m, r), a), Point(Cons(g, Cons(h, r)), Imm(0)), e)
<1>1. <<Concrete(g, e), Concrete(h, e)>> \o Stack(r, e) = Stack(Cons(g, Cons(h, r)), e)
  BY StackTwo
<1>2. Reaches(<<Stack(Cons(m, r), e), Value(a, e)>>, <<Stack(Cons(g, Cons(h, r)), e), 0>>)
  BY <1>1, OneStep, Zenon
<1>3. StackHolds(Cons(h, r), e) /\ Cons(h, r) \in Seq(Marks)
  BY PointState, HoldsCons, ConsType
<1>4. StackHolds(Cons(g, Cons(h, r)), e)
  BY <1>3, HoldsCons
<1> QED BY <1>2, <1>4, PointState, ImmValue DEF Ahead

LEMMA BrAhead ==
  ASSUME NEW a, NEW t, NEW f, NEW L, NEW p, NEW r, NEW u, AtLabel(L, t, r), AtLabel(L, f, u),
         \A e : Applies(p, e) /\ Value(a, e) # 0 => Ahead(p, r, e),
         \A e : Applies(p, e) /\ Value(a, e) = 0 => Ahead(p, u, e)
  PROVE  \A q : Faithful(Br(a, t, f), p, q, L)
BY FaithfulBr DEF Ahead

LEMMA FaithfulIf ==
  ASSUME NEW s \in Stmts, NEW r \in Seq(Marks), NEW a, NEW t, NEW f, NEW L
  PROVE  /\ s.tag = 4 =>
              /\ s.stmt \in Stmts
              /\ AtLabel(L, t, Point(Cons(StmtF(s.stmt), r), Imm(0))) /\ AtLabel(L, f, Point(r, Imm(0)))
                   => \A q : Faithful(Br(a, t, f), Point(Cons(Todo("If", s), r), a), q, L)
         /\ s.tag = 5 =>
              /\ s.stmt_if \in Stmts /\ s.stmt_else \in Stmts
              /\ AtLabel(L, t, Point(Cons(StmtF(s.stmt_if), r), Imm(0))) =>
                   (AtLabel(L, f, Point(Cons(StmtF(s.stmt_else), r), Imm(0))) =>
                      \A q : Faithful(Br(a, t, f), Point(Cons(Todo("If", s), r), a), q, L))
<1> PICK m, p : m = Todo("If", s) /\ p = Point(Cons(m, r), a)
  OBVIOUS
<1>1. m \in Marks /\ m.at = "If" /\ m.x = s /\ Moving(m) /\ \A e : Concrete(m, e) = m
  BY MarkType, ConcreteAt DEF Moving
<1>2. \A x \in Stmts : StmtF(x) \in Marks /\ \A e : MarkHolds(StmtF(x), e) /\ Concrete(StmtF(x), e) = StmtF(x)
  BY MarkType, Plain DEF Steady
<1>3. ASSUME NEW x \in Stmts, NEW e, Applies(p, e), Step(m, Value(a, e)) = Becomes(<<StmtF(x)>>, 0)
      PROVE  Ahead(p, Point(Cons(StmtF(x), r), Imm(0)), e)
  BY <1>1, <1>2, <1>3, AheadInto
<1>4. \A v : /\ v # 0 /\ s.tag = 4 => Step(m, v) = Becomes(<<StmtF(s.stmt)>>, 0)
             /\ v # 0 /\ s.tag = 5 => Step(m, v) = Becomes(<<StmtF(s.stmt_if)>>, 0)
             /\ v = 0 /\ s.tag = 4 => Step(m, v) = Becomes(<<>>, 0)
             /\ v = 0 /\ s.tag = 5 => Step(m, v) = Becomes(<<StmtF(s.stmt_else)>>, 0)
  BY ONLY <1>1, StepIf
<1>5. CASE s.tag = 4
  <2>1. s.stmt \in Stmts
    BY <1>5, Grammar DEF GrammarStmt
  <2>2. ASSUME NEW e, Applies(p, e), Value(a, e) # 0
        PROVE  Ahead(p, Point(Cons(StmtF(s.stmt), r), Imm(0)), e)
    <3>1. Step(m, Value(a, e)) = Becomes(<<StmtF(s.stmt)>>, 0)
      BY <1>4, <1>5, <2>2
    <3> QED BY <1>3, <2>1, <2>2, <3>1
  <2>3. ASSUME NEW e, Applies(p, e), Value(a, e) = 0
        PROVE  Ahead(p, Point(r, Imm(0)), e)
    <3>1. Step(m, Value(a, e)) = Becomes(<<>>, 0)
      BY <1>4, <1>5, <2>3
    <3>2. Step(Concrete(m, e), Value(a, e)) = Becomes(<<>>, Value(Imm(0), e)) /\ Has(Imm(0), e)
      BY <1>1, <3>1, ImmValue
    <3> QED BY <1>1, <2>3, <3>2, AheadAway
  <2>4. AtLabel(L, t, Point(Cons(StmtF(s.stmt), r), Imm(0))) /\ AtLabel(L, f, Point(r, Imm(0)))
          => \A q : Faithful(Br(a, t, f), p, q, L)
    BY <2>2, <2>3, BrAhead
  <2> QED BY <1>5, <2>1, <2>4
<1>6. CASE s.tag = 5
  <2>1. s.stmt_if \in Stmts /\ s.stmt_else \in Stmts
    BY <1>6, Grammar DEF GrammarStmt
  <2>2. ASSUME NEW e, Applies(p, e), Value(a, e) # 0
        PROVE  Ahead(p, Point(Cons(StmtF(s.stmt_if), r), Imm(0)), e)
    <3>1. Step(m, Value(a, e)) = Becomes(<<StmtF(s.stmt_if)>>, 0)
      BY <1>4, <1>6, <2>2
    <3> QED BY <1>3, <2>1, <2>2, <3>1
  <2>3. ASSUME NEW e, Applies(p, e), Value(a, e) = 0
        PROVE  Ahead(p, Point(Cons(StmtF(s.stmt_else), r), Imm(0)), e)
    <3>1. Step(m, Value(a, e)) = Becomes(<<StmtF(s.stmt_else)>>, 0)
      BY <1>4, <1>6, <2>3
    <3> QED BY <1>3, <2>1, <2>3, <3>1
  <2>4. AtLabel(L, t, Point(Cons(StmtF(s.stmt_if), r), Imm(0))) =>
          (AtLabel(L, f, Point(Cons(StmtF(s.stmt_else), r), Imm(0))) =>
             \A q : Faithful(Br(a, t, f), p, q, L))
    <3> SUFFICES ASSUME AtLabel(L, t, Point(Cons(StmtF(s.stmt_if), r), Imm(0))),
                        AtLabel(L, f, Point(Cons(StmtF(s.stmt_else), r), Imm(0)))
                 PROVE  \A q : Faithful(Br(a, t, f), p, q, L)
      OBVIOUS
    <3> QED BY <2>2, <2>3, BrAhead
  <2> QED BY <1>6, <2>1, <2>4
<1> QED BY <1>5, <1>6

LEMMA FaithfulTest ==
  ASSUME NEW s \in Stmts, s.tag = 6, NEW r \in Seq(Marks), NEW a, NEW t, NEW f, NEW L,
         AtLabel(L, f, Point(r, Imm(0)))
  PROVE  /\ AtLabel(L, t, Point(Cons(StmtF(s.stmt), Cons(Todo("Loop", s), r)), Imm(0)))
              => \A q : Faithful(Br(a, t, f), Point(Cons(Todo("Test", s), r), a), q, L)
         /\ \A q : Faithful(Jump(f), Point(Cons(Todo("Test", s), r), Imm(0)), q, L)
<1> PICK m, p, g, h : /\ m = Todo("Test", s) /\ p = Point(Cons(m, r), a)
                      /\ g = StmtF(s.stmt) /\ h = Todo("Loop", s)
  OBVIOUS
<1>0. s.stmt \in Stmts
  BY Grammar DEF GrammarStmt
<1>1. m \in Marks /\ m.at = "Test" /\ m.x = s /\ Moving(m) /\ \A e : Concrete(m, e) = m
  BY MarkType, ConcreteAt DEF Moving
<1>2. g \in Marks /\ h \in Marks /\ Steady(g, g) /\ Steady(h, h)
  BY <1>0, MarkType, Plain
<1>3. ASSUME NEW b, NEW e, Applies(Point(Cons(m, r), b), e), Value(b, e) = 0
      PROVE  Ahead(Point(Cons(m, r), b), Point(r, Imm(0)), e)
  <2>1. Step(m, Value(b, e)) = Becomes(<<>>, 0)
    BY <1>1, <1>3, StepTest, Zenon
  <2>2. Step(Concrete(m, e), Value(b, e)) = Becomes(<<>>, Value(Imm(0), e)) /\ Has(Imm(0), e)
    BY <1>1, <2>1, ImmValue
  <2> QED BY <1>1, <1>3, <2>2, AheadAway
<1>4. ASSUME NEW e, Applies(p, e), Value(a, e) # 0
      PROVE  Ahead(p, Point(Cons(g, Cons(h, r)), Imm(0)), e)
  <2> PICK v : v = Value(a, e)
    OBVIOUS
  <2>1. Step(m, v) = Becomes(<<g, h>>, 0)
    BY <1>1, <1>4, StepTest
  <2>2. Concrete(g, e) = g /\ MarkHolds(g, e) /\ Concrete(h, e) = h /\ MarkHolds(h, e)
    BY <1>2 DEF Steady
  <2>3. Step(Concrete(m, e), Value(a, e)) = Becomes(<<Concrete(g, e), Concrete(h, e)>>, 0)
    BY <1>1, <2>1, <2>2
  <2> QED BY <1>1, <1>2, <1>4, <2>2, <2>3, AheadIntoTwo
<1>5. AtLabel(L, t, Point(Cons(g, Cons(h, r)), Imm(0))) => \A q : Faithful(Br(a, t, f), p, q, L)
  BY <1>3, <1>4, BrAhead
<1>6. \A q : Faithful(Jump(f), Point(Cons(m, r), Imm(0)), q, L)
  <2>1. Turns(Point(Cons(m, r), Imm(0)), Point(r, Imm(0)))
    BY <1>3, ImmValue DEF Turns, Ahead
  <2> QED BY <2>1, FaithfulJump
<1> QED BY <1>5, <1>6

LEMMA StepRest ==
  ASSUME NEW f, NEW x, f.x = x, f.at = "Rest", NEW v
  PROVE  /\ v # 0 /\ x.tag = "lor" => Step(f, v) = Becomes(<<>>, 1)
         /\ v = 0 /\ x.tag = "land" => Step(f, v) = Becomes(<<>>, 0)
         /\ v = 0 /\ x.tag = "lor" => Step(f, v) = Becomes(<<ExpF(x.rhs), Todo("Bool", 0)>>, 0)
         /\ v # 0 /\ x.tag = "land" => Step(f, v) = Becomes(<<ExpF(x.rhs), Todo("Bool", 0)>>, 0)
<1>1. Step(f, v) = RestStep(x, v)
  BY StepOf, Zenon
<1>2. RestStep(x, v) = IF (x.tag = "lor") = (v # 0) THEN Becomes(<<>>, Truth(v # 0))
                       ELSE Becomes(<<ExpF(x.rhs), Todo("Bool", 0)>>, 0)
  BY DEF RestStep
<1>3. (v # 0 => Truth(v # 0) = 1) /\ (v = 0 => Truth(v # 0) = 0)
  BY DEF Truth
<1>4. CASE v # 0 /\ x.tag = "lor"
  <2>1. (x.tag = "lor") = (v # 0)
    BY <1>4
  <2> QED BY <1>1, <1>2, <1>3, <1>4, <2>1
<1>5. CASE v = 0 /\ x.tag = "land"
  <2>1. (x.tag = "lor") = (v # 0)
    BY <1>5
  <2> QED BY <1>1, <1>2, <1>3, <1>5, <2>1
<1>6. CASE v = 0 /\ x.tag = "lor"
  <2>1. (x.tag = "lor") # (v # 0)
    BY <1>6
  <2> QED BY <1>1, <1>2, <1>6, <2>1
<1>7. CASE v # 0 /\ x.tag = "land"
  <2>1. (x.tag = "lor") # (v # 0)
    BY <1>7
  <2> QED BY <1>1, <1>2, <1>7, <2>1
<1> QED BY <1>4, <1>5, <1>6, <1>7

LEMMA FaithfulRest ==
  ASSUME NEW x \in Exps, x.tag \in {"lor", "land"}, NEW r \in Seq(Marks), NEW a \in Operands,
         NEW n, NEW L, AtLabel(L, ShortLabel(x.tag, n), Point(r, ShortValue(x.tag))),
         AtLabel(L, RhsLabel(x.tag, n),
                 Point(Cons(ExpF(x.rhs), Cons(Todo("Bool", <<x.tag, a>>), r)), Imm(0)))
  PROVE  \A q : Faithful(Br(a, Lab("then", n), Lab("else", n + 1)),
                         Point(Cons(Todo("Rest", x), r), a), q, L)
<1> PICK m, p, g, h : /\ m = Todo("Rest", x) /\ p = Point(Cons(m, r), a)
                      /\ g = ExpF(x.rhs) /\ h = Todo("Bool", <<x.tag, a>>)
  OBVIOUS
<1>0. x.rhs \in Exps
  BY TurnLogic, Zenon
<1>1. m \in Marks /\ m.at = "Rest" /\ m.x = x /\ Moving(m) /\ \A e : Concrete(m, e) = m
  BY MarkType, ConcreteAt DEF Moving
<1>2. g \in Marks /\ Steady(g, g) /\ h \in Marks /\ h.at = "Bool" /\ h.x[1] = x.tag /\ h.x[2] = a
  <2>1. g \in Marks /\ Steady(g, g)
    BY <1>0, MarkType, Plain
  <2>2. h \in Marks
    BY MarkType, Zenon
  <2>3. h.at = "Bool" /\ h.x = <<x.tag, a>>
    BY DEF Todo
  <2> QED BY <2>1, <2>2, <2>3
<1>3. \A v : /\ v # 0 /\ x.tag = "lor" => Step(m, v) = Becomes(<<>>, 1)
             /\ v = 0 /\ x.tag = "land" => Step(m, v) = Becomes(<<>>, 0)
             /\ v = 0 /\ x.tag = "lor" => Step(m, v) = Becomes(<<g, Todo("Bool", 0)>>, 0)
             /\ v # 0 /\ x.tag = "land" => Step(m, v) = Becomes(<<g, Todo("Bool", 0)>>, 0)
  <2>1. m.x = x /\ m.at = "Rest"
    BY <1>1
  <2>2. g = ExpF(x.rhs)
    OBVIOUS
  <2>3. \A v : /\ v # 0 /\ x.tag = "lor" => Step(m, v) = Becomes(<<>>, 1)
               /\ v = 0 /\ x.tag = "land" => Step(m, v) = Becomes(<<>>, 0)
               /\ v = 0 /\ x.tag = "lor" => Step(m, v) = Becomes(<<ExpF(x.rhs), Todo("Bool", 0)>>, 0)
               /\ v # 0 /\ x.tag = "land" => Step(m, v) = Becomes(<<ExpF(x.rhs), Todo("Bool", 0)>>, 0)
    BY ONLY <2>1, StepRest
  <2> QED BY ONLY <2>2, <2>3
<1>4. ASSUME NEW e, Applies(p, e), (x.tag = "lor") = (Value(a, e) # 0)
      PROVE  Ahead(p, Point(r, ShortValue(x.tag)), e)
  <2>1. Value(ShortValue(x.tag), e) = (IF x.tag = "lor" THEN 1 ELSE 0) /\ Has(ShortValue(x.tag), e)
    BY ImmValue DEF ShortValue
  <2>2. Step(m, Value(a, e)) = Becomes(<<>>, Value(ShortValue(x.tag), e))
    BY <1>3, <1>4, <2>1
  <2> QED BY <1>1, <1>4, <2>1, <2>2, AheadAway
<1>5. ASSUME NEW e, Applies(p, e), (x.tag = "lor") = (Value(a, e) = 0)
      PROVE  Ahead(p, Point(Cons(g, Cons(h, r)), Imm(0)), e)
  <2>1. Has(a, e)
    BY <1>5, PointState
  <2>2. Concrete(g, e) = g /\ MarkHolds(g, e)
    BY <1>2 DEF Steady
  <2>3. Concrete(h, e) = Todo("Bool", 0) /\ MarkHolds(h, e)
    BY <1>2, <1>5, <2>1, ConcreteAt DEF MarkHolds
  <2>4. Step(m, Value(a, e)) = Becomes(<<g, Todo("Bool", 0)>>, 0)
    BY <1>3, <1>5
  <2>5. Step(Concrete(m, e), Value(a, e)) = Becomes(<<Concrete(g, e), Concrete(h, e)>>, 0)
    BY <1>1, <2>2, <2>3, <2>4
  <2> QED BY <1>1, <1>2, <1>5, <2>2, <2>3, <2>5, AheadIntoTwo
<1>6. CASE x.tag = "lor"
  <2>1. AtLabel(L, Lab("then", n), Point(r, ShortValue(x.tag)))
        /\ AtLabel(L, Lab("else", n + 1), Point(Cons(g, Cons(h, r)), Imm(0)))
    BY <1>6 DEF ShortLabel, RhsLabel
  <2>2. \A e : Applies(p, e) /\ Value(a, e) # 0 => Ahead(p, Point(r, ShortValue(x.tag)), e)
    BY <1>4, <1>6
  <2>3. \A e : Applies(p, e) /\ Value(a, e) = 0 => Ahead(p, Point(Cons(g, Cons(h, r)), Imm(0)), e)
    BY <1>5, <1>6
  <2> QED BY <2>1, <2>2, <2>3, BrAhead
<1>7. CASE x.tag = "land"
  <2>1. AtLabel(L, Lab("else", n + 1), Point(r, ShortValue(x.tag)))
        /\ AtLabel(L, Lab("then", n), Point(Cons(g, Cons(h, r)), Imm(0)))
    BY <1>7 DEF ShortLabel, RhsLabel
  <2>2. \A e : Applies(p, e) /\ Value(a, e) = 0 => Ahead(p, Point(r, ShortValue(x.tag)), e)
    BY <1>4, <1>7
  <2>3. \A e : Applies(p, e) /\ Value(a, e) # 0 => Ahead(p, Point(Cons(g, Cons(h, r)), Imm(0)), e)
    BY <1>5, <1>7
  <2> QED BY <2>1, <2>2, <2>3, BrAhead
<1> QED BY <1>6, <1>7
-----------------------------------------------------------------------------
(* Items that compute *)

Computes == {"or", "ne", "and", "load", "getelemptr", "getptr"}

LEMMA FaithfulCompute ==
  ASSUME NEW it, it.op \in Computes, it.to = <<>>, NEW p, NEW q, NEW L,
         \A e : Applies(p, e) =>
           /\ Applies(q, Bind(e, it.dst, Result(it, e)))
           /\ Reaches(State(p, e), State(q, Bind(e, it.dst, Result(it, e))))
  PROVE  Faithful(it, p, q, L)
<1>1. it.op \notin {"label", "jump", "br"} /\ ~ IsEvent(it)
  BY DEF Computes, IsEvent
<1>2. \A e : Written(it, e) = Bind(e, it.dst, Result(it, e))
  BY DEF Computes, Written
<1>3. \A e : Applies(p, e) => KeepsState(it, p, q, e)
  BY <1>2 DEF KeepsState
<1> QED BY <1>1, <1>3, FaithfulSilent

\* The operand a is copied to d.
LEMMA CopyKeeps ==
  ASSUME NEW r \in Seq(Marks), NEW n \in Nat, Sealed(r, n), NEW a,
         NEW d \in Operands, New(d, n), NEW e, Applies(Point(r, a), e)
  PROVE  LET w == Bind(e, d, Value(a, e))
         IN  Applies(Point(r, d), w) /\ Reaches(State(Point(r, a), e), State(Point(r, d), w))
<1> PICK v, w : v = Value(a, e) /\ w = Bind(e, d, v)
  OBVIOUS
<1>1. StackHolds(r, e)
  BY PointState
<1>2. StackHolds(r, w) /\ Stack(r, w) = Stack(r, e)
  BY <1>1, Unmoved
<1>3. IsLocal(d)
  BY DEF New, IsLocal
<1>4. Has(d, w) /\ Value(d, w) = v
  BY <1>3, BindValue
<1>5. Applies(Point(r, d), w) /\ State(Point(r, d), w) = State(Point(r, a), e)
  BY <1>2, <1>4, PointState
<1> QED BY <1>5, ReachesSame

LEMMA FaithfulKeep ==
  ASSUME NEW r \in Seq(Marks), NEW n \in Nat, Sealed(r, n), NEW a,
         NEW t \in Operands, t[1] = "%temp_l_result", NEW L
  PROVE  Faithful(Store(a, t), Point(r, a), Point(r, t), L)
<1> PICK it, p, q : it = Store(a, t) /\ p = Point(r, a) /\ q = Point(r, t)
  OBVIOUS
<1>1. it.op = "store" /\ it.to = <<>> /\ it.args = <<a, t>>
  BY DEF Store, Item
<1>2. it.args[1] = a /\ it.args[2] = t
  BY <1>1
<1>3. ~ IsEvent(it)
  BY <1>1, <1>2 DEF IsEvent
<1>4. \A e : Result(it, e) = Value(a, e)
  BY <1>1, <1>2 DEF Result
<1>5. \A e : Written(it, e) = Bind(e, t, Value(a, e))
  BY <1>1, <1>2, <1>4 DEF Written
<1>6. New(t, n)
  BY DEF New
<1>7. \A e : Applies(p, e) => KeepsState(it, p, q, e)
  BY <1>5, <1>6, CopyKeeps DEF KeepsState
<1>8. Faithful(it, p, q, L)
  BY <1>1, <1>3, <1>7, FaithfulSilent
<1> QED BY <1>8

LEMMA FaithfulLoad ==
  ASSUME NEW r \in Seq(Marks), NEW n \in Nat, Sealed(r, n), NEW t, t[1] # "@",
         NEW m \in Nat, n <= m, NEW L
  PROVE  Faithful(Ins("load", Reg(m), <<t>>), Point(r, t), Point(r, Reg(m)), L)
<1> PICK d, it, p, q : /\ d = Reg(m) /\ it = Ins("load", d, <<t>>)
                       /\ p = Point(r, t) /\ q = Point(r, d)
  OBVIOUS
<1>1. it.op = "load" /\ it.to = <<>> /\ it.args = <<t>> /\ it.dst = d
  BY DEF Ins, Item
<1>2. it.args[1] = t
  BY <1>1
<1>3. \A e : Result(it, e) = Value(t, e)
  BY <1>1, <1>2 DEF Result
<1>4. d \in Operands /\ New(d, n)
  BY DEF New, Reg, Operands
<1>5. \A e : Applies(p, e) => /\ Applies(q, Bind(e, d, Value(t, e)))
                              /\ Reaches(State(p, e), State(q, Bind(e, d, Value(t, e))))
  BY <1>4, CopyKeeps
<1>6. Faithful(it, p, q, L)
  BY <1>1, <1>3, <1>5, FaithfulCompute DEF Computes
<1> QED BY <1>6
-----------------------------------------------------------------------------
(* The address of an element *)

LEMMA InsFields ==
  ASSUME NEW op, NEW d, NEW a, NEW b
  PROVE  /\ Ins(op, d, <<a, b>>).op = op /\ Ins(op, d, <<a, b>>).to = <<>>
         /\ Ins(op, d, <<a, b>>).dst = d
         /\ Ins(op, d, <<a, b>>).args[1] = a /\ Ins(op, d, <<a, b>>).args[2] = b
BY DEF Ins, Item

LEMMA ValuesFacts ==
  ASSUME NEW s \in Seq(Operands), NEW e
  PROVE  /\ \A a \in Operands : ValuesOf(Append(s, a), e) = Append(ValuesOf(s, e), Value(a, e))
         /\ s # <<>> => /\ ValuesOf(s, e) # <<>> /\ Head(ValuesOf(s, e)) = Value(Head(s), e)
                        /\ Tail(ValuesOf(s, e)) = ValuesOf(Tail(s), e)
         /\ s = <<>> => ValuesOf(s, e) = <<>>
<1> PICK v, n, U : v = ValuesOf(s, e) /\ n = Len(s) /\ U = {Value(x, e) : x \in Operands}
  OBVIOUS
<1>1. \A x \in Operands : Value(x, e) \in U
  OBVIOUS
<1>2. n \in Nat /\ \A i \in 1 .. n : s[i] \in Operands
  OBVIOUS
<1>3. v = [i \in 1 .. n |-> Value(s[i], e)]
  BY DEF ValuesOf
<1>4. v \in Seq(U) /\ Len(v) = n /\ \A i \in 1 .. n : v[i] = Value(s[i], e)
  <2>1. v \in [1 .. n -> U]
    BY <1>1, <1>2, <1>3
  <2> QED BY ONLY <1>2, <1>3, <2>1
<1>5. ASSUME NEW a \in Operands PROVE ValuesOf(Append(s, a), e) = Append(v, Value(a, e))
  <2> PICK t, w, u : t = Append(s, a) /\ w = Value(a, e) /\ u = Append(v, w)
    OBVIOUS
  <2>1. Len(t) = n + 1 /\ t[n + 1] = a /\ \A i \in 1 .. n : t[i] = s[i]
    BY <1>2
  <2>2. u \in Seq(U) /\ Len(u) = n + 1 /\ u[n + 1] = w /\ \A i \in 1 .. n : u[i] = v[i]
    <3>1. w \in U
      BY <1>1
    <3>2. Len(v) = n /\ v \in Seq(U)
      BY <1>4
    <3> QED BY ONLY <1>2, <3>1, <3>2, u = Append(v, w)
  <2>3. \A i \in 1 .. n + 1 : u[i] = Value(t[i], e)
    <3>1. \A i \in 1 .. n + 1 : i = n + 1 \/ i \in 1 .. n
      BY <1>2
    <3> QED BY <1>4, <2>1, <2>2, <3>1
  <2>4. u = [i \in 1 .. n + 1 |-> u[i]]
    BY ONLY <1>2, <2>2
  <2>5. u = [i \in 1 .. n + 1 |-> Value(t[i], e)]
    BY <2>3, <2>4
  <2> QED BY <2>1, <2>5 DEF ValuesOf
<1>6. CASE s # <<>>
  <2> PICK t, u : t = Tail(s) /\ u = Tail(v)
    OBVIOUS
  <2>1. /\ n # 0 /\ Len(t) = n - 1 /\ Head(s) = s[1]
        /\ \A i \in 1 .. n - 1 : t[i] = s[i + 1] /\ i + 1 \in 1 .. n
    BY <1>2, <1>6
  <2>2. v # <<>> /\ Head(v) = v[1] /\ u = [i \in 1 .. n - 1 |-> v[i + 1]] /\ 1 \in 1 .. n
    <3>1. Len(v) = n /\ v \in Seq(U) /\ n \in Nat /\ n # 0
      BY <1>2, <1>4, <2>1
    <3>2. /\ v # <<>> /\ Head(v) = v[1] /\ 1 \in 1 .. n
          /\ u \in Seq(U) /\ Len(u) = n - 1 /\ \A i \in 1 .. n - 1 : u[i] = v[i + 1]
      BY ONLY <3>1, u = Tail(v)
    <3>3. u = [i \in 1 .. n - 1 |-> u[i]]
      BY ONLY <3>1, <3>2
    <3> QED BY <3>2, <3>3
  <2>3. u = [i \in 1 .. n - 1 |-> Value(t[i], e)]
    BY <1>4, <2>1, <2>2, ZenonT(40)
  <2>4. ValuesOf(t, e) = u
    BY <2>1, <2>3 DEF ValuesOf
  <2> QED BY <1>4, <1>5, <2>1, <2>2, <2>4, <1>6
<1>7. CASE s = <<>>
  <2>1. n = 0 /\ 1 .. 0 = {}
    BY <1>7
  <2>2. v = <<>>
    BY <1>3, <2>1
  <2> QED BY <1>5, <1>7, <2>2
<1> QED BY <1>6, <1>7

LEMMA IndexMark ==
  ASSUME NEW left, NEW had, NEW f, NEW m, m = Todo("Index", Indexed(left, had, f))
  PROVE  /\ m.at = "Index" /\ Moving(m) /\ Kept(m) = Range(had)
         /\ \A e : Concrete(m, e) = Todo("Index", Indexed(left, ValuesOf(had, e), f))
         /\ \A e : MarkHolds(m, e) <=> \A a \in Range(had) : Has(a, e)
<1> PICK x : m = Todo("Index", x) /\ x = Indexed(left, had, f)
  OBVIOUS
<1>1. m.at = "Index" /\ m.x = x /\ x.left = left /\ x.had = had
  BY DEF Todo, Indexed
<1>2. \A vs : Indexed(left, vs, x) = Indexed(left, vs, f)
  BY DEF Indexed
<1>3. \A e : Concrete(m, e) = Todo("Index", Indexed(m.x.left, ValuesOf(m.x.had, e), m.x))
  BY <1>1, ConcretePlace, Zenon
<1>4. \A e : Concrete(m, e) = Todo("Index", Indexed(left, ValuesOf(had, e), f))
  BY <1>1, <1>2, <1>3
<1>5. /\ Moving(m) /\ Kept(m) = Range(had)
      /\ \A e : MarkHolds(m, e) <=> \A a \in Range(had) : Has(a, e)
  BY <1>1 DEF Moving, Kept, MarkHolds
<1> QED BY <1>1, <1>4, <1>5

LEMMA PlaceMark ==
  ASSUME NEW indices, NEW exp, NEW m, m = Todo("Place", Sought(indices, exp))
  PROVE  /\ m.at = "Place" /\ Moving(m) /\ Kept(m) = Range(indices)
         /\ \A e : Concrete(m, e) = Todo("Place", Sought(ValuesOf(indices, e), exp))
         /\ \A e : MarkHolds(m, e) <=> \A a \in Range(indices) : Has(a, e)
<1> PICK x : m = Todo("Place", x) /\ x = Sought(indices, exp)
  OBVIOUS
<1>1. m.at = "Place" /\ m.x = x /\ x.indices = indices /\ x.exp = exp
  BY DEF Todo, Sought
<1>2. \A e : Concrete(m, e) = Todo("Place", Sought(ValuesOf(m.x.indices, e), m.x.exp))
  BY <1>1, ConcretePlace, Zenon
<1>3. /\ Moving(m) /\ Kept(m) = Range(indices)
      /\ \A e : MarkHolds(m, e) <=> \A a \in Range(indices) : Has(a, e)
  BY <1>1 DEF Moving, Kept, MarkHolds
<1> QED BY <1>1, <1>2, <1>3

LEMMA IndexSteps ==
  ASSUME NEW f, NEW v, NEW left, NEW had
  PROVE  /\ left # <<>> =>
              Step(Todo("Index", Indexed(left, had, f)), v)
                = Becomes(<<ExpF(Head(left)), Todo("Index", Indexed(Tail(left), Append(had, v), f))>>, 0)
         /\ left = <<>> =>
              Step(Todo("Index", Indexed(left, had, f)), v)
                = Becomes(<<Todo("Place", Sought(Append(had, v), f.exp))>>,
                          IF f.pointer THEN Pointed ELSE Variable)
<1> PICK m, x : m = Todo("Index", x) /\ x = Indexed(left, had, f)
  OBVIOUS
<1>1. /\ m.at = "Index" /\ m.x = x /\ x.left = left /\ x.had = had
      /\ x.pointer = f.pointer /\ x.exp = f.exp
  BY DEF Todo, Indexed
<1>2. Step(m, v) = IndexStep(x, v)
  BY <1>1, StepOf, Zenon
<1>3. \A l, vs : Indexed(l, vs, x) = Indexed(l, vs, f)
  BY <1>1 DEF Indexed
<1> QED BY <1>1, <1>2, <1>3 DEF IndexStep

LEMMA PlaceSteps ==
  ASSUME NEW indices, NEW exp, NEW v
  PROVE  /\ indices # <<>> =>
              Step(Todo("Place", Sought(indices, exp)), v)
                = Becomes(<<Todo("Place", Sought(Tail(indices), exp))>>, Append(v, Head(indices)))
         /\ indices = <<>> =>
              Step(Todo("Place", Sought(indices, exp)), v)
                = Becomes(<<ExpF(exp), Todo("Assign", v)>>, 0)
<1> PICK m, x : m = Todo("Place", x) /\ x = Sought(indices, exp)
  OBVIOUS
<1>1. m.at = "Place" /\ m.x = x /\ x.indices = indices /\ x.exp = exp
  BY DEF Todo, Sought
<1>2. Step(m, v) = PlaceStep(x, v)
  BY <1>1, StepOf, Zenon
<1> QED BY <1>1, <1>2 DEF PlaceStep

\* The next index of several.
LEMMA TurnIndex ==
  ASSUME NEW f, f.pointer \in BOOLEAN, f.exp \in Exps, NEW left \in Seq(Exps), left # <<>>,
         NEW had \in Seq(Operands), NEW a \in Operands, NEW r \in Seq(Marks)
  PROVE  Turns(Point(Cons(Todo("Index", Indexed(left, had, f)), r), a),
               Point(Cons(ExpF(Head(left)),
                          Cons(Todo("Index", Indexed(Tail(left), Append(had, a), f)), r)), Imm(0)))
<1> PICK m, g, h, indices : /\ m = Todo("Index", Indexed(left, had, f)) /\ g = ExpF(Head(left))
                            /\ indices = Append(had, a)
                            /\ h = Todo("Index", Indexed(Tail(left), indices, f))
  OBVIOUS
<1>1. /\ Head(left) \in Exps /\ Tail(left) \in Seq(Exps) /\ indices \in Seq(Operands)
      /\ Range(indices) = Range(had) \cup {a}
  BY RangeParts
<1>2. m \in Marks /\ Moving(m) /\ g \in Marks /\ Steady(g, g) /\ h \in Marks
  BY <1>1, PlaceType, IndexMark, MarkType, Plain
<1>3. ASSUME NEW e, Applies(Point(Cons(m, r), a), e)
      PROVE  /\ Applies(Point(Cons(g, Cons(h, r)), Imm(0)), e)
             /\ \E n : /\ Step(Concrete(m, e), Value(a, e)) = Becomes(n, Value(Imm(0), e))
                       /\ n \o Stack(r, e) = Stack(Cons(g, Cons(h, r)), e)
  <2> PICK v, vs, k : /\ v = Value(a, e) /\ vs = ValuesOf(had, e)
                      /\ k = Todo("Index", Indexed(Tail(left), Append(vs, v), f))
    OBVIOUS
  <2>1. MarkHolds(m, e) /\ StackHolds(r, e) /\ Has(a, e)
    BY <1>2, <1>3, PointState, HoldsCons
  <2>2. \A x \in Range(indices) : Has(x, e)
    BY <1>1, <2>1, IndexMark
  <2>3. MarkHolds(h, e)
    BY <2>2, IndexMark
  <2>4. Concrete(h, e) = k
    <3>1. ValuesOf(indices, e) = Append(vs, v)
      BY ValuesFacts
    <3>2. Concrete(h, e) = Todo("Index", Indexed(Tail(left), ValuesOf(indices, e), f))
      BY IndexMark
    <3> QED BY <3>1, <3>2
  <2>5. Concrete(g, e) = g /\ MarkHolds(g, e)
    BY <1>2 DEF Steady
  <2>6. StackHolds(Cons(h, r), e) /\ Cons(h, r) \in Seq(Marks)
    BY <1>2, <2>1, <2>3, HoldsCons, ConsType
  <2>7. Applies(Point(Cons(g, Cons(h, r)), Imm(0)), e)
    BY <1>2, <2>5, <2>6, PointState, HoldsCons, ImmValue
  <2>8. <<g, k>> \o Stack(r, e) = Stack(Cons(g, Cons(h, r)), e)
    BY <1>2, <2>4, <2>5, StackTwo
  <2>9. Step(Concrete(m, e), v) = Becomes(<<g, k>>, 0)
    <3>1. Concrete(m, e) = Todo("Index", Indexed(left, vs, f))
      BY IndexMark
    <3>2. Step(Todo("Index", Indexed(left, vs, f)), v)
            = Becomes(<<ExpF(Head(left)), Todo("Index", Indexed(Tail(left), Append(vs, v), f))>>, 0)
      BY IndexSteps, Zenon
    <3> QED BY <3>1, <3>2, Zenon
  <2> QED BY <2>7, <2>8, <2>9, ImmValue, Zenon
<1>4. Turns(Point(Cons(m, r), a), Point(Cons(g, Cons(h, r)), Imm(0)))
  BY <1>2, <1>3, TurnIf
<1> QED BY <1>4

\* The last index of an array.
LEMMA TurnPlace ==
  ASSUME NEW f, f.pointer = FALSE, f.exp \in Exps,
         NEW had \in Seq(Operands), NEW a \in Operands, NEW r \in Seq(Marks)
  PROVE  Turns(Point(Cons(Todo("Index", Indexed(<<>>, had, f)), r), a),
               Point(Cons(Todo("Place", Sought(Append(had, a), f.exp)), r), Var(0)))
<1> PICK m, h, indices : /\ m = Todo("Index", Indexed(<<>>, had, f)) /\ indices = Append(had, a)
                         /\ h = Todo("Place", Sought(indices, f.exp))
  OBVIOUS
<1>1. /\ indices \in Seq(Operands) /\ <<>> \in Seq(Exps) /\ Range(indices) = Range(had) \cup {a}
  BY RangeParts
<1>2. m \in Marks /\ Moving(m) /\ h \in Marks
  BY <1>1, PlaceType, IndexMark
<1>3. ASSUME NEW e, Applies(Point(Cons(m, r), a), e)
      PROVE  /\ Applies(Point(Cons(h, r), Var(0)), e)
             /\ \E n : /\ Step(Concrete(m, e), Value(a, e)) = Becomes(n, Value(Var(0), e))
                       /\ n \o Stack(r, e) = Stack(Cons(h, r), e)
  <2> PICK v, vs, k : /\ v = Value(a, e) /\ vs = ValuesOf(had, e)
                      /\ k = Todo("Place", Sought(Append(vs, v), f.exp))
    OBVIOUS
  <2>1. MarkHolds(m, e) /\ StackHolds(r, e) /\ Has(a, e)
    BY <1>2, <1>3, PointState, HoldsCons
  <2>2. \A x \in Range(indices) : Has(x, e)
    BY <1>1, <2>1, IndexMark
  <2>3. MarkHolds(h, e)
    BY <2>2, PlaceMark
  <2>4. Concrete(h, e) = k
    <3>1. ValuesOf(indices, e) = Append(vs, v)
      BY ValuesFacts
    <3>2. Concrete(h, e) = Todo("Place", Sought(ValuesOf(indices, e), f.exp))
      BY PlaceMark
    <3> QED BY <3>1, <3>2
  <2>5. Value(Var(0), e) = Variable /\ Has(Var(0), e)
    BY DEF Value, Has, Var, IsLocal
  <2>6. Applies(Point(Cons(h, r), Var(0)), e)
    BY <1>2, <2>1, <2>3, <2>5, PointState, HoldsCons
  <2>7. <<k>> \o Stack(r, e) = Stack(Cons(h, r), e)
    BY <1>2, <2>4, StackOne
  <2>8. Step(Concrete(m, e), v) = Becomes(<<k>>, Variable)
    <3>1. Concrete(m, e) = Todo("Index", Indexed(<<>>, vs, f))
      BY IndexMark
    <3>2. Step(Todo("Index", Indexed(<<>>, vs, f)), v)
            = Becomes(<<Todo("Place", Sought(Append(vs, v), f.exp))>>,
                      IF f.pointer THEN Pointed ELSE Variable)
      BY IndexSteps, Zenon
    <3> QED BY <3>1, <3>2, Zenon
  <2> QED BY <2>5, <2>6, <2>7, <2>8, Zenon
<1>4. Turns(Point(Cons(m, r), a), Point(Cons(h, r), Var(0)))
  BY <1>2, <1>3, TurnIf
<1> QED BY <1>4

\* The item that computes what a part leaves: the part behind it holds old operands.
LEMMA ComputeKeeps ==
  ASSUME NEW m \in Marks, Moving(m), NEW g \in Marks, NEW r \in Seq(Marks), NEW n \in Nat,
         Sealed(Cons(g, r), n), NEW d \in Operands, New(d, n), NEW a, NEW e, NEW w,
         Applies(Point(Cons(m, r), a), e), MarkHolds(g, e),
         Step(Concrete(m, e), Value(a, e)) = Becomes(<<Concrete(g, e)>>, w)
  PROVE  /\ Applies(Point(Cons(g, r), d), Bind(e, d, w))
         /\ Reaches(State(Point(Cons(m, r), a), e), State(Point(Cons(g, r), d), Bind(e, d, w)))
<1> PICK c, x, s : c = Cons(g, r) /\ x = Bind(e, d, w) /\ s = Stack(c, e)
  OBVIOUS
<1>1. c \in Seq(Marks) /\ StackHolds(c, e)
  BY PointState, HoldsCons, ConsType
<1>2. StackHolds(c, x) /\ Stack(c, x) = s
  BY <1>1, Unmoved
<1>3. Has(d, x) /\ Value(d, x) = w
  <2>1. IsLocal(d)
    BY DEF New, IsLocal
  <2> QED BY <2>1, BindValue
<1>4. Applies(Point(c, d), x) /\ State(Point(c, d), x) = <<s, w>>
  BY <1>2, <1>3, PointState
<1>5. <<Concrete(g, e)>> \o Stack(r, e) = s
  BY StackOne
<1>6. Reaches(<<Stack(Cons(m, r), e), Value(a, e)>>, <<s, w>>)
  BY <1>5, OneStep, Zenon
<1> QED BY <1>4, <1>6, PointState

\* The last index of a pointer: it is loaded.
LEMMA FaithfulPointer ==
  ASSUME NEW f, f.pointer = TRUE, f.exp \in Exps, NEW n \in Nat,
         NEW had \in Seq(Operands), NEW a \in Operands, NEW r \in Seq(Marks), NEW L,
         Sealed(r, n), \A x \in Range(had) : Old(x, n), Old(a, n)
  PROVE  Faithful(Ins("load", Reg(n), <<Var(0)>>),
                  Point(Cons(Todo("Index", Indexed(<<>>, had, f)), r), a),
                  Point(Cons(Todo("Place", Sought(Append(had, a), f.exp)), r), Reg(n)), L)
<1> PICK d, it, m, h, indices :
      /\ d = Reg(n) /\ it = Ins("load", d, <<Var(0)>>)
      /\ m = Todo("Index", Indexed(<<>>, had, f)) /\ indices = Append(had, a)
      /\ h = Todo("Place", Sought(indices, f.exp))
  OBVIOUS
<1> PICK p, q : p = Point(Cons(m, r), a) /\ q = Point(Cons(h, r), d)
  OBVIOUS
<1>1. /\ indices \in Seq(Operands) /\ <<>> \in Seq(Exps) /\ Range(indices) = Range(had) \cup {a}
  BY RangeParts
<1>2. m \in Marks /\ Moving(m) /\ h \in Marks /\ Kept(h) = Range(indices)
  BY <1>1, PlaceType, IndexMark, PlaceMark
<1>3. Sealed(Cons(h, r), n)
  BY <1>1, <1>2, SealedCons
<1>4. it.op = "load" /\ it.to = <<>> /\ it.args = <<Var(0)>> /\ it.dst = d /\ Var(0)[1] = "@"
  BY DEF Ins, Item, Var
<1>5. \A e : Result(it, e) = Pointed
  <2>1. it.args[1] = Var(0)
    BY <1>4
  <2> QED BY <1>4, <2>1 DEF Result
<1>6. d \in Operands /\ New(d, n)
  BY DEF New, Reg, Operands
<1>7. ASSUME NEW e, Applies(p, e)
      PROVE  Applies(q, Bind(e, d, Pointed)) /\ Reaches(State(p, e), State(q, Bind(e, d, Pointed)))
  <2> PICK v, vs, k : /\ v = Value(a, e) /\ vs = ValuesOf(had, e)
                      /\ k = Todo("Place", Sought(Append(vs, v), f.exp))
    OBVIOUS
  <2>1. MarkHolds(m, e) /\ StackHolds(r, e) /\ Has(a, e)
    BY <1>2, <1>7, PointState, HoldsCons
  <2>2. \A x \in Range(indices) : Has(x, e)
    BY <1>1, <2>1, IndexMark
  <2>3. MarkHolds(h, e)
    BY <2>2, PlaceMark
  <2>4. Concrete(h, e) = k
    <3>1. ValuesOf(indices, e) = Append(vs, v)
      BY ValuesFacts
    <3>2. Concrete(h, e) = Todo("Place", Sought(ValuesOf(indices, e), f.exp))
      BY PlaceMark
    <3> QED BY <3>1, <3>2
  <2>5. Step(Concrete(m, e), v) = Becomes(<<k>>, Pointed)
    <3>1. Concrete(m, e) = Todo("Index", Indexed(<<>>, vs, f))
      BY IndexMark
    <3>2. Step(Todo("Index", Indexed(<<>>, vs, f)), v)
            = Becomes(<<Todo("Place", Sought(Append(vs, v), f.exp))>>,
                      IF f.pointer THEN Pointed ELSE Variable)
      BY IndexSteps, Zenon
    <3> QED BY <3>1, <3>2, Zenon
  <2> QED BY <1>2, <1>3, <1>6, <1>7, <2>3, <2>4, <2>5, ComputeKeeps
<1>8. \A e : Applies(p, e) =>
        /\ Applies(q, Bind(e, it.dst, Result(it, e)))
        /\ Reaches(State(p, e), State(q, Bind(e, it.dst, Result(it, e))))
  BY <1>4, <1>5, <1>7
<1>9. Faithful(it, p, q, L)
  <2>1. it.op \in Computes
    BY <1>4 DEF Computes
  <2> QED BY <1>4, <1>8, <2>1, FaithfulCompute, Zenon
<1> QED BY <1>9

\* One index more.
LEMMA FaithfulElem ==
  ASSUME NEW op \in {"getelemptr", "getptr"}, NEW indices \in Seq(Operands), indices # <<>>,
         NEW exp \in Exps, NEW n \in Nat, NEW b \in Operands, NEW r \in Seq(Marks), NEW L,
         Sealed(r, n), \A x \in Range(indices) : Old(x, n)
  PROVE  Faithful(Ins(op, Reg(n), <<b, Head(indices)>>),
                  Point(Cons(Todo("Place", Sought(indices, exp)), r), b),
                  Point(Cons(Todo("Place", Sought(Tail(indices), exp)), r), Reg(n)), L)
<1> PICK d, it, m, h, x :
      /\ d = Reg(n) /\ x = Head(indices) /\ it = Ins(op, d, <<b, x>>)
      /\ m = Todo("Place", Sought(indices, exp)) /\ h = Todo("Place", Sought(Tail(indices), exp))
  OBVIOUS
<1> PICK p, q : p = Point(Cons(m, r), b) /\ q = Point(Cons(h, r), d)
  OBVIOUS
<1>1. Tail(indices) \in Seq(Operands) /\ Range(Tail(indices)) \subseteq Range(indices)
  BY RangeParts
<1>2. m \in Marks /\ Moving(m) /\ h \in Marks /\ Kept(h) = Range(Tail(indices))
  BY <1>1, PlaceType, PlaceMark
<1>3. Sealed(Cons(h, r), n)
  BY <1>1, <1>2, SealedCons
<1>4. /\ it.op = op /\ it.to = <<>> /\ it.dst = d /\ it.args[1] = b /\ it.args[2] = x
  BY InsFields
<1>5. \A e : Result(it, e) = Append(Value(b, e), Value(x, e))
  BY <1>4 DEF Result
<1>6. d \in Operands /\ New(d, n)
  BY DEF New, Reg, Operands
<1>7. ASSUME NEW e, Applies(p, e)
      PROVE  LET w == Append(Value(b, e), Value(x, e))
             IN  Applies(q, Bind(e, d, w)) /\ Reaches(State(p, e), State(q, Bind(e, d, w)))
  <2> PICK v, vs, k : /\ v = Value(b, e) /\ vs = ValuesOf(indices, e)
                      /\ k = Todo("Place", Sought(Tail(vs), exp))
    OBVIOUS
  <2>1. MarkHolds(m, e)
    BY <1>2, <1>7, PointState, HoldsCons
  <2>2. \A y \in Range(Tail(indices)) : Has(y, e)
    BY <1>1, <2>1, PlaceMark
  <2>3. MarkHolds(h, e)
    BY <2>2, PlaceMark
  <2>4. vs # <<>> /\ Head(vs) = Value(x, e) /\ ValuesOf(Tail(indices), e) = Tail(vs)
    BY ValuesFacts
  <2>5. Concrete(h, e) = k
    <3>1. Concrete(h, e) = Todo("Place", Sought(ValuesOf(Tail(indices), e), exp))
      BY PlaceMark
    <3> QED BY <2>4, <3>1
  <2>6. Step(Concrete(m, e), v) = Becomes(<<k>>, Append(v, Value(x, e)))
    <3>1. Concrete(m, e) = Todo("Place", Sought(vs, exp))
      BY PlaceMark
    <3>2. Step(Todo("Place", Sought(vs, exp)), v) = Becomes(<<k>>, Append(v, Head(vs)))
      BY <2>4, PlaceSteps, Zenon
    <3> QED BY <2>4, <3>1, <3>2
  <2> QED BY <1>2, <1>3, <1>6, <1>7, <2>3, <2>5, <2>6, ComputeKeeps
<1>8. \A e : Applies(p, e) =>
        /\ Applies(q, Bind(e, it.dst, Result(it, e)))
        /\ Reaches(State(p, e), State(q, Bind(e, it.dst, Result(it, e))))
  BY <1>4, <1>5, <1>7
<1>9. Faithful(it, p, q, L)
  <2>1. it.op \in Computes
    BY <1>4 DEF Computes
  <2> QED BY <1>4, <1>8, <2>1, FaithfulCompute, Zenon
<1> QED BY <1>9

\* The address is complete.
LEMMA TurnElem ==
  ASSUME NEW exp \in Exps, NEW b \in Operands, NEW r \in Seq(Marks)
  PROVE  Turns(Point(Cons(Todo("Place", Sought(<<>>, exp)), r), b),
               Point(Cons(ExpF(exp), Cons(Todo("Assign", b), r)), Imm(0)))
<1> PICK m, g, h : /\ m = Todo("Place", Sought(<<>>, exp)) /\ g = ExpF(exp)
                   /\ h = Todo("Assign", b)
  OBVIOUS
<1>1. <<>> \in Seq(Operands) /\ \A e : ValuesOf(<<>>, e) = <<>>
  <2>0. <<>> \in Seq(Operands)
    OBVIOUS
  <2> PICK s \in Seq(Operands) : s = <<>>
    BY <2>0
  <2>1. \A e : ValuesOf(s, e) = <<>>
    BY ValuesFacts
  <2> QED BY <2>1
<1>2. m \in Marks /\ Moving(m) /\ g \in Marks /\ Steady(g, g) /\ h \in Marks
  BY <1>1, PlaceType, PlaceMark, MarkType, Plain
<1>3. ASSUME NEW e, Applies(Point(Cons(m, r), b), e)
      PROVE  /\ Applies(Point(Cons(g, Cons(h, r)), Imm(0)), e)
             /\ \E n : /\ Step(Concrete(m, e), Value(b, e)) = Becomes(n, Value(Imm(0), e))
                       /\ n \o Stack(r, e) = Stack(Cons(g, Cons(h, r)), e)
  <2> PICK v, k : v = Value(b, e) /\ k = Todo("Assign", v)
    OBVIOUS
  <2>1. StackHolds(r, e) /\ Has(b, e)
    BY <1>2, <1>3, PointState, HoldsCons
  <2>2. Concrete(h, e) = k /\ MarkHolds(h, e)
    <3>1. h.at = "Assign" /\ h.x = b
      BY MarkType
    <3> QED BY <2>1, <3>1, ConcreteAt DEF MarkHolds
  <2>3. Concrete(g, e) = g /\ MarkHolds(g, e)
    BY <1>2 DEF Steady
  <2>4. StackHolds(Cons(h, r), e) /\ Cons(h, r) \in Seq(Marks)
    BY <1>2, <2>1, <2>2, HoldsCons, ConsType
  <2>5. Applies(Point(Cons(g, Cons(h, r)), Imm(0)), e)
    BY <1>2, <2>3, <2>4, PointState, HoldsCons, ImmValue
  <2>6. <<g, k>> \o Stack(r, e) = Stack(Cons(g, Cons(h, r)), e)
    BY <1>2, <2>2, <2>3, StackTwo
  <2>7. Step(Concrete(m, e), v) = Becomes(<<g, k>>, 0)
    <3>1. Concrete(m, e) = Todo("Place", Sought(ValuesOf(<<>>, e), exp))
      BY PlaceMark
    <3>2. Concrete(m, e) = Todo("Place", Sought(<<>>, exp))
      BY <1>1, <3>1
    <3>3. Step(Todo("Place", Sought(<<>>, exp)), v) = Becomes(<<ExpF(exp), Todo("Assign", v)>>, 0)
      BY PlaceSteps, Zenon
    <3> QED BY <3>2, <3>3
  <2> QED BY <2>5, <2>6, <2>7, ImmValue, Zenon
<1>4. Turns(Point(Cons(m, r), b), Point(Cons(g, Cons(h, r)), Imm(0)))
  BY <1>2, <1>3, TurnIf
<1> QED BY <1>4
-----------------------------------------------------------------------------
(* The operators || and && behind their right operand *)

\* The left operand, lhs, did not decide; the right one is a.
Deciding(tag, lhs, r, a) == Point(Cons(Todo("Bool", <<tag, lhs>>), r), a)
\* A state about whose operands something is known.
Knowing(c, a, know) == [src |-> c, data |-> a, know |-> know]

LEMMA KnowingState ==
  ASSUME NEW c, NEW a, NEW know, NEW e
  PROVE  /\ State(Knowing(c, a, know), e) = <<Stack(c, e), Value(a, e)>>
         /\ Applies(Knowing(c, a, know), e) <=>
              /\ StackHolds(c, e) /\ Has(a, e)
              /\ \A q \in know : Has(q[1], e) /\ Value(q[1], e) \in q[2]
  BY DEF State, Conf, Applies, Knowing

LEMMA KnowingOne ==
  ASSUME NEW c, NEW a, NEW d, NEW S, NEW e
  PROVE  Applies(Knowing(c, a, {<<d, S>>}), e) <=>
           StackHolds(c, e) /\ Has(a, e) /\ Has(d, e) /\ Value(d, e) \in S
<1>1. <<d, S>>[1] = d /\ <<d, S>>[2] = S
  OBVIOUS
<1>2. (\A q \in {<<d, S>>} : Has(q[1], e) /\ Value(q[1], e) \in q[2])
        <=> Has(<<d, S>>[1], e) /\ Value(<<d, S>>[1], e) \in <<d, S>>[2]
  OBVIOUS
<1> QED BY <1>1, <1>2, KnowingState, Zenon

\* 0 or 1, as an operand of || and && counts.
Sign(v) == IF v # 0 THEN 1 ELSE 0

LEMMA DecidingState ==
  ASSUME NEW tag \in {"lor", "land"}, NEW lhs \in Operands, NEW r \in Seq(Marks), NEW a, NEW e
  PROVE  /\ State(Deciding(tag, lhs, r, a), e) =
              <<Stack(Cons(Todo("Bool", <<tag, lhs>>), r), e), Value(a, e)>>
         /\ Applies(Deciding(tag, lhs, r, a), e) <=>
              /\ StackHolds(r, e) /\ Has(a, e) /\ Has(lhs, e)
              /\ (tag = "lor" <=> Value(lhs, e) = 0)
         /\ Reaches(State(Deciding(tag, lhs, r, a), e), <<Stack(r, e), Sign(Value(a, e))>>)
<1> PICK m : m = Todo("Bool", <<tag, lhs>>)
  OBVIOUS
<1>1. m \in Marks
  BY MarkType, Zenon
<1>2. m.at = "Bool" /\ m.x = <<tag, lhs>>
  BY DEF Todo
<1>3. m.x[1] = tag /\ m.x[2] = lhs
  BY <1>2
<1>4. State(Point(Cons(m, r), a), e) = <<Stack(Cons(m, r), e), Value(a, e)>>
  BY PointState
<1>5. Applies(Point(Cons(m, r), a), e) <=>
        /\ StackHolds(r, e) /\ Has(a, e) /\ Has(lhs, e) /\ (tag = "lor" <=> Value(lhs, e) = 0)
  <2>1. MarkHolds(m, e) <=> Has(lhs, e) /\ (tag = "lor" <=> Value(lhs, e) = 0)
    BY <1>2, <1>3 DEF MarkHolds
  <2> QED BY <1>1, <2>1, PointState, HoldsCons
<1>6. Reaches(<<Stack(Cons(m, r), e), Value(a, e)>>, <<Stack(r, e), Sign(Value(a, e))>>)
  <2> PICK f, v : f = Concrete(m, e) /\ v = Value(a, e)
    OBVIOUS
  <2>1. f.at = "Bool" /\ Moving(m)
    BY <1>2, ConcreteAt DEF Moving
  <2>2. Step(f, v) = Becomes(<<>>, Sign(v))
    BY <2>1, StepOf, Zenon DEF Sign, Truth
  <2>3. <<>> \o Stack(r, e) = Stack(r, e)
    BY StackNone
  <2> QED BY <1>1, <2>1, <2>2, <2>3, OneStep, Zenon
<1> QED BY <1>4, <1>5, <1>6 DEF Deciding

LEMMA OldMoves ==
  ASSUME NEW a \in Operands, NEW n \in Nat, Old(a, n), NEW d \in Operands, New(d, n), NEW e, NEW v,
         Has(a, e)
  PROVE  Has(a, Bind(e, d, v)) /\ Value(a, Bind(e, d, v)) = Value(a, e)
<1>1. a # d
  BY Apart
<1>2. IsLocal(a) \/ a[1] = "imm"
  BY DEF Old, IsLocal
<1> QED BY <1>1, <1>2, BindValue

LEMMA RegNew ==
  ASSUME NEW n \in Nat, NEW m \in Nat, n <= m
  PROVE  Reg(m) \in Operands /\ New(Reg(m), n) /\ IsLocal(Reg(m))
BY DEF New, Reg, Operands, IsLocal

LEMMA ResultOf ==
  ASSUME NEW it, NEW e
  PROVE  /\ it.op = "or" => Result(it, e) = Truth(Value(it.args[1], e) # 0 \/ Value(it.args[2], e) # 0)
         /\ it.op = "ne" => Result(it, e) = Truth(Value(it.args[1], e) # Value(it.args[2], e))
         /\ it.op = "and" => Result(it, e) = Truth(Value(it.args[1], e) = 1 /\ Value(it.args[2], e) = 1)
BY DEF Result

LEMMA FaithfulOr ==
  ASSUME NEW lhs \in Operands, NEW r \in Seq(Marks), NEW a \in Operands, NEW n \in Nat,
         Sealed(r, n), NEW L
  PROVE  /\ Faithful(Ins("or", Reg(n), <<lhs, a>>), Deciding("lor", lhs, r, a),
                     Knowing(r, Reg(n), {<<Reg(n), {0, 1}>>}), L)
         /\ Faithful(Ins("ne", Reg(n + 1), <<Reg(n), Imm(0)>>),
                     Knowing(r, Reg(n), {<<Reg(n), {0, 1}>>}), Point(r, Reg(n + 1)), L)
<1> PICK d, f, it, next, p, q, u :
      /\ d = Reg(n) /\ f = Reg(n + 1) /\ it = Ins("or", d, <<lhs, a>>)
      /\ next = Ins("ne", f, <<d, Imm(0)>>) /\ p = Deciding("lor", lhs, r, a)
      /\ q = Knowing(r, d, {<<d, {0, 1}>>}) /\ u = Point(r, f)
  BY Zenon
<1>1. d \in Operands /\ New(d, n) /\ IsLocal(d) /\ f \in Operands /\ New(f, n) /\ IsLocal(f)
  BY RegNew
<1>2. /\ it.op = "or" /\ it.to = <<>> /\ it.dst = d /\ it.args[1] = lhs /\ it.args[2] = a
      /\ next.op = "ne" /\ next.to = <<>> /\ next.dst = f /\ next.args[1] = d /\ next.args[2] = Imm(0)
  BY InsFields
<1>3. ASSUME NEW e, Applies(p, e)
      PROVE  LET w == Bind(e, d, Result(it, e)) IN Applies(q, w) /\ Reaches(State(p, e), State(q, w))
  <2> PICK v, w : v = Sign(Value(a, e)) /\ w = Bind(e, d, v)
    OBVIOUS
  <2>1. StackHolds(r, e) /\ Value(lhs, e) = 0 /\ Reaches(State(p, e), <<Stack(r, e), v>>)
    <3> PICK tag : tag = "lor"
      OBVIOUS
    <3>1. /\ tag \in {"lor", "land"} /\ p = Deciding(tag, lhs, r, a)
          /\ lhs \in Operands /\ r \in Seq(Marks) /\ v = Sign(Value(a, e))
      OBVIOUS
    <3>2. Applies(p, e) <=> /\ StackHolds(r, e) /\ Has(a, e) /\ Has(lhs, e)
                            /\ (tag = "lor" <=> Value(lhs, e) = 0)
      BY ONLY <3>1, DecidingState, Zenon
    <3>4. Reaches(State(Deciding(tag, lhs, r, a), e), <<Stack(r, e), Sign(Value(a, e))>>)
      BY ONLY <3>1, DecidingState, Zenon
    <3>3. Reaches(State(p, e), <<Stack(r, e), v>>)
      BY ONLY <3>1, <3>4
    <3> QED BY <1>3, <3>2, <3>3
  <2>2. Result(it, e) = v
    BY <1>2, <2>1, ResultOf DEF Truth, Sign
  <2>3. StackHolds(r, w) /\ Stack(r, w) = Stack(r, e) /\ Has(d, w) /\ Value(d, w) = v
    BY <1>1, <2>1, Unmoved, BindValue
  <2>4. v \in {0, 1}
    BY DEF Sign
  <2>5. Applies(q, w) /\ State(q, w) = <<Stack(r, e), v>>
    BY <2>3, <2>4, KnowingState
  <2> QED BY <2>1, <2>2, <2>5, Zenon
<1>4. ASSUME NEW e, Applies(q, e)
      PROVE  LET w == Bind(e, f, Result(next, e)) IN Applies(u, w) /\ Reaches(State(q, e), State(u, w))
  <2> PICK v, w : v = Value(d, e) /\ w = Bind(e, f, v)
    OBVIOUS
  <2>1. StackHolds(r, e) /\ State(q, e) = <<Stack(r, e), v>> /\ v \in {0, 1}
    <3>1. StackHolds(r, e) /\ v \in {0, 1}
      BY <1>4, KnowingOne, Zenon
    <3> QED BY <3>1, KnowingState
  <2>2. Result(next, e) = v
    <3>1. Result(next, e) = Truth(v # 0)
      BY <1>2, ResultOf, ImmValue
    <3> QED BY <2>1, <3>1 DEF Truth
  <2>3. StackHolds(r, w) /\ Stack(r, w) = Stack(r, e) /\ Has(f, w) /\ Value(f, w) = v
    BY <1>1, <2>1, Unmoved, BindValue
  <2>4. Applies(u, w) /\ State(u, w) = State(q, e)
    BY <2>1, <2>3, PointState
  <2> QED BY <2>2, <2>4, ReachesSame
<1>5. Faithful(it, p, q, L)
  <2>1. \A e : Applies(p, e) => /\ Applies(q, Bind(e, it.dst, Result(it, e)))
                                /\ Reaches(State(p, e), State(q, Bind(e, it.dst, Result(it, e))))
    BY <1>2, <1>3, Zenon
  <2>2. it.op \in Computes /\ it.to = <<>>
    BY <1>2 DEF Computes
  <2> QED BY ONLY <2>1, <2>2, FaithfulCompute
<1>6. Faithful(next, q, u, L)
  <2>1. \A e : Applies(q, e) =>
          /\ Applies(u, Bind(e, next.dst, Result(next, e)))
          /\ Reaches(State(q, e), State(u, Bind(e, next.dst, Result(next, e))))
    BY <1>2, <1>4, Zenon
  <2>2. next.op \in Computes /\ next.to = <<>>
    BY <1>2 DEF Computes
  <2> QED BY ONLY <2>1, <2>2, FaithfulCompute
<1> QED BY <1>5, <1>6

\* The two registers of && behind its first two items.
AndKnown(n) == {<<Reg(n), {1}>>, <<Reg(n + 1), {0, 1}>>}

LEMMA FaithfulAnd ==
  ASSUME NEW r \in Seq(Marks), NEW n \in Nat, Sealed(r, n), NEW L
  PROVE  Faithful(Ins("and", Reg(n + 2), <<Reg(n + 1), Reg(n)>>),
                  Knowing(r, Reg(n + 1), AndKnown(n)), Point(r, Reg(n + 2)), L)
<1> PICK d, f, g, it, p, q :
      /\ d = Reg(n) /\ f = Reg(n + 1) /\ g = Reg(n + 2) /\ it = Ins("and", g, <<f, d>>)
      /\ p = Knowing(r, f, AndKnown(n)) /\ q = Point(r, g)
  OBVIOUS
<1>1. g \in Operands /\ New(g, n) /\ IsLocal(g)
  BY RegNew
<1>2. it.op = "and" /\ it.to = <<>> /\ it.dst = g /\ it.args[1] = f /\ it.args[2] = d
  BY InsFields
<1>3. ASSUME NEW e, Applies(p, e)
      PROVE  LET w == Bind(e, g, Result(it, e)) IN Applies(q, w) /\ Reaches(State(p, e), State(q, w))
  <2> PICK v, w : v = Value(f, e) /\ w = Bind(e, g, v)
    OBVIOUS
  <2>1. StackHolds(r, e) /\ State(p, e) = <<Stack(r, e), v>>
    BY <1>3, KnowingState
  <2>2. Value(d, e) = 1 /\ v \in {0, 1}
    <3>1. \A x \in AndKnown(n) : Value(x[1], e) \in x[2]
      BY <1>3, KnowingState
    <3> QED BY <3>1 DEF AndKnown
  <2>3. Result(it, e) = v
    <3>1. Result(it, e) = Truth(v = 1 /\ Value(d, e) = 1)
      BY <1>2, ResultOf
    <3> QED BY <2>2, <3>1 DEF Truth
  <2>4. StackHolds(r, w) /\ Stack(r, w) = Stack(r, e) /\ Has(g, w) /\ Value(g, w) = v
    BY <1>1, <2>1, Unmoved, BindValue
  <2>5. Applies(q, w) /\ State(q, w) = State(p, e)
    BY <2>1, <2>4, PointState
  <2> QED BY <2>3, <2>5, ReachesSame
<1>4. Faithful(it, p, q, L)
  BY <1>2, <1>3, FaithfulCompute DEF Computes
<1> QED BY <1>4

\* Behind the first item of &&: the left operand is known as 1.
LhsKnown(lhs, r, a, n) == Knowing(Cons(Todo("Bool", <<"land", lhs>>), r), a, {<<Reg(n), {1}>>})

LEMMA LhsState ==
  ASSUME NEW lhs \in Operands, NEW r \in Seq(Marks), NEW a, NEW n, NEW e
  PROVE  /\ Applies(LhsKnown(lhs, r, a, n), e) <=>
              /\ Applies(Deciding("land", lhs, r, a), e)
              /\ Has(Reg(n), e) /\ Value(Reg(n), e) = 1
         /\ State(LhsKnown(lhs, r, a, n), e) = State(Deciding("land", lhs, r, a), e)
<1> PICK m, d : m = Cons(Todo("Bool", <<"land", lhs>>), r) /\ d = Reg(n)
  OBVIOUS
<1>2. Applies(Knowing(m, a, {<<d, {1}>>}), e) <=>
        Applies(Point(m, a), e) /\ Has(d, e) /\ Value(d, e) = 1
  <2>1. Applies(Knowing(m, a, {<<d, {1}>>}), e) <=>
          StackHolds(m, e) /\ Has(a, e) /\ Has(d, e) /\ Value(d, e) \in {1}
    BY ONLY KnowingOne, Zenon
  <2>2. Applies(Point(m, a), e) <=> StackHolds(m, e) /\ Has(a, e)
    BY ONLY PointState
  <2> QED BY ONLY <2>1, <2>2
<1>3. State(Knowing(m, a, {<<d, {1}>>}), e) = State(Point(m, a), e)
  BY KnowingState, PointState
<1> QED BY <1>2, <1>3 DEF LhsKnown, Deciding

LEMMA FaithfulAndLeft ==
  ASSUME NEW lhs \in Operands, NEW r \in Seq(Marks), NEW a \in Operands, NEW n \in Nat,
         Sealed(r, n), Old(lhs, n), Old(a, n), NEW L
  PROVE  Faithful(Ins("ne", Reg(n), <<lhs, Imm(0)>>), Deciding("land", lhs, r, a),
                  LhsKnown(lhs, r, a, n), L)
<1> PICK d, it, p, q :
      /\ d = Reg(n) /\ it = Ins("ne", d, <<lhs, Imm(0)>>)
      /\ p = Deciding("land", lhs, r, a) /\ q = LhsKnown(lhs, r, a, n)
  OBVIOUS
<1>1. d \in Operands /\ New(d, n) /\ IsLocal(d)
  BY RegNew
<1>2. it.op = "ne" /\ it.to = <<>> /\ it.dst = d /\ it.args[1] = lhs /\ it.args[2] = Imm(0)
  BY InsFields
<1> PICK m : m = Todo("Bool", <<"land", lhs>>)
  OBVIOUS
<1>3. m \in Marks
  BY MarkType, Zenon
<1>4. Cons(m, r) \in Seq(Marks) /\ Sealed(Cons(m, r), n)
  <2>1. m.at = "Bool" /\ m.x[2] = lhs
    BY DEF Todo
  <2>2. Kept(m) = {lhs}
    BY <2>1 DEF Kept
  <2> QED BY <1>3, <2>2, SealedCons, ConsType, Zenon
<1>5. ASSUME NEW e, Applies(p, e)
      PROVE  LET w == Bind(e, d, Result(it, e)) IN Applies(q, w) /\ Reaches(State(p, e), State(q, w))
  <2> PICK w : w = Bind(e, d, 1)
    OBVIOUS
  <2>1. /\ StackHolds(r, e) /\ Has(a, e) /\ Has(lhs, e) /\ Value(lhs, e) # 0
        /\ State(p, e) = <<Stack(Cons(m, r), e), Value(a, e)>>
    <3> PICK tag : tag = "land"
      OBVIOUS
    <3>1. /\ tag \in {"lor", "land"} /\ tag # "lor" /\ p = Deciding(tag, lhs, r, a)
          /\ lhs \in Operands /\ r \in Seq(Marks) /\ m = Todo("Bool", <<tag, lhs>>)
      OBVIOUS
    <3>2. Applies(p, e) <=> /\ StackHolds(r, e) /\ Has(a, e) /\ Has(lhs, e)
                            /\ (tag = "lor" <=> Value(lhs, e) = 0)
      BY ONLY <3>1, DecidingState, Zenon
    <3>3. State(p, e) = <<Stack(Cons(m, r), e), Value(a, e)>>
      BY PointState DEF Deciding
    <3> QED BY <1>5, <3>1, <3>2, <3>3
  <2>2. StackHolds(Cons(m, r), e)
    <3>1. Applies(Point(Cons(m, r), a), e)
      BY <1>5 DEF Deciding
    <3> QED BY <3>1, PointState
  <2>3. Result(it, e) = 1
    BY <1>2, <2>1, ResultOf, ImmValue DEF Truth
  <2>4. StackHolds(Cons(m, r), w) /\ Stack(Cons(m, r), w) = Stack(Cons(m, r), e)
    BY <1>1, <1>4, <2>2, Unmoved
  <2>5. Has(a, w) /\ Value(a, w) = Value(a, e) /\ Has(d, w) /\ Value(d, w) = 1
    BY <1>1, <2>1, OldMoves, BindValue
  <2>6. Applies(Deciding("land", lhs, r, a), w) /\ State(Deciding("land", lhs, r, a), w) = State(p, e)
    BY <2>1, <2>4, <2>5, PointState DEF Deciding
  <2>7. Applies(q, w) /\ State(q, w) = State(p, e)
    BY <2>5, <2>6, LhsState
  <2> QED BY <2>3, <2>7, ReachesSame
<1>6. Faithful(it, p, q, L)
  BY <1>2, <1>5, FaithfulCompute DEF Computes
<1> QED BY <1>6

LEMMA FaithfulAndRight ==
  ASSUME NEW lhs \in Operands, NEW r \in Seq(Marks), NEW a \in Operands, NEW n \in Nat,
         Sealed(r, n), NEW L
  PROVE  Faithful(Ins("ne", Reg(n + 1), <<a, Imm(0)>>), LhsKnown(lhs, r, a, n),
                  Knowing(r, Reg(n + 1), AndKnown(n)), L)
<1> PICK d, f, it, p, q :
      /\ d = Reg(n) /\ f = Reg(n + 1) /\ it = Ins("ne", f, <<a, Imm(0)>>)
      /\ p = LhsKnown(lhs, r, a, n) /\ q = Knowing(r, f, AndKnown(n))
  OBVIOUS
<1>1. f \in Operands /\ New(f, n) /\ IsLocal(f) /\ d \in Operands /\ IsLocal(d)
  BY RegNew
<1>2. it.op = "ne" /\ it.to = <<>> /\ it.dst = f /\ it.args[1] = a /\ it.args[2] = Imm(0)
  BY InsFields
<1>3. ASSUME NEW e, Applies(p, e)
      PROVE  LET w == Bind(e, f, Result(it, e)) IN Applies(q, w) /\ Reaches(State(p, e), State(q, w))
  <2> PICK v, w : v = Sign(Value(a, e)) /\ w = Bind(e, f, v)
    OBVIOUS
  <2>1. Applies(Deciding("land", lhs, r, a), e) /\ Has(d, e) /\ Value(d, e) = 1
    BY <1>3, LhsState
  <2>2. StackHolds(r, e) /\ Reaches(State(p, e), <<Stack(r, e), v>>)
    <3> PICK tag, u : tag = "land" /\ u = Deciding(tag, lhs, r, a)
      OBVIOUS
    <3>1. Applies(u, e) /\ State(p, e) = State(u, e)
      BY <2>1, LhsState
    <3>4. /\ tag \in {"lor", "land"} /\ u = Deciding(tag, lhs, r, a)
          /\ lhs \in Operands /\ r \in Seq(Marks) /\ v = Sign(Value(a, e))
      OBVIOUS
    <3>2. Applies(u, e) => StackHolds(r, e)
      BY ONLY <3>4, DecidingState, Zenon
    <3>5. Reaches(State(Deciding(tag, lhs, r, a), e), <<Stack(r, e), Sign(Value(a, e))>>)
      BY ONLY <3>4, DecidingState, Zenon
    <3>3. Reaches(State(u, e), <<Stack(r, e), v>>)
      BY ONLY <3>4, <3>5
    <3> QED BY <3>1, <3>2, <3>3
  <2>3. Result(it, e) = v
    BY <1>2, ResultOf, ImmValue DEF Truth, Sign
  <2>4. StackHolds(r, w) /\ Stack(r, w) = Stack(r, e) /\ Has(f, w) /\ Value(f, w) = v
    BY <1>1, <2>2, Unmoved, BindValue
  <2>5. Has(d, w) /\ Value(d, w) = 1
    <3>1. Old(d, n + 1) /\ New(f, n + 1)
      BY DEF Old, New, Reg
    <3> QED BY <1>1, <2>1, <3>1, OldMoves
  <2>6. v \in {0, 1}
    BY DEF Sign
  <2>7. \A x \in AndKnown(n) : Has(x[1], w) /\ Value(x[1], w) \in x[2]
    BY <2>4, <2>5, <2>6 DEF AndKnown
  <2>8. Applies(q, w) /\ State(q, w) = <<Stack(r, e), v>>
    BY <2>4, <2>7, KnowingState
  <2> QED BY <2>2, <2>3, <2>8
<1>4. Faithful(it, p, q, L)
  <2>1. \A e : Applies(p, e) => /\ Applies(q, Bind(e, it.dst, Result(it, e)))
                                /\ Reaches(State(p, e), State(q, Bind(e, it.dst, Result(it, e))))
    BY <1>2, <1>3
  <2>2. it.op \in Computes /\ it.to = <<>>
    BY <1>2 DEF Computes
  <2> QED BY ONLY <2>1, <2>2, FaithfulCompute
<1> QED BY <1>4

-----------------------------------------------------------------------------
(* Several items *)

\* Tuples of three and of four, piece by piece.
LEMMA TrailTwo ==
  ASSUME NEW k \in Seq(Items), NEW L, NEW s, NEW h, Trail(k, L, s, h), NEW p, NEW q,
         NEW a \in Items, NEW b \in Items, Faithful(a, h, p, L), Faithful(b, p, q, L)
  PROVE  k \o <<a, b>> \in Seq(Items) /\ Trail(k \o <<a, b>>, L, s, q)
<1> PICK t : t = k \o <<a>>
  BY Zenon
<1>1. t \in Seq(Items) /\ Trail(t, L, s, p)
  BY TrailWrite
<1>2. t \o <<b>> \in Seq(Items) /\ Trail(t \o <<b>>, L, s, q)
  BY <1>1, TrailWrite, Zenon
<1>3. k \o <<a, b>> = t \o <<b>>
  <2> PICK S : S = Items
    OBVIOUS
  <2>1. k \in Seq(S) /\ a \in S /\ b \in S
    OBVIOUS
  <2>2. <<a>> \in Seq(S) /\ <<b>> \in Seq(S)
    BY ONLY <2>1
  <2>3. <<a>> \o <<b>> = <<a, b>>
    BY ONLY <2>1, Pair
  <2>4. (k \o <<a>>) \o <<b>> = k \o (<<a>> \o <<b>>)
    BY ONLY <2>1, <2>2, ConcatAssociative
  <2> QED BY <2>3, <2>4, Zenon
<1> QED BY <1>2, <1>3, Zenon

LEMMA TrailThree ==
  ASSUME NEW k \in Seq(Items), NEW L, NEW s, NEW h, Trail(k, L, s, h), NEW p, NEW q, NEW u,
         NEW a \in Items, NEW b \in Items, NEW c \in Items,
         Faithful(a, h, p, L), Faithful(b, p, q, L), Faithful(c, q, u, L)
  PROVE  k \o <<a, b, c>> \in Seq(Items) /\ Trail(k \o <<a, b, c>>, L, s, u)
<1> PICK t : t = k \o <<a, b>>
  BY Zenon
<1>1. t \in Seq(Items) /\ Trail(t, L, s, q)
  BY TrailTwo
<1>2. t \o <<c>> \in Seq(Items) /\ Trail(t \o <<c>>, L, s, u)
  BY <1>1, TrailWrite, Zenon
<1>3. k \o <<a, b, c>> = t \o <<c>>
  <2> PICK S : S = Items
    OBVIOUS
  <2>1. k \in Seq(S) /\ a \in S /\ b \in S /\ c \in S
    OBVIOUS
  <2>2. <<a, b>> \in Seq(S) /\ <<c>> \in Seq(S)
    BY ONLY <2>1
  <2>3. <<a, b>> \o <<c>> = <<a, b, c>>
    BY ONLY <2>1, ThreeJoined
  <2>4. (k \o <<a, b>>) \o <<c>> = k \o (<<a, b>> \o <<c>>)
    BY ONLY <2>1, <2>2, ConcatAssociative
  <2> QED BY <2>3, <2>4, Zenon
<1> QED BY <1>2, <1>3, Zenon

LEMMA TrailFour ==
  ASSUME NEW k \in Seq(Items), NEW L, NEW s, NEW h, Trail(k, L, s, h), NEW p, NEW q, NEW u, NEW v,
         NEW a \in Items, NEW b \in Items, NEW c \in Items, NEW d \in Items,
         Faithful(a, h, p, L), Faithful(b, p, q, L), Faithful(c, q, u, L), Faithful(d, u, v, L)
  PROVE  k \o <<a, b, c, d>> \in Seq(Items) /\ Trail(k \o <<a, b, c, d>>, L, s, v)
<1> PICK t : t = k \o <<a, b, c>>
  BY Zenon
<1>1. t \in Seq(Items) /\ Trail(t, L, s, u)
  BY TrailThree
<1>2. t \o <<d>> \in Seq(Items) /\ Trail(t \o <<d>>, L, s, v)
  BY <1>1, TrailWrite, Zenon
<1>3. k \o <<a, b, c, d>> = t \o <<d>>
  <2> PICK S : S = Items
    OBVIOUS
  <2>1. k \in Seq(S) /\ a \in S /\ b \in S /\ c \in S /\ d \in S
    OBVIOUS
  <2>2. <<a, b, c>> \in Seq(S) /\ <<d>> \in Seq(S)
    BY ONLY <2>1
  <2>3. <<a, b, c>> \o <<d>> = <<a, b, c, d>>
    BY ONLY <2>1, FourJoined
  <2>4. (k \o <<a, b, c>>) \o <<d>> = k \o (<<a, b, c>> \o <<d>>)
    BY ONLY <2>1, <2>2, ConcatAssociative
  <2> QED BY <2>3, <2>4, Zenon
<1> QED BY <1>2, <1>3, Zenon

LEMMA ComputeItems ==
  /\ \A n \in Nat : Reg(n) \in Operands
  /\ Imm(0) \in Operands /\ Imm(1) \in Operands
  /\ \A op \in Computes, r, a \in Operands : Ins(op, r, <<a>>) \in Items
  /\ \A op \in Computes, r, a, b \in Operands : Ins(op, r, <<a, b>>) \in Items
<1>1. \A a \in Operands : <<a>> \in Seq(Operands)
  OBVIOUS
<1>2. \A a, b \in Operands : <<a, b>> \in Seq(Operands)
  OBVIOUS
<1>3. \A op \in Computes : op \in {"ins", "getelemptr", "getptr", "or", "ne", "and", "load"}
  BY DEF Computes
<1>4. \A op \in Computes, r, a \in Operands : Ins(op, r, <<a>>) \in Items
  BY <1>1, <1>3, PlainItems, Zenon
<1>5. \A op \in Computes, r, a, b \in Operands : Ins(op, r, <<a, b>>) \in Items
  BY <1>2, <1>3, PlainItems, Zenon
<1> QED BY <1>4, <1>5, OperandType

\* The operator itself: its result is in the last register that it defines.
LEMMA TrailOperator ==
  ASSUME NEW k \in Seq(Items), NEW L, NEW s, NEW tag \in {"lor", "land"}, NEW lhs \in Operands,
         NEW r \in Seq(Marks), NEW a \in Operands, NEW n \in Nat,
         Sealed(r, n), Old(lhs, n), Old(a, n), Trail(k, L, s, Deciding(tag, lhs, r, a))
  PROVE  LET t == k \o LogicOpText(tag, lhs, a, n)
         IN  t \in Seq(Items) /\ Trail(t, L, s, Point(r, Reg(n + LogicOpRegs(tag) - 1)))
<1>1. CASE tag = "lor"
  <2> PICK i, j : i = Ins("or", Reg(n), <<lhs, a>>) /\ j = Ins("ne", Reg(n + 1), <<Reg(n), Imm(0)>>)
    OBVIOUS
  <2>1. i \in Items /\ j \in Items
    BY ComputeItems DEF Computes
  <2>2. Trail(k, L, s, Deciding("lor", lhs, r, a))
    BY <1>1
  <2>3. /\ Faithful(i, Deciding("lor", lhs, r, a), Knowing(r, Reg(n), {<<Reg(n), {0, 1}>>}), L)
        /\ Faithful(j, Knowing(r, Reg(n), {<<Reg(n), {0, 1}>>}), Point(r, Reg(n + 1)), L)
    BY FaithfulOr, Zenon
  <2>4. k \o <<i, j>> \in Seq(Items) /\ Trail(k \o <<i, j>>, L, s, Point(r, Reg(n + 1)))
    BY <2>1, <2>2, <2>3, TrailTwo
  <2>5. LogicOpText(tag, lhs, a, n) = <<i, j>> /\ n + LogicOpRegs(tag) - 1 = n + 1
    BY <1>1 DEF LogicOpText, LogicOpRegs
  <2> QED BY <2>4, <2>5
<1>2. CASE tag = "land"
  <2> PICK i, j, l : /\ i = Ins("ne", Reg(n), <<lhs, Imm(0)>>)
                     /\ j = Ins("ne", Reg(n + 1), <<a, Imm(0)>>)
                     /\ l = Ins("and", Reg(n + 2), <<Reg(n + 1), Reg(n)>>)
    OBVIOUS
  <2>1. i \in Items /\ j \in Items /\ l \in Items
    BY ComputeItems DEF Computes
  <2>2. Trail(k, L, s, Deciding("land", lhs, r, a))
    BY <1>2
  <2>3. Faithful(i, Deciding("land", lhs, r, a), LhsKnown(lhs, r, a, n), L)
    BY FaithfulAndLeft
  <2>4. Faithful(j, LhsKnown(lhs, r, a, n), Knowing(r, Reg(n + 1), AndKnown(n)), L)
    BY FaithfulAndRight
  <2>5. Faithful(l, Knowing(r, Reg(n + 1), AndKnown(n)), Point(r, Reg(n + 2)), L)
    BY FaithfulAnd
  <2>6. k \o <<i, j, l>> \in Seq(Items) /\ Trail(k \o <<i, j, l>>, L, s, Point(r, Reg(n + 2)))
    BY <2>1, <2>2, <2>3, <2>4, <2>5, TrailThree
  <2>7. LogicOpText(tag, lhs, a, n) = <<i, j, l>> /\ n + LogicOpRegs(tag) - 1 = n + 2
    BY <1>2 DEF LogicOpText, LogicOpRegs
  <2> QED BY <2>6, <2>7
<1> QED BY <1>1, <1>2

LEMMA TrailLogic ==
  ASSUME NEW k \in Seq(Items), NEW L, NEW s, NEW tag \in {"lor", "land"}, NEW lhs \in Operands,
         NEW r \in Seq(Marks), NEW a \in Operands, NEW n \in Nat,
         Sealed(r, n), Old(lhs, n), Old(a, n), Trail(k, L, s, Deciding(tag, lhs, r, a)),
         NEW t \in Operands, t[1] = "%temp_l_result",
         NEW end \in Labels, NEW short \in Labels,
         AtLabel(L, short, Point(r, ShortValue(tag))), AtLabel(L, end, Point(r, t))
  PROVE  LET m == LogicOpRegs(tag)
         IN  Trail(k \o LogicOpText(tag, lhs, a, n) \o <<Store(Reg(n + m - 1), t)>>
                     \o JoinText(FALSE, end, short)
                     \o <<Store(ShortValue(tag), t), Jump(end), Label(end),
                          Ins("load", Reg(n + m + 1), <<t>>)>>,
                   L, s, Point(r, Reg(n + m + 1)))
<1> PICK m : m = LogicOpRegs(tag)
  OBVIOUS
<1>1. m \in {2, 3} /\ n + m - 1 \in Nat /\ n + m + 1 \in Nat /\ n <= n + m + 1
  BY DEF LogicOpRegs
<1>2. ShortValue(tag) \in Operands
  BY ComputeItems DEF ShortValue
<1> PICK w, d : w = Reg(n + m - 1) /\ d = Reg(n + m + 1)
  OBVIOUS
<1>3. w \in Operands /\ d \in Operands
  BY <1>1, ComputeItems, Zenon
<1> PICK k1 : k1 = k \o LogicOpText(tag, lhs, a, n)
  BY Zenon
<1>4. k1 \in Seq(Items) /\ Trail(k1, L, s, Point(r, w))
  BY TrailOperator, Zenon
<1> PICK k2 : k2 = k1 \o <<Store(w, t)>>
  BY Zenon
<1>5. k2 \in Seq(Items) /\ Trail(k2, L, s, Point(r, t))
  <2>1. Store(w, t) \in Items /\ Faithful(Store(w, t), Point(r, w), Point(r, t), L)
    BY <1>3, PlainItems, FaithfulKeep
  <2> QED BY <1>4, <2>1, TrailWrite, Zenon
<1> PICK k3 : k3 = k2 \o JoinText(FALSE, end, short)
  BY Zenon
<1>6. k3 \in Seq(Items) /\ Trail(k3, L, s, Point(r, ShortValue(tag)))
  <2>1. JoinText(FALSE, end, short) \in Seq(Items) /\ FALSE \in BOOLEAN
    BY JoinTextType, Zenon
  <2>2. k3 \in Seq(Items)
    BY <1>5, <2>1, Behind, Zenon
  <2>3. Trail(k3, L, s, Point(r, ShortValue(tag)))
    BY <1>5, TrailJoin, Zenon
  <2> QED BY <2>2, <2>3, Zenon
<1> PICK i, j, l, o : /\ i = Store(ShortValue(tag), t) /\ j = Jump(end) /\ l = Label(end)
                      /\ o = Ins("load", d, <<t>>)
  OBVIOUS
<1>7. i \in Items /\ j \in Items /\ l \in Items /\ o \in Items
  BY <1>2, <1>3, PlainItems, ControlItems, ComputeItems DEF Computes
<1>8. /\ Faithful(i, Point(r, ShortValue(tag)), Point(r, t), L)
      /\ Faithful(j, Point(r, t), Point(r, t), L)
      /\ Faithful(l, Point(r, t), Point(r, t), L)
      /\ Faithful(o, Point(r, t), Point(r, d), L)
  BY <1>1, FaithfulKeep, FaithfulJump, TurnsSame, FaithfulLabel, FaithfulLoad, Zenon
<1>9. Trail(k3 \o <<i, j, l, o>>, L, s, Point(r, d))
  BY <1>6, <1>7, <1>8, TrailFour, ZenonT(40)
<1> QED BY <1>9, Zenon

LEMMA AssignAny ==
  ASSUME NEW r \in Seq(Marks), NEW a, NEW n \in Nat, NEW m \in Nat
  PROVE  Turns(Point(Cons(Todo("Assign", Var(m)), r), a), Point(Cons(Todo("Assign", Var(n)), r), a))
<1> PICK f, g : f = Todo("Assign", Var(m)) /\ g = Todo("Assign", Var(n))
  OBVIOUS
<1>1. f \in Marks /\ g \in Marks
  BY MarkType, OperandType
<1>2. \A e : /\ Concrete(f, e) = Todo("Assign", Variable) /\ MarkHolds(f, e)
             /\ Concrete(g, e) = Todo("Assign", Variable) /\ MarkHolds(g, e)
  BY VarSteady DEF Steady
<1>3. \A e : /\ Stack(Cons(f, r), e) = Stack(Cons(g, r), e)
             /\ StackHolds(Cons(f, r), e) <=> StackHolds(Cons(g, r), e)
  BY <1>1, <1>2, StackCons, HoldsCons
<1>4. Turns(Point(Cons(f, r), a), Point(Cons(g, r), a))
  BY <1>3, PointState, ReachesSame DEF Turns
<1> QED BY <1>4

-----------------------------------------------------------------------------
(* The calls that are active and what the source has left to do *)

\* What a call f has below it: c, and before that a value to be dropped when
\* the next call, d[i], does not read the one that f leaves.
Below(f, d, i, c) ==
  IF f.at \in Returners /\ ~ (i \in 1 .. Len(d) /\ d[i].at \in Readers)
  THEN Cons(Todo("Drop", 0), c) ELSE c

\* f has to do what stands in c before r, and its labels lead where they should.
Means(f, c, r, L) ==
  CASE f.at \in {"Stmt", "Exp", "Block"} -> c = Cons(f, r)
    [] f.at = "VarDef" -> c = Cons(Todo("Assign", Var(0)), r)
    [] f.at = "Store" -> c = Cons(Todo("Assign", f.dst), r)
    [] f.at = "Index" -> c = Cons(Todo("Index", Indexed(f.left, f.had, f)), r)
    [] f.at = "ElemPtr" -> c = Cons(Todo("Place", Sought(f.indices, f.exp)), r)
    [] f.at = "Branch" -> c = Cons(Todo("If", f.stmt), r)
    [] f.at = "Ret" -> c = Cons(Todo("Return", 0), r)
    [] f.at = "FuncEnd" -> c = <<>> /\ r = <<>>
    [] f.at = "Join" -> AtLabel(L, f.to, Point(c, Imm(0))) /\ AtLabel(L, f.label, Point(r, Imm(0)))
    [] f.at = "LoopJoin" ->
         \E s \in Stmts : /\ c = Cons(Todo("Loop", s), r)
                          /\ AtLabel(L, f.to, Point(c, Imm(0))) /\ AtLabel(L, f.label, Point(r, Imm(0)))
    [] f.at = "While" ->
         \E s \in Stmts :
           /\ s.tag = 6 /\ f.stmt = s.stmt /\ c = Cons(Todo("Test", s), r)
           /\ AtLabel(L, Lab("while", f.n), Point(Cons(Todo("Loop", s), r), Imm(0)))
           /\ AtLabel(L, Lab("while_true", f.n + 1),
                      Point(Cons(StmtF(s.stmt), Cons(Todo("Loop", s), r)), Imm(0)))
           /\ AtLabel(L, Lab("while_false", f.n + 2), Point(r, Imm(0)))
    [] f.at = "LogicRhs" -> c = Cons(Todo("Rest", f.exp), r) /\ f.temp[1] = "%temp_l_result"
    [] f.at = "LogicOp" ->
         /\ c = Cons(Todo("Bool", <<f.tag, f.lhs>>), r) /\ f.temp[1] = "%temp_l_result"
         /\ AtLabel(L, ShortLabel(f.tag, f.n), Point(r, ShortValue(f.tag)))
         /\ AtLabel(L, Lab("end", f.n + 2), Point(r, f.temp))
    [] OTHER -> FALSE

\* l is what stands in c from the innermost loop on.
Unwound(c, l) ==
  \E i \in 1 .. Len(c) : /\ c[i].at = "Loop" /\ \A j \in 1 .. i - 1 : c[j].at # "Loop"
                         /\ l = SubSeq(c, i, Len(c))

\* C[i] is what is left when the i-th call goes on.
Layers(C, d, c, L, n) ==
  /\ C[1] = c /\ C[Len(d) + 1] = <<>>
  /\ \A i \in 1 .. Len(d) + 1 : C[i] \in Seq(Marks) /\ Sealed(C[i], n)
  /\ \A i \in 1 .. Len(d) : Means(d[i], C[i], Below(d[i], d, i + 1, C[i + 1]), L)
  /\ \A i \in 1 .. Len(d), j \in 1 .. Len(d) :
       j <= i /\ d[i].at = "LoopJoin" /\ (\A m \in j .. i - 1 : d[m].at # "LoopJoin")
         => Unwound(C[j], C[i])
Stacked(d, c, L, n) == \E C : Layers(C, d, c, L, n)

LEMMA FrameCons ==
  ASSUME NEW f \in Frames, NEW d \in Seq(Frames)
  PROVE  /\ Cons(f, d) \in Seq(Frames) /\ Cons(f, d) = <<f>> \o d /\ Cons(f, d) # <<>>
         /\ Len(Cons(f, d)) = Len(d) + 1 /\ Len(d) \in Nat
         /\ Cons(f, d)[1] = f /\ \A i \in 1 .. Len(d) : Cons(f, d)[i + 1] = d[i]
<1> PICK S : S = Frames
  OBVIOUS
<1>1. f \in S /\ d \in Seq(S)
  OBVIOUS
<1>2. Len(d) \in Nat
  BY ONLY <1>1
<1>3. /\ Cons(f, d) \in Seq(S) /\ Len(Cons(f, d)) = Len(d) + 1 /\ Cons(f, d) # <<>>
      /\ Cons(f, d)[1] = f /\ \A i \in 1 .. Len(d) : Cons(f, d)[i + 1] = d[i]
  BY ONLY <1>1, ConsFacts
<1> QED BY <1>2, <1>3 DEF Cons

LEMMA BelowCons ==
  ASSUME NEW f \in Frames, NEW d \in Seq(Frames), NEW g, NEW c, NEW i \in Nat, i >= 1
  PROVE  Below(g, Cons(f, d), i + 1, c) = Below(g, d, i, c)
<1>1. i + 1 \in 1 .. Len(Cons(f, d)) /\ Cons(f, d)[i + 1].at \in Readers
        <=> i \in 1 .. Len(d) /\ d[i].at \in Readers
  <2>1. /\ Len(Cons(f, d)) = Len(d) + 1 /\ Len(d) \in Nat
        /\ \A j \in 1 .. Len(d) : Cons(f, d)[j + 1] = d[j]
    BY FrameCons, Zenon
  <2>2. i + 1 \in 1 .. Len(Cons(f, d)) <=> i \in 1 .. Len(d)
    BY <2>1
  <2> QED BY <2>1, <2>2
<1> QED BY <1>1 DEF Below

LEMMA Pushed ==
  ASSUME NEW d \in Seq(Frames), NEW r, NEW L, NEW n, Stacked(d, r, L, n),
         NEW f \in Frames, NEW c \in Seq(Marks), Sealed(c, n), Means(f, c, Below(f, d, 1, r), L),
         f.at = "LoopJoin" => Unwound(c, c),
         f.at # "LoopJoin" => \A l : Unwound(r, l) => Unwound(c, l)
  PROVE  Stacked(Cons(f, d), c, L, n)
<1> PICK e : e = Cons(f, d)
  OBVIOUS
<1>1. /\ e \in Seq(Frames) /\ Len(e) = Len(d) + 1 /\ Len(d) \in Nat
      /\ e[1] = f /\ \A i \in 1 .. Len(d) : e[i + 1] = d[i]
  BY FrameCons, Zenon
<1>2. PICK C : Layers(C, d, r, L, n)
  BY DEF Stacked
<1> PICK D : D = [i \in 1 .. Len(d) + 2 |-> IF i = 1 THEN c ELSE C[i - 1]]
  BY Zenon
<1>3. D[1] = c /\ \A i \in 1 .. Len(d) + 1 : D[i + 1] = C[i]
  BY <1>1
<1>4. D[Len(e) + 1] = <<>>
  BY <1>1, <1>2, <1>3 DEF Layers
<1>5. \A i \in 1 .. Len(e) + 1 : D[i] \in Seq(Marks) /\ Sealed(D[i], n)
  <2> SUFFICES ASSUME NEW i \in 1 .. Len(e) + 1 PROVE D[i] \in Seq(Marks) /\ Sealed(D[i], n)
    BY Zenon
  <2>1. CASE i = 1
    BY <1>3, <2>1
  <2>2. CASE i # 1
    <3> PICK j \in 1 .. Len(d) + 1 : i = j + 1
      BY <1>1, <2>2
    <3> QED BY <1>2, <1>3 DEF Layers
  <2> QED BY <2>1, <2>2
<1>6. \A i \in 1 .. Len(e) : Means(e[i], D[i], Below(e[i], e, i + 1, D[i + 1]), L)
  <2> SUFFICES ASSUME NEW i \in 1 .. Len(e)
               PROVE  Means(e[i], D[i], Below(e[i], e, i + 1, D[i + 1]), L)
    BY Zenon
  <2>1. CASE i = 1
    <3>1. D[1 + 1] = r
      BY <1>1, <1>2, <1>3 DEF Layers
    <3>2. Below(f, e, 1 + 1, r) = Below(f, d, 1, r)
      BY BelowCons
    <3> QED BY <1>1, <1>3, <2>1, <3>1, <3>2
  <2>2. CASE i # 1
    <3>0. i - 1 \in 1 .. Len(d) /\ i = (i - 1) + 1
      BY <1>1, <2>2
    <3> PICK j \in 1 .. Len(d) : i = j + 1
      BY <3>0
    <3>1. e[i] = d[j] /\ D[i] = C[j] /\ D[i + 1] = C[j + 1]
      BY <1>1, <1>3
    <3>2. j + 1 \in Nat /\ j + 1 >= 1
      BY <1>1
    <3>3. Below(d[j], e, (j + 1) + 1, C[j + 1]) = Below(d[j], d, j + 1, C[j + 1])
      BY <3>2, BelowCons
    <3>4. Means(d[j], C[j], Below(d[j], d, j + 1, C[j + 1]), L)
      BY <1>2 DEF Layers
    <3> QED BY <3>1, <3>3, <3>4
  <2> QED BY <2>1, <2>2
<1>7. ASSUME NEW i \in 1 .. Len(e), NEW j \in 1 .. Len(e), j <= i, e[i].at = "LoopJoin",
             \A m \in j .. i - 1 : e[m].at # "LoopJoin"
      PROVE  Unwound(D[j], D[i])
  <2>1. CASE i = 1
    <3>1. j = 1
      BY <1>1, <1>7, <2>1
    <3> QED BY <1>1, <1>3, <1>7, <2>1, <3>1
  <2>2. CASE i # 1
    <3> PICK x \in 1 .. Len(d) : i = x + 1
      BY <1>1, <2>2, SMTT(30)
    <3>1. d[x].at = "LoopJoin" /\ D[i] = C[x]
      BY <1>1, <1>3, <1>7
    <3>2. ASSUME NEW y \in 1 .. Len(d), y <= x, j <= y + 1 PROVE Unwound(C[y], C[x])
      <4>1. ASSUME NEW m \in y .. x - 1 PROVE d[m].at # "LoopJoin"
        <5>1. m \in 1 .. Len(d) /\ m + 1 \in j .. i - 1
          BY <1>1, <3>2
        <5> QED BY <1>1, <1>7, <5>1, Zenon
      <4> QED BY <1>2, <3>1, <3>2, <4>1 DEF Layers
    <3>3. CASE j = 1
      <4>1. f.at # "LoopJoin"
        <5>1. 1 \in j .. i - 1
          BY <2>2, <3>3, <1>1
        <5> QED BY <1>1, <1>7, <5>1
      <4>2. Unwound(C[1], C[x])
        BY <1>1, <3>2, <3>3
      <4> QED BY <1>2, <1>3, <3>1, <3>3, <4>1, <4>2 DEF Layers
    <3>4. CASE j # 1
      <4>0. j - 1 \in 1 .. Len(d) /\ j = (j - 1) + 1
        BY <1>1, <3>4
      <4> PICK y \in 1 .. Len(d) : j = y + 1
        BY <4>0
      <4>1. D[j] = C[y] /\ y <= x
        BY <1>1, <1>3, <1>7
      <4> QED BY <3>1, <3>2, <4>1
    <3> QED BY <3>3, <3>4
  <2> QED BY <2>1, <2>2
<1>8. Layers(D, e, c, L, n)
  BY <1>3, <1>4, <1>5, <1>6, <1>7, Zenon DEF Layers
<1> QED BY <1>8 DEF Stacked

LEMMA StackedTop ==
  ASSUME NEW d \in Seq(Frames), NEW c, NEW L, NEW n, Stacked(d, c, L, n)
  PROVE  c \in Seq(Marks) /\ Sealed(c, n)
<1>1. PICK C : Layers(C, d, c, L, n)
  BY DEF Stacked
<1>2. 1 \in 1 .. Len(d) + 1
  OBVIOUS
<1> QED BY <1>1, <1>2 DEF Layers

LEMMA StackedNone ==
  ASSUME NEW L, NEW n
  PROVE  Stacked(<<>>, <<>>, L, n) /\ \A c : Stacked(<<>>, c, L, n) => c = <<>>
<1> PICK C : C = [i \in {1} |-> <<>>]
  BY Zenon
<1>1. <<>> \in Seq(Marks) /\ Sealed(<<>>, n) /\ Len(<<>>) = 0 /\ 1 .. 0 = {} /\ 1 .. 0 + 1 = {1}
  BY SealedEmpty
<1>2. Layers(C, <<>>, <<>>, L, n)
  BY <1>1 DEF Layers
<1>3. ASSUME NEW c, Stacked(<<>>, c, L, n) PROVE c = <<>>
  <2>1. PICK D : D[1] = c /\ D[Len(<<>>) + 1] = <<>>
    BY <1>3 DEF Stacked, Layers
  <2> QED BY <1>1, <2>1
<1> QED BY <1>2, <1>3 DEF Stacked

LEMMA FrameTail ==
  ASSUME NEW d \in Seq(Frames), d # <<>>
  PROVE  /\ d[1] \in Frames /\ Tail(d) \in Seq(Frames) /\ d = Cons(d[1], Tail(d))
         /\ Len(d) = Len(Tail(d)) + 1 /\ Len(Tail(d)) \in Nat
         /\ \A i \in 1 .. Len(Tail(d)) : Tail(d)[i] = d[i + 1]
<1> PICK S : S = Frames
  OBVIOUS
<1>1. d \in Seq(S) /\ d # <<>>
  OBVIOUS
<1>2. /\ d[1] \in S /\ Tail(d) \in Seq(S) /\ Len(d) = Len(Tail(d)) + 1 /\ Len(Tail(d)) \in Nat
      /\ \A i \in 1 .. Len(Tail(d)) : Tail(d)[i] = d[i + 1]
  BY ONLY <1>1
<1> PICK t, e : t = Tail(d) /\ e = Cons(d[1], t)
  BY Zenon
<1>3. e \in Seq(S) /\ Len(e) = Len(t) + 1 /\ e[1] = d[1] /\ \A i \in 1 .. Len(t) : e[i + 1] = t[i]
  <2> PICK g : g = d[1]
    OBVIOUS
  <2>1. g \in S /\ t \in Seq(S)
    BY <1>2
  <2>2. /\ Cons(g, t) \in Seq(S) /\ Len(Cons(g, t)) = Len(t) + 1 /\ Cons(g, t)[1] = g
        /\ \A i \in 1 .. Len(t) : Cons(g, t)[i + 1] = t[i]
    BY ONLY <2>1, ConsFacts
  <2> QED BY ONLY <2>2, g = d[1], e = Cons(d[1], t)
<1>4. \A i \in 1 .. Len(d) : d[i] = e[i]
  <2> SUFFICES ASSUME NEW i \in 1 .. Len(d) PROVE d[i] = e[i]
    OBVIOUS
  <2>1. CASE i = 1
    BY <1>3, <2>1
  <2>2. CASE i # 1
    <3>1. i - 1 \in 1 .. Len(t) /\ (i - 1) + 1 = i
      BY <1>2, <2>2
    <3> QED BY <1>2, <1>3, <3>1
  <2> QED BY <2>1, <2>2
<1>5. d = e
  BY ONLY <1>1, <1>2, <1>3, <1>4, SeqEqual, t = Tail(d)
<1> QED BY <1>2, <1>5

LEMMA Popped ==
  ASSUME NEW d \in Seq(Frames), d # <<>>, NEW c, NEW L, NEW n, Stacked(d, c, L, n)
  PROVE  \E r \in Seq(Marks) : /\ Sealed(r, n) /\ Stacked(Tail(d), r, L, n)
                               /\ Means(d[1], c, Below(d[1], Tail(d), 1, r), L)
<1> PICK t : t = Tail(d)
  BY Zenon
<1>1. /\ t \in Seq(Frames) /\ d[1] \in Frames /\ d = Cons(d[1], t)
      /\ Len(d) = Len(t) + 1 /\ Len(t) \in Nat /\ \A i \in 1 .. Len(t) : t[i] = d[i + 1]
  BY FrameTail
<1>0. \A g, x, i : i \in Nat /\ i >= 1 => Below(g, d, i + 1, x) = Below(g, t, i, x)
  <2> PICK f \in Frames : f = d[1]
    BY <1>1
  <2>1. d = Cons(f, t) /\ t \in Seq(Frames)
    BY <1>1
  <2>2. ASSUME NEW g, NEW x, NEW i \in Nat, i >= 1
        PROVE  Below(g, d, i + 1, x) = Below(g, t, i, x)
    <3>1. f \in Frames /\ t \in Seq(Frames)
      BY <1>1
    <3>2. Below(g, Cons(f, t), i + 1, x) = Below(g, t, i, x)
      BY ONLY <2>2, <3>1, BelowCons
    <3> QED BY <2>1, <3>2
  <2> QED BY <2>2
<1>2. PICK C : Layers(C, d, c, L, n)
  BY DEF Stacked
<1> PICK D : D = [i \in 1 .. Len(t) + 1 |-> C[i + 1]]
  BY Zenon
<1>3. \A i \in 1 .. Len(t) + 1 : D[i] = C[i + 1] /\ i + 1 \in 1 .. Len(d) + 1
  BY <1>1
<1>4. D[Len(t) + 1] = <<>>
  BY <1>1, <1>2, <1>3 DEF Layers
<1>5. \A i \in 1 .. Len(t) + 1 : D[i] \in Seq(Marks) /\ Sealed(D[i], n)
  BY <1>2, <1>3 DEF Layers
<1>6. ASSUME NEW i \in 1 .. Len(t)
      PROVE  Means(t[i], D[i], Below(t[i], t, i + 1, D[i + 1]), L)
  <2>1. i + 1 \in 1 .. Len(d) /\ i + 1 \in Nat /\ i + 1 >= 1
    BY <1>1
  <2>2. Below(t[i], d, (i + 1) + 1, D[i + 1]) = Below(t[i], t, i + 1, D[i + 1])
    BY <1>0, <2>1
  <2>3. Means(d[i + 1], C[i + 1], Below(d[i + 1], d, (i + 1) + 1, C[(i + 1) + 1]), L)
    BY <1>2, <2>1 DEF Layers
  <2>4. D[i] = C[i + 1] /\ D[i + 1] = C[(i + 1) + 1] /\ t[i] = d[i + 1]
    BY <1>1, <1>3
  <2> QED BY <2>2, <2>3, <2>4
<1>7. ASSUME NEW i \in 1 .. Len(t), NEW j \in 1 .. Len(t), j <= i, t[i].at = "LoopJoin",
             \A m \in j .. i - 1 : t[m].at # "LoopJoin"
      PROVE  Unwound(D[j], D[i])
  <2>1. i + 1 \in 1 .. Len(d) /\ j + 1 \in 1 .. Len(d) /\ j + 1 <= i + 1
    BY <1>1, <1>7
  <2>2. ASSUME NEW m \in j + 1 .. (i + 1) - 1 PROVE d[m].at # "LoopJoin"
    <3>1. m - 1 \in j .. i - 1 /\ m - 1 \in 1 .. Len(t) /\ (m - 1) + 1 = m
      BY <1>1, <2>2
    <3> QED BY <1>1, <1>7, <3>1, Zenon
  <2>3. d[i + 1].at = "LoopJoin" /\ D[i] = C[i + 1] /\ D[j] = C[j + 1]
    BY <1>1, <1>3, <1>7
  <2> QED BY <1>2, <2>1, <2>2, <2>3 DEF Layers
<1>8. 1 \in 1 .. Len(t) + 1
  BY <1>1
<1>9. Layers(D, t, D[1], L, n)
  BY <1>4, <1>5, <1>6, <1>7, Zenon DEF Layers
<1>10. Means(d[1], c, Below(d[1], t, 1, D[1]), L)
  <2>1. 1 \in 1 .. Len(d) /\ D[1] = C[1 + 1] /\ 1 \in Nat /\ 1 >= 1
    BY <1>1, <1>3, <1>8
  <2>2. Below(d[1], d, 1 + 1, D[1]) = Below(d[1], t, 1, D[1])
    BY <1>0, <2>1
  <2>3. Means(d[1], C[1], Below(d[1], d, 1 + 1, C[1 + 1]), L) /\ C[1] = c
    BY <1>2, <2>1 DEF Layers
  <2> QED BY <2>1, <2>2, <2>3
<1> QED BY <1>5, <1>8, <1>9, <1>10 DEF Stacked

LEMMA LabelGrows ==
  ASSUME NEW L, NEW M, Extends(L, M)
  PROVE  \A l, p : AtLabel(L, l, p) => AtLabel(M, l, p)
BY DEF Extends, AtLabel

LEMMA MeansGrows ==
  ASSUME NEW f, NEW c, NEW r, NEW L, NEW M, Extends(L, M), Means(f, c, r, L)
  PROVE  Means(f, c, r, M)
<1>1. \A l, p : AtLabel(L, l, p) => AtLabel(M, l, p)
  BY LabelGrows
<1>2. CASE f.at = "Join"
  BY <1>1, <1>2 DEF Means
<1>3. CASE f.at = "LoopJoin"
  <2>1. PICK s \in Stmts : /\ c = Cons(Todo("Loop", s), r)
                           /\ AtLabel(L, f.to, Point(c, Imm(0))) /\ AtLabel(L, f.label, Point(r, Imm(0)))
    BY <1>3 DEF Means
  <2>2. AtLabel(M, f.to, Point(c, Imm(0))) /\ AtLabel(M, f.label, Point(r, Imm(0)))
    BY <1>1, <2>1
  <2> QED BY <1>3, <2>1, <2>2 DEF Means
<1>4. CASE f.at = "While"
  <2>1. PICK s \in Stmts :
           /\ s.tag = 6 /\ f.stmt = s.stmt /\ c = Cons(Todo("Test", s), r)
           /\ AtLabel(L, Lab("while", f.n), Point(Cons(Todo("Loop", s), r), Imm(0)))
           /\ AtLabel(L, Lab("while_true", f.n + 1),
                      Point(Cons(StmtF(s.stmt), Cons(Todo("Loop", s), r)), Imm(0)))
           /\ AtLabel(L, Lab("while_false", f.n + 2), Point(r, Imm(0)))
    BY <1>4 DEF Means
  <2>2. /\ AtLabel(M, Lab("while", f.n), Point(Cons(Todo("Loop", s), r), Imm(0)))
        /\ AtLabel(M, Lab("while_true", f.n + 1),
                   Point(Cons(StmtF(s.stmt), Cons(Todo("Loop", s), r)), Imm(0)))
        /\ AtLabel(M, Lab("while_false", f.n + 2), Point(r, Imm(0)))
    BY <1>1, <2>1
  <2> QED BY <1>4, <2>1, <2>2 DEF Means
<1>5. CASE f.at = "LogicOp"
  BY <1>1, <1>5 DEF Means
<1>6. CASE f.at \notin {"Join", "LoopJoin", "While", "LogicOp"}
  BY <1>6 DEF Means
<1> QED BY <1>2, <1>3, <1>4, <1>5, <1>6

LEMMA StackedGrows ==
  ASSUME NEW d \in Seq(Frames), NEW c, NEW L, NEW M, NEW n \in Nat, NEW m \in Nat, n <= m,
         Stacked(d, c, L, n), Extends(L, M)
  PROVE  Stacked(d, c, M, m)
<1>1. PICK C : Layers(C, d, c, L, n)
  BY DEF Stacked
<1>2. \A i \in 1 .. Len(d) + 1 : C[i] \in Seq(Marks) /\ Sealed(C[i], m)
  BY <1>1, SealedGrows DEF Layers
<1>3. \A i \in 1 .. Len(d) : Means(d[i], C[i], Below(d[i], d, i + 1, C[i + 1]), M)
  BY <1>1, MeansGrows DEF Layers
<1>4. Layers(C, d, c, M, m)
  BY <1>1, <1>2, <1>3 DEF Layers
<1> QED BY <1>4 DEF Stacked

LEMMA UnwoundCons ==
  ASSUME NEW f \in Marks, NEW c \in Seq(Marks)
  PROVE  /\ f.at # "Loop" => \A l : Unwound(c, l) => Unwound(Cons(f, c), l)
         /\ f.at # "Loop" => \A l : Unwound(Cons(f, c), l) => Unwound(c, l)
         /\ f.at = "Loop" => Unwound(Cons(f, c), Cons(f, c))
<1> PICK e : e = Cons(f, c)
  OBVIOUS
<1>1. /\ e \in Seq(Marks) /\ Len(e) = Len(c) + 1 /\ Len(c) \in Nat
      /\ e[1] = f /\ \A i \in 1 .. Len(c) : e[i + 1] = c[i]
  BY ConsType, ConsIndex, Zenon
<1>2. \A i \in 1 .. Len(c) : SubSeq(e, i + 1, Len(e)) = SubSeq(c, i, Len(c))
  <2> PICK S : S = Marks
    OBVIOUS
  <2>1. c \in Seq(S) /\ e \in Seq(S)
    BY <1>1
  <2> SUFFICES ASSUME NEW i \in 1 .. Len(c)
               PROVE  SubSeq(e, i + 1, Len(e)) = SubSeq(c, i, Len(c))
    OBVIOUS
  <2>2. i \in 1 .. Len(c) + 1 /\ i + 1 \in 1 .. Len(e) + 1 /\ i \in Int /\ i + 1 \in Int
    BY <1>1
  <2>3. /\ SubSeq(e, i + 1, Len(e)) \in Seq(S)
        /\ Len(SubSeq(e, i + 1, Len(e))) = Len(c) - i + 1
        /\ \A j \in 1 .. Len(c) - i + 1 : SubSeq(e, i + 1, Len(e))[j] = e[i + 1 + j - 1]
    BY ONLY <1>1, <2>1, <2>2
  <2>4. /\ SubSeq(c, i, Len(c)) \in Seq(S) /\ Len(SubSeq(c, i, Len(c))) = Len(c) - i + 1
        /\ \A j \in 1 .. Len(c) - i + 1 : SubSeq(c, i, Len(c))[j] = c[i + j - 1]
    <3>1. i \in 1 .. Len(c)
      OBVIOUS
    <3>2. ASSUME NEW l, l = SubSeq(c, i, Len(c))
          PROVE  /\ l \in Seq(S) /\ Len(l) = Len(c) - i + 1
                 /\ \A j \in 1 .. Len(c) - i + 1 : l[j] = c[i + j - 1]
      BY ONLY <2>1, <3>1, <3>2
    <3> QED BY <3>2, Zenon
  <2>5. \A j \in 1 .. Len(c) - i + 1 : SubSeq(e, i + 1, Len(e))[j] = SubSeq(c, i, Len(c))[j]
    <3> SUFFICES ASSUME NEW j \in 1 .. Len(c) - i + 1
                 PROVE  SubSeq(e, i + 1, Len(e))[j] = SubSeq(c, i, Len(c))[j]
      BY Zenon
    <3>1. i + j - 1 \in 1 .. Len(c) /\ i + 1 + j - 1 = (i + j - 1) + 1
      BY <1>1
    <3> QED BY <1>1, <2>3, <2>4, <3>1
  <2> QED BY <2>3, <2>4, <2>5, SeqEqual, Zenon
<1>3. ASSUME f.at # "Loop", NEW l, Unwound(c, l) PROVE Unwound(e, l)
  <2>1. PICK i \in 1 .. Len(c) : /\ c[i].at = "Loop" /\ \A j \in 1 .. i - 1 : c[j].at # "Loop"
                                 /\ l = SubSeq(c, i, Len(c))
    BY <1>3, Zenon DEF Unwound
  <2>2. i + 1 \in 1 .. Len(e) /\ e[i + 1].at = "Loop" /\ l = SubSeq(e, i + 1, Len(e))
    BY <1>1, <1>2, <2>1
  <2>3. ASSUME NEW j \in 1 .. (i + 1) - 1 PROVE e[j].at # "Loop"
    <3>1. CASE j = 1
      BY <1>1, <1>3, <3>1
    <3>2. CASE j # 1
      <4>1. j - 1 \in 1 .. i - 1 /\ j - 1 \in 1 .. Len(c) /\ (j - 1) + 1 = j
        BY <1>1, <3>2
      <4> QED BY <1>1, <2>1, <4>1, Zenon
    <3> QED BY <3>1, <3>2
  <2> QED BY <2>2, <2>3 DEF Unwound
<1>4. ASSUME f.at # "Loop", NEW l, Unwound(e, l) PROVE Unwound(c, l)
  <2>1. PICK i \in 1 .. Len(e) : /\ e[i].at = "Loop" /\ \A j \in 1 .. i - 1 : e[j].at # "Loop"
                                 /\ l = SubSeq(e, i, Len(e))
    BY <1>4, Zenon DEF Unwound
  <2>2. i # 1
    BY <1>1, <1>4, <2>1
  <2>3. i - 1 \in 1 .. Len(c) /\ (i - 1) + 1 = i
    BY <1>1, <2>2
  <2>4. c[i - 1].at = "Loop" /\ l = SubSeq(c, i - 1, Len(c))
    BY <1>1, <1>2, <2>1, <2>3, Zenon
  <2>5. ASSUME NEW j \in 1 .. (i - 1) - 1 PROVE c[j].at # "Loop"
    <3>1. j \in 1 .. Len(c) /\ j + 1 \in 1 .. i - 1
      BY <1>1
    <3> QED BY <1>1, <2>1, <3>1
  <2> QED BY <2>3, <2>4, <2>5, Zenon DEF Unwound
<1>5. ASSUME f.at = "Loop" PROVE Unwound(e, e)
  <2> PICK S : S = Marks
    OBVIOUS
  <2>1. e \in Seq(S)
    BY <1>1
  <2>2. SubSeq(e, 1, Len(e)) = e
    BY ONLY <2>1
  <2>3. 1 \in 1 .. Len(e) /\ 1 .. 1 - 1 = {}
    BY <1>1
  <2> QED BY <1>1, <1>5, <2>2, <2>3 DEF Unwound
<1> QED BY <1>3, <1>4, <1>5

LEMMA LoopLevel ==
  ASSUME NEW d \in Seq(Frames), NEW c, NEW L, NEW n, Stacked(d, c, L, n), NEW i \in 1 .. Len(d),
         d[i].at = "LoopJoin", \A j \in 1 .. i - 1 : d[j].at # "LoopJoin"
  PROVE  \E s \in Stmts, r \in Seq(Marks) :
           /\ Unwound(c, Cons(Todo("Loop", s), r))
           /\ AtLabel(L, d[i].to, Point(Cons(Todo("Loop", s), r), Imm(0)))
           /\ AtLabel(L, d[i].label, Point(r, Imm(0)))
<1>1. PICK C : Layers(C, d, c, L, n)
  BY DEF Stacked
<1>2. Unwound(c, C[i])
  <2>1. 1 \in 1 .. Len(d) /\ 1 <= i /\ C[1] = c
    BY <1>1 DEF Layers
  <2>2. Unwound(C[1], C[i])
    BY <1>1, <2>1 DEF Layers
  <2> QED BY <2>1, <2>2
<1>3. Means(d[i], C[i], Below(d[i], d, i + 1, C[i + 1]), L)
  BY <1>1 DEF Layers
<1>4. Below(d[i], d, i + 1, C[i + 1]) = C[i + 1]
  BY DEF Below, Returners
<1>5. C[i + 1] \in Seq(Marks)
  <2>1. i + 1 \in 1 .. Len(d) + 1
    OBVIOUS
  <2> QED BY <1>1, <2>1 DEF Layers
<1> PICK r : r = C[i + 1]
  OBVIOUS
<1>6. \E s \in Stmts : /\ C[i] = Cons(Todo("Loop", s), r)
                       /\ AtLabel(L, d[i].to, Point(C[i], Imm(0))) /\ AtLabel(L, d[i].label, Point(r, Imm(0)))
  BY <1>3, <1>4 DEF Means
<1> QED BY <1>2, <1>5, <1>6

\* Unwinding the stack of a state.
LEMMA FromLoopIs ==
  ASSUME NEW c \in Seq(Marks), NEW l, Unwound(c, l), NEW e
  PROVE  /\ FromLoop(Stack(c, e)) = Stack(l, e)
         /\ StackHolds(c, e) => StackHolds(l, e)
<1>1. PICK i \in 1 .. Len(c) : /\ c[i].at = "Loop" /\ \A j \in 1 .. i - 1 : c[j].at # "Loop"
                               /\ l = SubSeq(c, i, Len(c))
  BY Zenon DEF Unwound
<1> PICK s : s = Stack(c, e)
  OBVIOUS
<1>2. /\ DOMAIN s = 1 .. Len(c) /\ \A j \in 1 .. Len(c) : s[j] = Concrete(c[j], e)
      /\ Len(c) \in Nat
  BY DEF Stack
<1>3. Len(s) = Len(c)
  <2> PICK U : U = {Concrete(x, e) : x \in Marks}
    BY Zenon
  <2>1. \A j \in 1 .. Len(c) : s[j] \in U
    BY <1>2
  <2>2. s \in [1 .. Len(c) -> U]
    BY <1>2, <2>1 DEF Stack
  <2>3. Len(c) \in Nat
    BY <1>2
  <2> QED BY ONLY <2>2, <2>3
<1>4. \A j \in 1 .. Len(c) : s[j].at = c[j].at
  BY <1>2, ConcreteAt
<1>5. FromLoop(s) = SubSeq(s, i, Len(s))
  <2> DEFINE First(x) == x \in DOMAIN s /\ s[x].at = "Loop" /\ \A j \in 1 .. x - 1 : s[j].at # "Loop"
  <2>1. First(i)
    <3>1. ASSUME NEW j \in 1 .. i - 1 PROVE s[j].at # "Loop"
      <4>1. j \in 1 .. Len(c)
        BY <1>2
      <4> QED BY <1>1, <1>4, <4>1
    <3> QED BY <1>1, <1>2, <1>4, <3>1
  <2>2. ASSUME NEW x, First(x) PROVE x = i
    <3>1. x \in 1 .. Len(c) /\ x \in Int /\ i \in Int
      BY <1>2, <2>2
    <3>2. ~ (x < i)
      <4>1. x < i => x \in 1 .. i - 1
        BY <3>1
      <4> QED BY <2>1, <2>2, <4>1
    <3>3. ~ (i < x)
      <4>1. i < x => i \in 1 .. x - 1
        BY <3>1
      <4> QED BY <2>1, <2>2, <4>1
    <3> QED BY <3>1, <3>2, <3>3
  <2>3. i = CHOOSE x : First(x)
    BY <2>1, <2>2
  <2>4. (CHOOSE x \in DOMAIN s : s[x].at = "Loop" /\ \A j \in 1 .. x - 1 : s[j].at # "Loop")
          = CHOOSE x : First(x)
    OBVIOUS
  <2> QED BY <2>3, <2>4, Zenon DEF FromLoop
<1>6. l \in Seq(Marks) /\ Len(l) = Len(c) - i + 1 /\ \A j \in 1 .. Len(c) - i + 1 : l[j] = c[i + j - 1]
  <2> PICK S : S = Marks
    OBVIOUS
  <2>1. c \in Seq(S) /\ i \in 1 .. Len(c) /\ l = SubSeq(c, i, Len(c))
    BY <1>1
  <2> QED BY ONLY <2>1
<1>7. SubSeq(s, i, Len(s)) = Stack(l, e)
  <2>1. SubSeq(s, i, Len(c)) = [j \in 1 .. Len(c) - i + 1 |-> s[i + j - 1]]
    OBVIOUS
  <2>2. ASSUME NEW j \in 1 .. Len(c) - i + 1 PROVE s[i + j - 1] = Concrete(l[j], e)
    <3>1. i + j - 1 \in 1 .. Len(c)
      BY <1>2
    <3> QED BY <1>2, <1>6, <3>1
  <2> QED BY <1>3, <1>6, <2>1, <2>2 DEF Stack
<1>8. ASSUME StackHolds(c, e) PROVE StackHolds(l, e)
  <2>1. ASSUME NEW j \in 1 .. Len(l) PROVE MarkHolds(l[j], e)
    <3>1. j \in 1 .. Len(c) - i + 1 /\ l[j] = c[i + j - 1]
      BY <1>6
    <3>2. i + j - 1 \in 1 .. Len(c)
      BY <1>2, <3>1
    <3> QED BY <1>8, <3>1, <3>2 DEF StackHolds
  <2> QED BY <2>1 DEF StackHolds
<1> QED BY <1>5, <1>7, <1>8

-----------------------------------------------------------------------------
(* The text so far tells what the source says *)

\* The operand that the next call reads when n registers are in use: an address
\* is in the last one.
Now(d, a, n) == IF d # <<>> /\ d[1].at = "ElemPtr" THEN Reg(n - 1)
                ELSE IF d # <<>> /\ d[1].at \in Readers THEN a ELSE Imm(0)
Numbers(m) == (LabelKinds \ {"entry"}) \X (0 .. m - 1)

Tells(k, d, a, regs, labels, s) ==
  \E L : \E c \in Seq(Marks) : /\ Trail(k, L, s, Point(c, Now(d, a, regs)))
                               /\ Stacked(d, c, L, regs)
                               /\ DOMAIN L \subseteq Numbers(labels)
TellsNow(s) == Tells(k_str, dump, data, unused_koopa_count, unused_koopa_label_count, s)
TellsNext(s) == Tells(k_str', dump', data', unused_koopa_count', unused_koopa_label_count', s)

\* The innermost call has to do what c has before r.
Open(L, c, r, s) ==
  /\ c \in Seq(Marks) /\ Sealed(c, unused_koopa_count)
  /\ r \in Seq(Marks) /\ Sealed(r, unused_koopa_count)
  /\ Trail(k_str, L, s, Point(c, Now(dump, data, unused_koopa_count)))
  /\ Stacked(Tail(dump), r, L, unused_koopa_count)
  /\ Means(dump[1], c, Below(dump[1], Tail(dump), 1, r), L)
  /\ DOMAIN L \subseteq Numbers(unused_koopa_label_count)

LEMMA Opened ==
  ASSUME TextInv, dump # <<>>, NEW s, TellsNow(s)
  PROVE  \E L, c, r : Open(L, c, r, s)
<1>1. dump \in Seq(Frames)
  BY Inside
<1>2. PICK L : \E c \in Seq(Marks) :
                 /\ Trail(k_str, L, s, Point(c, Now(dump, data, unused_koopa_count)))
                 /\ Stacked(dump, c, L, unused_koopa_count)
                 /\ DOMAIN L \subseteq Numbers(unused_koopa_label_count)
  BY DEF TellsNow, Tells
<1>3. PICK c \in Seq(Marks) :
                 /\ Trail(k_str, L, s, Point(c, Now(dump, data, unused_koopa_count)))
                 /\ Stacked(dump, c, L, unused_koopa_count)
                 /\ DOMAIN L \subseteq Numbers(unused_koopa_label_count)
  BY <1>2
<1>4. Sealed(c, unused_koopa_count)
  BY <1>1, <1>3, StackedTop
<1>5. PICK r \in Seq(Marks) : /\ Sealed(r, unused_koopa_count)
                              /\ Stacked(Tail(dump), r, L, unused_koopa_count)
                              /\ Means(dump[1], c, Below(dump[1], Tail(dump), 1, r), L)
  BY <1>1, <1>3, Popped
<1>6. Open(L, c, r, s)
  BY <1>3, <1>4, <1>5 DEF Open
<1> QED BY <1>6

LEMMA BelowType ==
  ASSUME NEW f, NEW d, NEW r \in Seq(Marks), NEW n, Sealed(r, n)
  PROVE  /\ Below(f, d, 1, r) \in Seq(Marks) /\ Sealed(Below(f, d, 1, r), n)
         /\ \A l : Unwound(r, l) => Unwound(Below(f, d, 1, r), l)
         /\ f.at \notin Returners => Below(f, d, 1, r) = r
<1> PICK g : g = Todo("Drop", 0)
  OBVIOUS
<1>1. g \in Marks /\ g.at = "Drop" /\ Kept(g) = {}
  BY MarkType DEF Kept
<1>2. Cons(g, r) \in Seq(Marks) /\ Sealed(Cons(g, r), n)
  BY <1>1, ConsType, SealedCons
<1>3. \A l : Unwound(r, l) => Unwound(Cons(g, r), l)
  BY <1>1, UnwoundCons
<1> QED BY <1>2, <1>3 DEF Below

\* A call f that has m to do, in front of the calls t.
LEMMA Placed ==
  ASSUME NEW t \in Seq(Frames), NEW r \in Seq(Marks), NEW n, Sealed(r, n), NEW L, Stacked(t, r, L, n),
         NEW f \in Frames, f.at # "LoopJoin", NEW b, b = Below(f, t, 1, r),
         NEW m \in Marks, m.at # "Loop", \A a \in Kept(m) : Old(a, n), Means(f, Cons(m, b), b, L)
  PROVE  Cons(m, b) \in Seq(Marks) /\ Sealed(Cons(m, b), n) /\ Stacked(Cons(f, t), Cons(m, b), L, n)
<1>1. b \in Seq(Marks) /\ Sealed(b, n) /\ \A l : Unwound(r, l) => Unwound(b, l)
  BY BelowType
<1>2. Cons(m, b) \in Seq(Marks) /\ Sealed(Cons(m, b), n)
  BY <1>1, ConsType, SealedCons
<1>3. \A l : Unwound(r, l) => Unwound(Cons(m, b), l)
  BY <1>1, UnwoundCons
<1>4. Means(f, Cons(m, b), Below(f, t, 1, r), L)
  OBVIOUS
<1>5. Stacked(Cons(f, t), Cons(m, b), L, n)
  BY <1>2, <1>3, <1>4, Pushed
<1> QED BY <1>2, <1>5

LEMMA MeansSelf ==
  ASSUME NEW f, f.at \in {"Stmt", "Exp", "Block"}, NEW r, NEW L
  PROVE  Means(f, Cons(f, r), r, L) /\ Kept(f) = {} /\ f.at # "LoopJoin" /\ f.at # "Loop"
BY DEF Means, Kept

LEMMA NowFirst ==
  ASSUME NEW f \in Frames, NEW d \in Seq(Frames), NEW a, NEW n
  PROVE  Now(Cons(f, d), a, n) = IF f.at = "ElemPtr" THEN Reg(n - 1)
                                 ELSE IF f.at \in Readers THEN a ELSE Imm(0)
BY FrameCons, Zenon DEF Now

\* What the calls below the innermost one stand for when a handler has run.
Beneath(t, L, r) ==
  /\ r \in Seq(Marks) /\ Sealed(r, unused_koopa_count')
  /\ Stacked(t, r, L, unused_koopa_count')
  /\ DOMAIN L \subseteq Numbers(unused_koopa_label_count')
Under(L, r) == Beneath(Tail(dump), L, r)

\* The handler makes one call that stands for itself.
LEMMA EnteredOver ==
  ASSUME NEW s, NEW L, NEW t \in Seq(Frames), NEW r, Beneath(t, L, r),
         NEW g \in Frames, g \in Marks, g.at \in {"Stmt", "Exp", "Block"},
         dump' = <<g>> \o t,
         Trail(k_str', L, s, Point(Cons(g, Below(g, t, 1, r)), Imm(0)))
  PROVE  TellsNext(s)
<1> /\ r \in Seq(Marks) /\ Sealed(r, unused_koopa_count')
    /\ Stacked(t, r, L, unused_koopa_count')
    /\ DOMAIN L \subseteq Numbers(unused_koopa_label_count')
  BY DEF Beneath
<1> PICK b : b = Below(g, t, 1, r)
  OBVIOUS
<1>2. /\ Cons(g, b) \in Seq(Marks) /\ Stacked(Cons(g, t), Cons(g, b), L, unused_koopa_count')
  <2>1. Means(g, Cons(g, b), b, L) /\ Kept(g) = {} /\ g.at # "LoopJoin" /\ g.at # "Loop"
    BY MeansSelf
  <2>2. \A a \in Kept(g) : Old(a, unused_koopa_count')
    BY <2>1
  <2> QED BY <2>1, <2>2, Placed
<1>3. dump' = Cons(g, t)
  BY FrameCons, Zenon
<1>4. Now(dump', data', unused_koopa_count') = Imm(0)
  BY <1>3, NowFirst, Zenon DEF Readers
<1> QED BY <1>2, <1>3, <1>4, Zenon DEF TellsNext, Tells

LEMMA Entered ==
  ASSUME TextInv, dump # <<>>, Counting, NEW s, NEW L, NEW r, Under(L, r),
         NEW g \in Frames, g \in Marks, g.at \in {"Stmt", "Exp", "Block"},
         dump' = <<g>> \o Tail(dump),
         Trail(k_str', L, s, Point(Cons(g, Below(g, Tail(dump), 1, r)), Imm(0)))
  PROVE  TellsNext(s)
<1>1. Tail(dump) \in Seq(Frames) /\ Beneath(Tail(dump), L, r)
  BY Inside, FrameTail DEF Under
<1> QED BY <1>1, EnteredOver, Zenon

LEMMA TwoFrames ==
  ASSUME NEW f \in Frames, NEW g \in Frames, NEW d \in Seq(Frames)
  PROVE  <<f, g>> \o d = Cons(f, Cons(g, d))
<1> PICK S : S = Frames
  OBVIOUS
<1>1. f \in S /\ g \in S /\ d \in Seq(S)
  OBVIOUS
<1>2. <<f>> \in Seq(S) /\ <<g>> \in Seq(S)
  BY ONLY <1>1
<1>3. (<<f>> \o <<g>>) \o d = <<f>> \o (<<g>> \o d)
  BY ONLY <1>1, <1>2, ConcatAssociative
<1>4. <<f>> \o <<g>> = <<f, g>>
  BY ONLY <1>1, Joined, Zenon
<1> QED BY <1>3, <1>4, Zenon DEF Cons

\* The handler has an expression evaluated for a call that reads its value.
LEMMA AskedOver ==
  ASSUME NEW s, NEW L, NEW t \in Seq(Frames), NEW r, Beneath(t, L, r),
         NEW f \in Frames, f.at \in Readers, NEW b, b = Below(f, t, 1, r),
         NEW m \in Marks, m.at # "Loop", \A a \in Kept(m) : Old(a, unused_koopa_count'),
         Means(f, Cons(m, b), b, L),
         NEW x \in Exps, dump' = <<ExpF(x), f>> \o t,
         Trail(k_str', L, s, Point(Cons(ExpF(x), Cons(m, b)), Imm(0)))
  PROVE  TellsNext(s)
<1> /\ r \in Seq(Marks) /\ Sealed(r, unused_koopa_count')
    /\ Stacked(t, r, L, unused_koopa_count')
    /\ DOMAIN L \subseteq Numbers(unused_koopa_label_count')
  BY DEF Beneath
<1> PICK g, c : g = ExpF(x) /\ c = Cons(m, b)
  OBVIOUS
<1>1. g \in Frames /\ g \in Marks /\ g.at = "Exp"
  BY FrameType, MarkType, Zenon
<1>2. f.at # "LoopJoin"
  BY DEF Readers
<1>3. /\ c \in Seq(Marks) /\ Sealed(c, unused_koopa_count')
      /\ Stacked(Cons(f, t), c, L, unused_koopa_count')
  BY <1>1, <1>2, Placed
<1>4. Cons(f, t) \in Seq(Frames)
  BY <1>1, FrameCons, Zenon
<1>5. c = Below(g, Cons(f, t), 1, c)
  <2>0. Len(Cons(f, t)) = Len(t) + 1 /\ Len(t) \in Nat /\ Cons(f, t)[1] = f
    BY <1>1, FrameCons, Zenon
  <2>1. 1 \in 1 .. Len(Cons(f, t)) /\ Cons(f, t)[1].at \in Readers
    BY <2>0
  <2> QED BY <2>1 DEF Below
<1>6. /\ Cons(g, c) \in Seq(Marks)
      /\ Stacked(Cons(g, Cons(f, t)), Cons(g, c), L, unused_koopa_count')
  <2>1. Means(g, Cons(g, c), c, L) /\ Kept(g) = {} /\ g.at # "LoopJoin" /\ g.at # "Loop"
    BY <1>1, MeansSelf
  <2>2. \A a \in Kept(g) : Old(a, unused_koopa_count')
    BY <2>1
  <2> QED BY <1>1, <1>3, <1>4, <1>5, <2>1, <2>2, Placed, Zenon
<1>7. dump' = Cons(g, Cons(f, t))
  BY <1>1, TwoFrames
<1>8. Now(dump', data', unused_koopa_count') = Imm(0)
  <2> PICK u : u = Cons(f, t)
    OBVIOUS
  <2>1. u \in Seq(Frames) /\ dump' = Cons(g, u) /\ g.at \notin Readers /\ g.at # "ElemPtr"
    BY <1>1, <1>4, <1>7 DEF Readers
  <2>2. \A a, n : Now(Cons(g, u), a, n) = Imm(0)
    BY <1>1, <2>1, NowFirst
  <2> QED BY <2>1, <2>2, Zenon
<1> QED BY <1>6, <1>7, <1>8, Zenon DEF TellsNext, Tells

LEMMA Asked ==
  ASSUME TextInv, dump # <<>>, Counting, NEW s, NEW L, NEW r, Under(L, r),
         NEW f \in Frames, f.at \in Readers, NEW b, b = Below(f, Tail(dump), 1, r),
         NEW m \in Marks, m.at # "Loop", \A a \in Kept(m) : Old(a, unused_koopa_count'),
         Means(f, Cons(m, b), b, L),
         NEW x \in Exps, dump' = <<ExpF(x), f>> \o Tail(dump),
         Trail(k_str', L, s, Point(Cons(ExpF(x), Cons(m, b)), Imm(0)))
  PROVE  TellsNext(s)
<1>1. Tail(dump) \in Seq(Frames) /\ Beneath(Tail(dump), L, r)
  BY Inside, FrameTail DEF Under
<1> QED BY <1>1, AskedOver, Zenon

\* The handler returns, and leaves its value when it is that of an expression.
LEMMA Answered ==
  ASSUME TextInv, dump # <<>>, Counting, NEW s, NEW L, NEW r, Under(L, r),
         dump' = <<>> \o Tail(dump), k_str' \in Seq(Items), NEW a,
         IF dump[1].at \in Returners THEN a = data' ELSE a = Imm(0),
         Trail(k_str', L, s, Point(Below(dump[1], Tail(dump), 1, r), a))
  PROVE  TellsNext(s)
<1> /\ r \in Seq(Marks) /\ Sealed(r, unused_koopa_count')
    /\ Stacked(Tail(dump), r, L, unused_koopa_count')
    /\ DOMAIN L \subseteq Numbers(unused_koopa_label_count')
  BY DEF Under, Beneath
<1> PICK t, f : t = Tail(dump) /\ f = dump[1]
  OBVIOUS
<1>1. /\ t \in Seq(Frames) /\ f \in Frames /\ Len(dump) = Len(t) + 1 /\ Len(t) \in Nat
      /\ \A i \in 1 .. Len(t) : t[i] = dump[i + 1]
  BY Inside, FrameTail
<1>2. dump' = t
  BY <1>1
<1>0. t # <<>> => t[1].at # "ElemPtr"
  <2>1. t # <<>> => 1 \in 1 .. Len(t) /\ 1 + 1 \in 2 .. Len(dump)
    BY <1>1
  <2>2. \A i \in 2 .. Len(dump) : dump[i].at # "ElemPtr"
    BY DEF TextInv, ElemInv
  <2> QED BY <1>1, <2>1, <2>2
<1>3. CASE f.at \in Returners /\ ~ (1 \in 1 .. Len(t) /\ t[1].at \in Readers)
  <2>1. Below(f, t, 1, r) = Cons(Todo("Drop", 0), r)
    BY <1>3 DEF Below
  <2>2. Trail(k_str', L, s, Point(r, Imm(0)))
    BY <2>1, TrailMove, TurnDrop
  <2>3. Now(t, data', unused_koopa_count') = Imm(0)
    BY <1>0, <1>1, <1>3 DEF Now
  <2> QED BY <1>2, <2>2, <2>3 DEF TellsNext, Tells
<1>4. CASE f.at \in Returners /\ 1 \in 1 .. Len(t) /\ t[1].at \in Readers
  <2>0. t # <<>> /\ data' = a
    <3>1. dump[1].at \in Returners
      BY <1>4
    <3>2. Len(t) # 0
      BY <1>4
    <3> QED BY <3>1, <3>2, Zenon
  <2>1. Below(f, t, 1, r) = r /\ Now(t, data', unused_koopa_count') = a
    BY <1>0, <1>4, <2>0 DEF Below, Now
  <2> QED BY <1>2, <2>1 DEF TellsNext, Tells
<1>5. CASE f.at \notin Returners
  <2>1. Below(f, t, 1, r) = r
    BY <1>5 DEF Below
  <2>2. ASSUME t # <<>> PROVE t[1].at \notin Readers
    <3>1. 1 \in 1 .. Len(dump) - 1 /\ 1 \in 1 .. Len(t)
      BY <1>1, <2>2
    <3>2. dump[1 + 1].at \in Readers => dump[1].at \in Returners
      BY <3>1, Inside DEF Sound, Ready
    <3> QED BY <1>1, <1>5, <3>1, <3>2
  <2>3. Now(t, data', unused_koopa_count') = a
    BY <1>0, <1>5, <2>2 DEF Now
  <2> QED BY <1>2, <2>1, <2>3 DEF TellsNext, Tells
<1> QED BY <1>3, <1>4, <1>5

LEMMA NumbersGrow ==
  ASSUME NEW m \in Nat, NEW n \in Nat, m <= n
  PROVE  Numbers(m) \subseteq Numbers(n)
<1>1. 0 .. m - 1 \subseteq 0 .. n - 1
  OBVIOUS
<1> QED BY <1>1 DEF Numbers

LEMMA Called ==
  ASSUME TextInv, dump # <<>>, Counting, NEW s, TellsNow(s)
  PROVE  \E L, r : /\ Under(L, r) /\ DOMAIN L \subseteq Numbers(unused_koopa_label_count)
                   /\ \E c \in Seq(Marks) :
                        /\ Sealed(c, unused_koopa_count)
                        /\ Means(dump[1], c, Below(dump[1], Tail(dump), 1, r), L)
                        /\ Trail(k_str, L, s, Point(c, Now(dump, data, unused_koopa_count)))
<1>1. PICK L, c, r : Open(L, c, r, s)
  BY Opened
<1>2. /\ unused_koopa_count \in Nat /\ unused_koopa_count' \in Nat
      /\ unused_koopa_count <= unused_koopa_count'
      /\ unused_koopa_label_count \in Nat /\ unused_koopa_label_count' \in Nat
      /\ unused_koopa_label_count <= unused_koopa_label_count'
  BY Inside DEF Counting
<1>3. Tail(dump) \in Seq(Frames) /\ Extends(L, L)
  BY Inside, FrameTail DEF Extends
<1>4. r \in Seq(Marks) /\ Sealed(r, unused_koopa_count') /\ Stacked(Tail(dump), r, L, unused_koopa_count')
  BY <1>1, <1>2, <1>3, SealedGrows, StackedGrows, Zenon DEF Open
<1>5. Under(L, r)
  BY <1>1, <1>2, <1>4, NumbersGrow DEF Open, Under, Beneath
<1> QED BY <1>1, <1>5 DEF Open

LEMMA SelfCalled ==
  ASSUME TextInv, dump # <<>>, Counting, NEW s, TellsNow(s), dump[1].at \in {"Stmt", "Exp", "Block"}
  PROVE  \E L, r : /\ Under(L, r) /\ DOMAIN L \subseteq Numbers(unused_koopa_label_count)
                   /\ Trail(k_str, L, s,
                            Point(Cons(dump[1], Below(dump[1], Tail(dump), 1, r)), Imm(0)))
<1>1. PICK L, r : /\ Under(L, r) /\ DOMAIN L \subseteq Numbers(unused_koopa_label_count)
                  /\ \E c \in Seq(Marks) :
                       /\ Sealed(c, unused_koopa_count)
                       /\ Means(dump[1], c, Below(dump[1], Tail(dump), 1, r), L)
                       /\ Trail(k_str, L, s, Point(c, Now(dump, data, unused_koopa_count)))
  BY Called
<1>2. PICK c \in Seq(Marks) : /\ Means(dump[1], c, Below(dump[1], Tail(dump), 1, r), L)
                              /\ Trail(k_str, L, s, Point(c, Now(dump, data, unused_koopa_count)))
  BY <1>1
<1>3. Now(dump, data, unused_koopa_count) = Imm(0)
  BY DEF Now, Readers
<1>4. c = Cons(dump[1], Below(dump[1], Tail(dump), 1, r))
  BY <1>2 DEF Means
<1> QED BY <1>1, <1>2, <1>3, <1>4

LEMMA ReaderCalled ==
  ASSUME TextInv, dump # <<>>, Counting, NEW s, TellsNow(s), dump[1].at \in Readers
  PROVE  \E L, r : /\ Under(L, r) /\ DOMAIN L \subseteq Numbers(unused_koopa_label_count)
                   /\ \E c \in Seq(Marks) :
                        /\ Sealed(c, unused_koopa_count)
                        /\ Means(dump[1], c, Below(dump[1], Tail(dump), 1, r), L)
                        /\ Trail(k_str, L, s, Point(c, data))
<1>1. Now(dump, data, unused_koopa_count) = data
  BY DEF Now, Readers
<1> QED BY <1>1, Called

LEMMA FrameIs ==
  ASSUME NEW f \in Frames
  PROVE  /\ f.at = "Stmt" => f = StmtF(f.stmt)
         /\ f.at = "Exp" => f = ExpF(f.exp)
         /\ f.at = "Block" => f = BlockF(f.items)
BY DEF Frames, StmtF, ExpF, BlockF

LEMMA StmtCalled ==
  ASSUME TextInv, dump # <<>>, Counting, NEW s, TellsNow(s), dump[1].at = "Stmt"
  PROVE  /\ dump[1].stmt \in Stmts
         /\ \E L, r : /\ Under(L, r) /\ DOMAIN L \subseteq Numbers(unused_koopa_label_count)
                      /\ r \in Seq(Marks) /\ Below(dump[1], Tail(dump), 1, r) = r
                      /\ Trail(k_str, L, s, Point(Cons(StmtF(dump[1].stmt), r), Imm(0)))
<1>1. dump[1].stmt \in Stmts /\ dump[1] = StmtF(dump[1].stmt)
  BY Inside, FrameFields, FrameIs
<1>2. PICK L, r : /\ Under(L, r) /\ DOMAIN L \subseteq Numbers(unused_koopa_label_count)
                  /\ Trail(k_str, L, s,
                           Point(Cons(dump[1], Below(dump[1], Tail(dump), 1, r)), Imm(0)))
  BY SelfCalled
<1>3. Below(dump[1], Tail(dump), 1, r) = r
  BY DEF Below, Returners
<1>4. r \in Seq(Marks)
  BY <1>2 DEF Under, Beneath
<1> QED BY <1>1, <1>2, <1>3, <1>4

LEMMA BelowNone ==
  ASSUME NEW f, NEW d, NEW r
  PROVE  f.at \notin Returners => Below(f, d, 1, r) = r
BY DEF Below

\* What the calls stand for that an address is made in.
LEMMA IndexCall ==
  ASSUME NEW left \in Seq(Exps), NEW had \in Seq(Operands), NEW x, x.pointer \in BOOLEAN,
         x.exp \in Exps, NEW r, NEW L,
         NEW f, f = Index(left, had, x), NEW m, m = Todo("Index", Indexed(left, had, x))
  PROVE  /\ f \in Frames /\ f.at \in Readers /\ f.at \notin Returners
         /\ m \in Marks /\ m.at # "Loop" /\ Kept(m) = Range(had) /\ Means(f, Cons(m, r), r, L)
<1>1. /\ f \in Frames /\ f.at = "Index" /\ f.left = left /\ f.had = had
      /\ f.pointer = x.pointer /\ f.exp = x.exp
  BY PlaceFrameType DEF Index
<1>2. Indexed(f.left, f.had, f) = Indexed(left, had, x)
  BY <1>1 DEF Indexed
<1>3. m \in Marks /\ m.at = "Index" /\ Kept(m) = Range(had)
  BY PlaceType, IndexMark
<1>4. Means(f, Cons(m, r), r, L)
  BY <1>1, <1>2 DEF Means
<1> QED BY <1>1, <1>3, <1>4 DEF Readers, Returners

LEMMA PlaceCall ==
  ASSUME NEW indices \in Seq(Operands), NEW exp \in Exps, NEW r, NEW L,
         NEW f, f = ElemPtr(indices, exp), NEW m, m = Todo("Place", Sought(indices, exp))
  PROVE  /\ f \in Frames /\ f.at = "ElemPtr"
         /\ m \in Marks /\ m.at # "Loop" /\ Kept(m) = Range(indices) /\ Means(f, Cons(m, r), r, L)
<1>1. f \in Frames /\ f.at = "ElemPtr" /\ f.indices = indices /\ f.exp = exp
  BY PlaceFrameType DEF ElemPtr
<1>2. m \in Marks /\ m.at = "Place" /\ Kept(m) = Range(indices)
  BY PlaceType, PlaceMark
<1>3. Means(f, Cons(m, r), r, L)
  BY <1>1 DEF Means
<1> QED BY <1>1, <1>2, <1>3

LEMMA TellAssign == ASSUME TextInv, DumpAssign, NEW s, TellsNow(s) PROVE TellsNext(s)
<1>1. /\ dump # <<>> /\ dump[1].at = "Stmt" /\ dump[1].stmt.tag = 0 /\ Counting /\ k_str' = k_str
      /\ dump' = (IF dump[1].stmt.l_val = <<>>
                  THEN <<ExpF(dump[1].stmt.exp), [at |-> "Store", dst |-> Var(0)]>>
                  ELSE <<ExpF(Head(dump[1].stmt.l_val)),
                         Index(Tail(dump[1].stmt.l_val), <<>>, dump[1].stmt)>>)
                 \o Tail(dump)
  <2>1. dump # <<>>
    BY DEF DumpAssign, RunningStmt, Running
  <2>2. Head(dump) = dump[1]
    BY <2>1, Inside
  <2>3. dump[1].at = "Stmt" /\ dump[1].stmt.tag = 0 /\ k_str' = k_str
    BY <2>2 DEF DumpAssign, RunningStmt, Running
  <2>4. Counting
    BY <2>1, Inside DEF DumpAssign, counts, Counting
  <2>5. dump' = (IF Head(dump).stmt.l_val = <<>>
                 THEN <<ExpF(Head(dump).stmt.exp), [at |-> "Store", dst |-> Var(0)]>>
                 ELSE <<ExpF(Head(Head(dump).stmt.l_val)),
                        Index(Tail(Head(dump).stmt.l_val), <<>>, Head(dump).stmt)>>)
                \o Tail(dump)
    BY DEF DumpAssign, Continue
  <2> QED BY <2>1, <2>2, <2>3, <2>4, <2>5
<1> PICK x : x = dump[1].stmt
  OBVIOUS
<1>2. x \in Stmts
  BY <1>1, StmtCalled
<1>3. PICK L, r : /\ Under(L, r) /\ r \in Seq(Marks)
                  /\ Trail(k_str, L, s, Point(Cons(StmtF(x), r), Imm(0)))
  BY <1>1, StmtCalled
<1>4. k_str \in Seq(Items)
  BY <1>1, Inside
<1>5. CASE x.l_val = <<>>
  <2> PICK f, m : f = [at |-> "Store", dst |-> Var(0)] /\ m = Todo("Assign", Var(0))
    BY Zenon
  <2>1. /\ f \in Frames /\ f.at = "Store" /\ f.dst = Var(0)
        /\ m \in Marks /\ m.at = "Assign" /\ m.x = Var(0)
    BY FrameType, OperandType, MarkType
  <2>2. /\ f.at \in Readers /\ m.at # "Loop" /\ Means(f, Cons(m, r), r, L)
        /\ Below(f, Tail(dump), 1, r) = r
    BY <2>1, BelowNone DEF Readers, Returners, Means
  <2>3. \A a \in Kept(m) : Old(a, unused_koopa_count')
    BY <2>1 DEF Kept, Var
  <2>4. /\ x.exp \in Exps
        /\ Turns(Point(Cons(StmtF(x), r), Imm(0)), Point(Cons(ExpF(x.exp), Cons(m, r)), Imm(0)))
    BY <1>1, <1>2, <1>3, <1>5, TurnReader
  <2>5. Trail(k_str', L, s, Point(Cons(ExpF(x.exp), Cons(m, r)), Imm(0)))
    BY <1>1, <1>3, <1>4, <2>4, TrailMove
  <2>6. dump' = <<ExpF(x.exp), f>> \o Tail(dump)
    BY <1>1, <1>5
  <2> QED BY <1>1, <1>3, <2>1, <2>2, <2>3, <2>4, <2>5, <2>6, Asked, Zenon
<1>6. CASE x.l_val # <<>>
  <2> PICK left, had : left = Tail(x.l_val) /\ had = <<>>
    BY Zenon
  <2> PICK f, m : f = Index(left, had, x) /\ m = Todo("Index", Indexed(left, had, x))
    BY Zenon
  <2>1. /\ x.l_val \in Seq(Exps) /\ x.pointer \in BOOLEAN /\ x.exp \in Exps
    <3>1. GrammarStmt(x) /\ x.tag = 0
      BY <1>1, <1>2, Grammar, Zenon
    <3> QED BY <3>1 DEF GrammarStmt
  <2>2. /\ Head(x.l_val) \in Exps /\ left \in Seq(Exps) /\ had \in Seq(Operands)
        /\ Range(had) = {}
    <3>1. had \in Seq(Operands) /\ Range(had) = {}
      BY DEF Range
    <3>2. Head(x.l_val) \in Exps /\ Tail(x.l_val) \in Seq(Exps)
      BY <1>6, <2>1
    <3> QED BY <3>1, <3>2
  <2>3. Turns(Point(Cons(StmtF(x), r), Imm(0)), Point(Cons(ExpF(Head(x.l_val)), Cons(m, r)), Imm(0)))
    <3>1. x.tag = 0
      BY <1>1
    <3>2. Turns(Point(Cons(StmtF(x), r), Imm(0)),
                Point(Cons(ExpF(Head(x.l_val)),
                           Cons(Todo("Index", Indexed(Tail(x.l_val), <<>>, x)), r)), Imm(0)))
      BY <1>2, <1>3, <1>6, <3>1, TurnReader, Zenon
    <3> QED BY <3>2
  <2>4. /\ f \in Frames /\ f.at \in Readers /\ f.at \notin Returners
        /\ m \in Marks /\ m.at # "Loop" /\ Kept(m) = Range(had) /\ Means(f, Cons(m, r), r, L)
    <3>1. /\ x.pointer \in BOOLEAN /\ x.exp \in Exps /\ left \in Seq(Exps) /\ had \in Seq(Operands)
          /\ f = Index(left, had, x) /\ m = Todo("Index", Indexed(left, had, x))
      BY <2>1, <2>2
    <3> QED BY ONLY <3>1, IndexCall
  <2>5. Below(f, Tail(dump), 1, r) = r /\ \A a \in Kept(m) : Old(a, unused_koopa_count')
    BY <2>2, <2>4, BelowNone
  <2>6. Trail(k_str', L, s, Point(Cons(ExpF(Head(x.l_val)), Cons(m, r)), Imm(0)))
    BY <1>1, <1>3, <1>4, <2>3, TrailMove
  <2>7. dump' = <<ExpF(Head(x.l_val)), f>> \o Tail(dump)
    BY <1>1, <1>6
  <2> QED BY <1>1, <1>3, <2>2, <2>4, <2>5, <2>6, <2>7, Asked, Zenon
<1> QED BY <1>5, <1>6, SMTT(30)

LEMMA NoReader ==
  ASSUME TextInv, dump # <<>>, dump[1].at \notin Returners
  PROVE  ~ (1 \in 1 .. Len(Tail(dump)) /\ Tail(dump)[1].at \in Readers)
<1> PICK t : t = Tail(dump)
  BY Zenon
<1>1. /\ Len(dump) = Len(t) + 1 /\ Len(t) \in Nat /\ \A i \in 1 .. Len(t) : t[i] = dump[i + 1]
  BY Inside, FrameTail
<1>2. ASSUME 1 \in 1 .. Len(t) PROVE t[1].at \notin Readers
  <2>1. 1 \in 1 .. Len(dump) - 1
    BY <1>1, <1>2
  <2>2. dump[1 + 1].at \in Readers => dump[1].at \in Returners
    BY <2>1, Inside DEF Sound, Ready
  <2> QED BY <1>1, <1>2, <2>2
<1> QED BY <1>2

LEMMA TellNested == ASSUME TextInv, DumpNested, NEW s, TellsNow(s) PROVE TellsNext(s)
<1> PICK x : x = Head(dump).stmt
  OBVIOUS
<1>1. dump # <<>> /\ Head(dump) = dump[1] /\ dump[1].at = "Stmt" /\ k_str' = k_str
  <2>1. dump # <<>>
    BY DEF DumpNested, Running
  <2> QED BY <2>1, Inside DEF DumpNested, Running
<1>2. Counting /\ k_str' \in Seq(Items)
  BY <1>1, Inside DEF DumpNested, counts, Counting
<1>3. x \in Stmts
  BY <1>1, <1>2, StmtCalled
<1>4. PICK L, r : /\ Under(L, r) /\ r \in Seq(Marks) /\ Below(dump[1], Tail(dump), 1, r) = r
                  /\ Trail(k_str, L, s, Point(Cons(StmtF(x), r), Imm(0)))
  BY <1>1, <1>2, StmtCalled
<1>5. \A q : Turns(Point(Cons(StmtF(x), r), Imm(0)), q) => Trail(k_str', L, s, q)
  BY <1>1, <1>2, <1>4, TrailMove
<1>6. \/ x.tag = 1 /\ dump' = <<>> \o Tail(dump)
      \/ x.tag = 2 /\ dump' = <<ExpF(x.exp)>> \o Tail(dump)
      \/ x.tag = 3 /\ dump' = <<BlockF(x.block)>> \o Tail(dump)
  BY DEF DumpNested, Continue
<1>7. CASE x.tag = 1
  <2>1. Turns(Point(Cons(StmtF(x), r), Imm(0)), Point(r, Imm(0)))
    BY <1>3, <1>4, <1>7, TurnNested
  <2>2. dump[1].at \notin Returners /\ dump' = <<>> \o Tail(dump)
    BY <1>1, <1>6, <1>7 DEF Returners
  <2>3. Trail(k_str', L, s, Point(Below(dump[1], Tail(dump), 1, r), Imm(0)))
    BY <1>4, <1>5, <2>1
  <2> QED BY <1>1, <1>2, <1>4, <2>2, <2>3, Answered
<1>8. CASE x.tag = 2
  <2>1. /\ x.exp \in Exps
        /\ Turns(Point(Cons(StmtF(x), r), Imm(0)),
                 Point(Cons(ExpF(x.exp), Cons(Todo("Drop", 0), r)), Imm(0)))
    BY <1>3, <1>4, <1>8, TurnNested
  <2> PICK g : g = ExpF(x.exp)
    OBVIOUS
  <2>2. g \in Frames /\ g \in Marks /\ g.at = "Exp" /\ g.at \in Returners
    BY <2>1, FrameType, MarkType, Zenon DEF Returners
  <2>3. Below(g, Tail(dump), 1, r) = Cons(Todo("Drop", 0), r)
    <3>1. dump[1].at \notin Returners
      BY <1>1 DEF Returners
    <3> QED BY <1>1, <2>2, <3>1, NoReader DEF Below
  <2>4. Trail(k_str', L, s, Point(Cons(g, Below(g, Tail(dump), 1, r)), Imm(0)))
    BY <1>5, <2>1, <2>3
  <2>5. dump' = <<g>> \o Tail(dump)
    BY <1>6, <1>8
  <2> QED BY <1>1, <1>2, <1>4, <2>2, <2>4, <2>5, Entered
<1>9. CASE x.tag = 3
  <2>1. /\ x.block \in Blocks
        /\ Turns(Point(Cons(StmtF(x), r), Imm(0)), Point(Cons(BlockF(x.block), r), Imm(0)))
    BY <1>3, <1>4, <1>9, TurnNested
  <2> PICK g : g = BlockF(x.block)
    OBVIOUS
  <2>2. g \in Frames /\ g \in Marks /\ g.at = "Block" /\ g.at \notin Returners
    BY <2>1, FrameType, MarkType DEF Returners
  <2>3. Trail(k_str', L, s, Point(Cons(g, Below(g, Tail(dump), 1, r)), Imm(0)))
    BY <1>5, <2>1, <2>2, BelowNone
  <2>4. dump' = <<g>> \o Tail(dump)
    BY <1>6, <1>9
  <2> QED BY <1>1, <1>2, <1>4, <2>2, <2>3, <2>4, Entered
<1> QED BY <1>6, <1>7, <1>8, <1>9

LEMMA TellIf == ASSUME TextInv, DumpIf, NEW s, TellsNow(s) PROVE TellsNext(s)
<1> PICK x : x = Head(dump).stmt
  OBVIOUS
<1>1. /\ dump # <<>> /\ Head(dump) = dump[1] /\ dump[1].at = "Stmt" /\ k_str' = k_str
      /\ x.tag \in {4, 5}
  <2>1. dump # <<>>
    BY DEF DumpIf, RunningStmt, Running
  <2> QED BY <2>1, Inside DEF DumpIf, RunningStmt, Running
<1>2. Counting /\ k_str' \in Seq(Items)
  BY <1>1, Inside DEF DumpIf, counts, Counting
<1>3. x \in Stmts
  BY <1>1, <1>2, StmtCalled
<1>4. PICK L, r : /\ Under(L, r) /\ r \in Seq(Marks)
                  /\ Trail(k_str, L, s, Point(Cons(StmtF(x), r), Imm(0)))
  BY <1>1, <1>2, StmtCalled
<1> PICK f, m : f = [at |-> "Branch", stmt |-> x] /\ m = Todo("If", x)
  BY Zenon
<1>5. dump' = <<ExpF(x.exp), f>> \o Tail(dump)
  BY DEF DumpIf, Continue
<1>6. f \in Frames /\ f.at = "Branch" /\ f.stmt = x /\ m \in Marks /\ m.at = "If"
  BY <1>3, FrameType, MarkType
<1>7. /\ f.at \in Readers /\ m.at # "Loop" /\ Means(f, Cons(m, r), r, L)
      /\ Below(f, Tail(dump), 1, r) = r /\ Kept(m) = {}
  BY <1>6, BelowNone DEF Readers, Returners, Means, Kept
<1>8. \A a \in Kept(m) : Old(a, unused_koopa_count')
  BY <1>7
<1>9. /\ x.exp \in Exps
      /\ Turns(Point(Cons(StmtF(x), r), Imm(0)), Point(Cons(ExpF(x.exp), Cons(m, r)), Imm(0)))
  BY <1>1, <1>3, <1>4, TurnReader
<1>10. Trail(k_str', L, s, Point(Cons(ExpF(x.exp), Cons(m, r)), Imm(0)))
  BY <1>1, <1>2, <1>4, <1>9, TrailMove
<1> QED BY <1>1, <1>2, <1>4, <1>5, <1>6, <1>7, <1>8, <1>9, <1>10, Asked, Zenon

LEMMA TellReturn == ASSUME TextInv, DumpReturn, NEW s, TellsNow(s) PROVE TellsNext(s)
<1> PICK x : x = Head(dump).stmt
  OBVIOUS
<1>1. /\ dump # <<>> /\ Head(dump) = dump[1] /\ dump[1].at = "Stmt" /\ k_str' = k_str
      /\ x.tag = 9
  <2>1. dump # <<>>
    BY DEF DumpReturn, RunningStmt, Running
  <2> QED BY <2>1, Inside DEF DumpReturn, RunningStmt, Running
<1>2. Counting /\ k_str' \in Seq(Items)
  BY <1>1, Inside DEF DumpReturn, counts, Counting
<1>3. x \in Stmts
  BY <1>1, <1>2, StmtCalled
<1>4. PICK L, r : /\ Under(L, r) /\ r \in Seq(Marks)
                  /\ Trail(k_str, L, s, Point(Cons(StmtF(x), r), Imm(0)))
  BY <1>1, <1>2, StmtCalled
<1> PICK f, m : f = [at |-> "Ret"] /\ m = Todo("Return", 0)
  BY Zenon
<1>5. dump' = <<ExpF(x.exp), f>> \o Tail(dump)
  BY DEF DumpReturn, Continue
<1>6. f \in Frames /\ f.at = "Ret" /\ m \in Marks /\ m.at = "Return"
  BY FrameType, MarkType
<1>7. /\ f.at \in Readers /\ m.at # "Loop" /\ Means(f, Cons(m, r), r, L)
      /\ Below(f, Tail(dump), 1, r) = r /\ Kept(m) = {}
  BY <1>6, BelowNone DEF Readers, Returners, Means, Kept
<1>8. \A a \in Kept(m) : Old(a, unused_koopa_count')
  BY <1>7
<1>9. /\ x.exp \in Exps
      /\ Turns(Point(Cons(StmtF(x), r), Imm(0)), Point(Cons(ExpF(x.exp), Cons(m, r)), Imm(0)))
  BY <1>1, <1>3, <1>4, TurnReader
<1>10. Trail(k_str', L, s, Point(Cons(ExpF(x.exp), Cons(m, r)), Imm(0)))
  BY <1>1, <1>2, <1>4, <1>9, TrailMove
<1> QED BY <1>1, <1>2, <1>4, <1>5, <1>6, <1>7, <1>8, <1>9, <1>10, Asked, Zenon

-----------------------------------------------------------------------------
(* New labels *)

LEMMA OneNumber ==
  ASSUME NEW L, NEW n \in Nat, DOMAIN L \subseteq Numbers(n), NEW kind \in LabelKinds \ {"entry"}, NEW p
  PROVE  \E M : Extends(L, M) /\ AtLabel(M, Lab(kind, n), p) /\ DOMAIN M \subseteq Numbers(n + 1)
<1> PICK l : l = Lab(kind, n)
  OBVIOUS
<1>1. l \notin DOMAIN L /\ l \in Numbers(n + 1)
  BY DEF Numbers, Lab
<1> PICK M : M = [x \in DOMAIN L \cup {l} |-> IF x = l THEN p ELSE L[x]]
  BY Zenon
<1>2. Extends(L, M) /\ AtLabel(M, l, p)
  BY <1>1 DEF Extends, AtLabel
<1>3. DOMAIN M \subseteq Numbers(n + 1)
  <2>1. n + 1 \in Nat /\ n <= n + 1
    OBVIOUS
  <2>2. Numbers(n) \subseteq Numbers(n + 1)
    BY <2>1, NumbersGrow
  <2> QED BY <1>1, <2>2
<1> QED BY <1>2, <1>3

LEMMA ExtendsTwice ==
  ASSUME NEW L, NEW M, NEW N, Extends(L, M), Extends(M, N)
  PROVE  Extends(L, N)
BY DEF Extends

LEMMA TwoNumbers ==
  ASSUME NEW L, NEW n \in Nat, DOMAIN L \subseteq Numbers(n),
         NEW j \in LabelKinds \ {"entry"}, NEW p, NEW k \in LabelKinds \ {"entry"}, NEW q
  PROVE  \E M : /\ Extends(L, M) /\ AtLabel(M, Lab(j, n), p) /\ AtLabel(M, Lab(k, n + 1), q)
                /\ DOMAIN M \subseteq Numbers(n + 2)
<1>1. PICK M : Extends(L, M) /\ AtLabel(M, Lab(j, n), p) /\ DOMAIN M \subseteq Numbers(n + 1)
  BY OneNumber, Zenon
<1>2. n + 1 \in Nat /\ (n + 1) + 1 = n + 2
  OBVIOUS
<1>3. PICK N : Extends(M, N) /\ AtLabel(N, Lab(k, n + 1), q) /\ DOMAIN N \subseteq Numbers((n + 1) + 1)
  BY <1>1, <1>2, OneNumber, Zenon
<1>4. Extends(L, N) /\ AtLabel(N, Lab(j, n), p)
  BY <1>1, <1>3, ExtendsTwice, LabelGrows
<1> QED BY <1>2, <1>3, <1>4

LEMMA ThreeNumbers ==
  ASSUME NEW L, NEW n \in Nat, DOMAIN L \subseteq Numbers(n),
         NEW j \in LabelKinds \ {"entry"}, NEW p, NEW k \in LabelKinds \ {"entry"}, NEW q,
         NEW i \in LabelKinds \ {"entry"}, NEW u
  PROVE  \E M : /\ Extends(L, M) /\ AtLabel(M, Lab(j, n), p) /\ AtLabel(M, Lab(k, n + 1), q)
                /\ AtLabel(M, Lab(i, n + 2), u) /\ DOMAIN M \subseteq Numbers(n + 3)
<1>1. PICK M : /\ Extends(L, M) /\ AtLabel(M, Lab(j, n), p) /\ AtLabel(M, Lab(k, n + 1), q)
               /\ DOMAIN M \subseteq Numbers(n + 2)
  BY TwoNumbers, Zenon
<1>2. n + 2 \in Nat /\ (n + 2) + 1 = n + 3
  OBVIOUS
<1>3. PICK N : Extends(M, N) /\ AtLabel(N, Lab(i, n + 2), u) /\ DOMAIN N \subseteq Numbers((n + 2) + 1)
  BY <1>1, <1>2, OneNumber, Zenon
<1>4. Extends(L, N) /\ AtLabel(N, Lab(j, n), p) /\ AtLabel(N, Lab(k, n + 1), q)
  BY <1>1, <1>3, ExtendsTwice, LabelGrows
<1> QED BY <1>2, <1>3, <1>4

LEMMA UnderGrows ==
  ASSUME TextInv, dump # <<>>, Counting, NEW L, NEW M, NEW r, Under(L, r), Extends(L, M),
         DOMAIN M \subseteq Numbers(unused_koopa_label_count')
  PROVE  Under(M, r)
<1>1. /\ unused_koopa_count' \in Nat /\ unused_koopa_count' <= unused_koopa_count'
      /\ Tail(dump) \in Seq(Frames)
  BY Inside, FrameTail DEF Counting
<1>2. /\ r \in Seq(Marks) /\ Sealed(r, unused_koopa_count')
      /\ Stacked(Tail(dump), r, L, unused_koopa_count')
  BY DEF Under, Beneath
<1>3. Stacked(Tail(dump), r, M, unused_koopa_count')
  BY <1>1, <1>2, StackedGrows, Zenon
<1> QED BY <1>2, <1>3 DEF Under, Beneath

LEMMA ThreeFrames ==
  ASSUME NEW f \in Frames, NEW g \in Frames, NEW h \in Frames, NEW d \in Seq(Frames)
  PROVE  (<<f, g>> \o <<h>>) \o d = <<f, g>> \o Cons(h, d) /\ Cons(h, d) \in Seq(Frames)
<1> PICK S : S = Frames
  OBVIOUS
<1>1. f \in S /\ g \in S /\ h \in S /\ d \in Seq(S)
  OBVIOUS
<1>2. <<f, g>> \in Seq(S) /\ <<h>> \in Seq(S)
  BY ONLY <1>1
<1>3. (<<f, g>> \o <<h>>) \o d = <<f, g>> \o (<<h>> \o d)
  BY ONLY <1>1, <1>2, ConcatAssociative
<1> QED BY <1>3, FrameCons DEF Cons

LEMMA BlockCalled ==
  ASSUME TextInv, dump # <<>>, Counting, NEW s, TellsNow(s), dump[1].at = "Block"
  PROVE  /\ dump[1].items \in Blocks
         /\ \E L, r : /\ Under(L, r) /\ DOMAIN L \subseteq Numbers(unused_koopa_label_count)
                      /\ r \in Seq(Marks) /\ Below(dump[1], Tail(dump), 1, r) = r
                      /\ Trail(k_str, L, s, Point(Cons(BlockF(dump[1].items), r), Imm(0)))
<1>1. dump[1].items \in Blocks /\ dump[1] = BlockF(dump[1].items)
  BY Inside, FrameFields, FrameIs
<1>2. PICK L, r : /\ Under(L, r) /\ DOMAIN L \subseteq Numbers(unused_koopa_label_count)
                  /\ Trail(k_str, L, s,
                           Point(Cons(dump[1], Below(dump[1], Tail(dump), 1, r)), Imm(0)))
  BY SelfCalled
<1>3. Below(dump[1], Tail(dump), 1, r) = r
  BY DEF Below, Returners
<1>4. r \in Seq(Marks)
  BY <1>2 DEF Under, Beneath
<1> QED BY <1>1, <1>2, <1>3, <1>4

LEMMA TellBlockEnd == ASSUME TextInv, DumpBlockEnd, NEW s, TellsNow(s) PROVE TellsNext(s)
<1>1. dump # <<>>
  BY DEF DumpBlockEnd, Running
<1>2. /\ Head(dump) = dump[1] /\ dump[1].at = "Block" /\ k_str' = k_str /\ dump[1].items = <<>>
      /\ dump' = <<>> \o Tail(dump)
  BY <1>1, Inside DEF DumpBlockEnd, Running, Continue
<1>3. Counting /\ k_str' \in Seq(Items)
  BY <1>1, <1>2, Inside DEF DumpBlockEnd, counts, Counting
<1>4. dump[1].items \in Blocks
  BY <1>1, <1>2, <1>3, BlockCalled
<1>5. PICK L, r : /\ Under(L, r) /\ r \in Seq(Marks) /\ Below(dump[1], Tail(dump), 1, r) = r
                  /\ Trail(k_str, L, s, Point(Cons(BlockF(dump[1].items), r), Imm(0)))
  BY <1>1, <1>2, <1>3, BlockCalled
<1>6. Turns(Point(Cons(BlockF(dump[1].items), r), Imm(0)), Point(r, Imm(0)))
  BY <1>2, <1>4, <1>5, TurnBlock, Zenon
<1>7. Trail(k_str', L, s, Point(Below(dump[1], Tail(dump), 1, r), Imm(0)))
  BY <1>2, <1>3, <1>5, <1>6, TrailMove
<1>8. dump[1].at \notin Returners
  BY <1>2 DEF Returners
<1> QED BY <1>1, <1>2, <1>3, <1>5, <1>7, <1>8, Answered

LEMMA LastIsReturn ==
  ASSUME TextInv, dump # <<>>
  PROVE  last_ins_is_ret => k_str[Len(k_str)].op = "ret"
BY DEF TextInv, BlockInv, EndOfText

\* Behind a return the block goes on under a label of its own.
LEMMA BlockGoesOn ==
  ASSUME TextInv, DumpBlockItem, Counting, dump # <<>>, NEW s, NEW L, NEW r, Under(L, r),
         DOMAIN L \subseteq Numbers(unused_koopa_label_count), NEW p, Trail(k_str, L, s, p)
  PROVE  k_str' \in Seq(Items) /\ \E M : Under(M, r) /\ Trail(k_str', M, s, p)
<1> PICK l, n : n = unused_koopa_label_count /\ l = Lab("block", n)
  OBVIOUS
<1>1. k_str \in Seq(Items) /\ n \in Nat /\ l \in Labels
  BY Inside, LabelType DEF LabelKinds
<1>2. CASE last_ins_is_ret
  <2>1. k_str' = Append(k_str, Label(l)) /\ unused_koopa_label_count' = n + 1
    BY <1>2 DEF DumpBlockItem
  <2>2. "block" \in LabelKinds \ {"entry"}
    BY DEF LabelKinds
  <2>3. PICK M : Extends(L, M) /\ AtLabel(M, l, p) /\ DOMAIN M \subseteq Numbers(n + 1)
    BY <1>1, <2>2, OneNumber, Zenon
  <2>4. Under(M, r)
    BY <2>1, <2>3, UnderGrows
  <2>5. Trail(k_str, M, s, p)
    BY <2>3, TrailGrows
  <2>6. Label(l) \in Items /\ Faithful(Label(l), p, p, M)
    BY <1>1, <2>3, ControlItems, FaithfulLabel
  <2>7. k_str \o <<Label(l)>> \in Seq(Items) /\ Trail(k_str \o <<Label(l)>>, M, s, p)
    BY <1>1, <2>5, <2>6, TrailWrite
  <2>8. k_str' = k_str \o <<Label(l)>>
    BY <1>1, <2>1, <2>6, Added
  <2> QED BY <2>4, <2>7, <2>8
<1>3. CASE ~ last_ins_is_ret
  <2>1. k_str' = k_str
    BY <1>3 DEF DumpBlockItem
  <2> QED BY <1>1, <2>1
<1> QED BY <1>2, <1>3, Inside

LEMMA TellBlockItem == ASSUME TextInv, DumpBlockItem, NEW s, TellsNow(s) PROVE TellsNext(s)
<1>1. dump # <<>>
  BY DEF DumpBlockItem, Running
<1>2. Head(dump) = dump[1] /\ dump[1].at = "Block" /\ dump[1].items # <<>>
  BY <1>1, Inside DEF DumpBlockItem, Running
<1>3. Counting
  BY <1>1, Inside, SMTT(30) DEF DumpBlockItem, counts, Counting
<1> PICK b, t : b = dump[1].items /\ t = Tail(dump)
  BY Zenon
<1>4. b \in Blocks /\ b # <<>> /\ t \in Seq(Frames)
  BY <1>1, <1>2, <1>3, BlockCalled, Inside, FrameTail
<1>5. PICK L, r : /\ Under(L, r) /\ DOMAIN L \subseteq Numbers(unused_koopa_label_count)
                  /\ r \in Seq(Marks) /\ Below(dump[1], t, 1, r) = r
                  /\ Trail(k_str, L, s, Point(Cons(BlockF(b), r), Imm(0)))
  BY <1>1, <1>2, <1>3, BlockCalled
<1>6. k_str' \in Seq(Items)
  BY <1>1, <1>3, <1>5, BlockGoesOn
<1>7. PICK M : Under(M, r) /\ Trail(k_str', M, s, Point(Cons(BlockF(b), r), Imm(0)))
  BY <1>1, <1>3, <1>5, BlockGoesOn
<1> PICK h : h = BlockF(Tail(b))
  OBVIOUS
<1>8. Tail(b) \in Blocks /\ h \in Frames /\ h \in Marks /\ h.at = "Block"
  <2>1. Tail(b) \in Blocks
    BY <1>4, <1>5, TurnBlock
  <2> QED BY <2>1, FrameType, MarkType
<1>9. Beneath(Cons(h, t), M, Cons(h, r)) /\ Cons(h, r) \in Seq(Marks)
  <2>1. Below(h, t, 1, r) = r /\ Means(h, Cons(h, r), r, M)
    BY <1>8, BelowNone, MeansSelf DEF Returners
  <2>2. h.at # "LoopJoin" /\ h.at # "Loop" /\ \A a \in Kept(h) : Old(a, unused_koopa_count')
    BY <1>8 DEF Kept
  <2>3. /\ r \in Seq(Marks) /\ Sealed(r, unused_koopa_count') /\ Stacked(t, r, M, unused_koopa_count')
        /\ DOMAIN M \subseteq Numbers(unused_koopa_label_count')
    BY <1>7 DEF Under, Beneath
  <2>4. /\ Cons(h, r) \in Seq(Marks) /\ Sealed(Cons(h, r), unused_koopa_count')
        /\ Stacked(Cons(h, t), Cons(h, r), M, unused_koopa_count')
    BY <1>4, <1>8, <2>1, <2>2, <2>3, Placed, Zenon
  <2> QED BY <2>3, <2>4 DEF Beneath
<1> PICK u, v : u = Cons(h, t) /\ v = Cons(h, r)
  OBVIOUS
<1>10. u \in Seq(Frames) /\ v \in Seq(Marks) /\ Beneath(u, M, v)
  <2>1. h \in Frames /\ t \in Seq(Frames)
    BY <1>4, <1>8
  <2>2. Cons(h, t) \in Seq(Frames)
    BY ONLY <2>1, FrameCons, Zenon
  <2> QED BY <1>9, <2>2
<1>11. dump' = ((IF Head(b).tag = 0
                 THEN <<ExpF(Head(b).exp), [at |-> "VarDef"]>>
                 ELSE <<StmtF(Head(b).stmt)>>) \o <<h>>) \o t
  <2>1. dump' = ((IF Head(Head(dump).items).tag = 0
                  THEN <<ExpF(Head(Head(dump).items).exp), [at |-> "VarDef"]>>
                  ELSE <<StmtF(Head(Head(dump).items).stmt)>>) \o <<BlockF(Tail(Head(dump).items))>>)
                \o Tail(dump)
    BY DEF DumpBlockItem, Continue
  <2>2. Head(dump).items = b
    BY <1>2
  <2> QED BY <2>1, <2>2, ZenonT(30)
<1>12. CASE Head(b).tag = 0
  <2> PICK x, f, m : x = Head(b).exp /\ f = [at |-> "VarDef"] /\ m = Todo("Assign", Var(0))
    BY Zenon
  <2>1. /\ f \in Frames /\ f.at = "VarDef" /\ m \in Marks /\ m.at = "Assign" /\ m.x = Var(0)
    BY FrameType, MarkType, OperandType
  <2>2. /\ f.at \in Readers /\ m.at # "Loop" /\ Means(f, Cons(m, v), v, M) /\ Below(f, u, 1, v) = v
    BY <2>1, BelowNone DEF Readers, Returners, Means
  <2>3. \A a \in Kept(m) : Old(a, unused_koopa_count')
    BY <2>1 DEF Kept, Var
  <2>4. /\ x \in Exps
        /\ Turns(Point(Cons(BlockF(b), r), Imm(0)), Point(Cons(ExpF(x), Cons(m, v)), Imm(0)))
    BY <1>4, <1>5, <1>12, TurnBlock, Zenon
  <2>5. Trail(k_str', M, s, Point(Cons(ExpF(x), Cons(m, v)), Imm(0)))
    BY <1>6, <1>7, <2>4, TrailMove
  <2>6. dump' = <<ExpF(x), f>> \o u
    <3>1. ExpF(x) \in Frames
      BY <2>4, FrameType, Zenon
    <3> PICK g : g = ExpF(x)
      BY SMTT(30)
    <3>2. dump' = (<<g, f>> \o <<h>>) \o t
      BY <1>11, <1>12
    <3>3. (<<g, f>> \o <<h>>) \o t = <<g, f>> \o Cons(h, t)
      <4>1. g \in Frames /\ f \in Frames /\ h \in Frames /\ t \in Seq(Frames)
        BY <1>4, <1>8, <2>1, <3>1
      <4> QED BY ONLY <4>1, ThreeFrames, SMTT(30)
    <3> QED BY <3>2, <3>3, Zenon
  <2> QED BY <1>10, <2>1, <2>2, <2>3, <2>4, <2>5, <2>6, AskedOver, Zenon
<1>13. CASE Head(b).tag # 0
  <2> PICK g : g = StmtF(Head(b).stmt)
    OBVIOUS
  <2>1. /\ Head(b).stmt \in Stmts
        /\ Turns(Point(Cons(BlockF(b), r), Imm(0)), Point(Cons(g, v), Imm(0)))
    BY <1>4, <1>5, <1>13, TurnBlock
  <2>2. g \in Frames /\ g \in Marks /\ g.at = "Stmt"
    BY <2>1, FrameType, MarkType, Zenon
  <2>3. Trail(k_str', M, s, Point(Cons(g, v), Imm(0)))
    BY <1>6, <1>7, <2>1, TrailMove
  <2>4. Below(g, u, 1, v) = v
    BY <2>2, BelowNone DEF Returners
  <2>5. dump' = <<g>> \o u
    <3>1. dump' = (<<g>> \o <<h>>) \o t
      BY <1>11, <1>13, SMTT(30)
    <3>2. <<g>> \o <<h>> = <<g, h>>
      <4> PICK S : S = Frames
        OBVIOUS
      <4>1. g \in S /\ h \in S
        BY <1>8, <2>2
      <4> QED BY ONLY <4>1, Joined, Zenon
    <3>3. <<g, h>> \o t = Cons(g, Cons(h, t))
      BY <1>4, <1>8, <2>2, TwoFrames, ZenonT(30)
    <3>4. Cons(g, u) = <<g>> \o u
      BY <1>10, <2>2, FrameCons, Zenon
    <3>5. dump' = Cons(g, u)
      BY <3>1, <3>2, <3>3, ZenonT(40)
    <3> QED BY <3>4, <3>5, SMTT(30)
  <2> QED BY <1>10, <2>2, <2>3, <2>4, <2>5, EnteredOver
<1> QED BY <1>12, <1>13

-----------------------------------------------------------------------------
(* The handlers that read a value *)

LEMMA TellVarDef == ASSUME TextInv, DumpVarDef, NEW s, TellsNow(s) PROVE TellsNext(s)
<1>1. dump # <<>>
  BY DEF DumpVarDef, Running
<1>2. dump[1].at = "VarDef" /\ dump' = <<>> \o Tail(dump)
  BY <1>1, Inside, Zenon DEF DumpVarDef, Running, Continue
<1>3. Counting
  BY <1>1, Inside, SMTT(30) DEF DumpVarDef, counts, Counting
<1>4. dump[1].at \in Readers /\ dump[1].at \notin Returners
  BY <1>2 DEF Readers, Returners
<1>5. PICK L, r : /\ Under(L, r)
                  /\ \E c \in Seq(Marks) :
                       /\ Means(dump[1], c, Below(dump[1], Tail(dump), 1, r), L)
                       /\ Trail(k_str, L, s, Point(c, data))
  BY <1>1, <1>3, <1>4, ReaderCalled
<1>6. PICK c \in Seq(Marks) : /\ Means(dump[1], c, Below(dump[1], Tail(dump), 1, r), L)
                              /\ Trail(k_str, L, s, Point(c, data))
  BY <1>5
<1>7. Below(dump[1], Tail(dump), 1, r) = r /\ r \in Seq(Marks)
  BY <1>4, <1>5, BelowNone DEF Under, Beneath
<1>8. c = Cons(Todo("Assign", Var(0)), r)
  BY <1>2, <1>6, <1>7 DEF Means
<1> PICK n, x : n = unused_koopa_var_count /\ x = Var(n)
  OBVIOUS
<1>9. n \in Nat /\ x \in Operands /\ x[1] = "@" /\ data \in Operands /\ k_str \in Seq(Items)
  BY <1>1, Inside, OperandType DEF Var
<1>10. k_str' = k_str \o <<Alloc(x), Store(data, x)>>
  BY DEF DumpVarDef
<1> PICK p : p = Point(Cons(Todo("Assign", x), r), data)
  OBVIOUS
<1>11. Trail(k_str, L, s, p)
  BY <1>6, <1>7, <1>8, <1>9, AssignAny, TrailMove
<1>12. Faithful(Alloc(x), p, p, L) /\ Faithful(Store(data, x), p, Point(r, Imm(0)), L)
  BY <1>7, <1>9, FaithfulAlloc, FaithfulStore
<1>13. Alloc(x) \in Items /\ Store(data, x) \in Items
  BY <1>9, PlainItems
<1>14. k_str' \in Seq(Items) /\ Trail(k_str', L, s, Point(r, Imm(0)))
  BY <1>9, <1>10, <1>11, <1>12, <1>13, TrailTwo
<1> QED BY <1>1, <1>2, <1>3, <1>4, <1>5, <1>7, <1>14, Answered

LEMMA TellStore == ASSUME TextInv, DumpStore, NEW s, TellsNow(s) PROVE TellsNext(s)
<1>1. dump # <<>>
  BY DEF DumpStore, Running
<1> PICK d : d = dump[1].dst
  OBVIOUS
<1>2. dump[1].at = "Store" /\ dump' = <<>> \o Tail(dump)
  BY <1>1, Inside DEF DumpStore, Running, Continue
<1>3. Counting
  BY <1>1, Inside, SMTT(30) DEF DumpStore, counts, Counting
<1>4. dump[1].at \in Readers /\ dump[1].at \notin Returners
  BY <1>2 DEF Readers, Returners
<1>5. PICK L, r : /\ Under(L, r)
                  /\ \E c \in Seq(Marks) :
                       /\ Sealed(c, unused_koopa_count)
                       /\ Means(dump[1], c, Below(dump[1], Tail(dump), 1, r), L)
                       /\ Trail(k_str, L, s, Point(c, data))
  BY <1>1, <1>3, <1>4, ReaderCalled
<1>6. PICK c \in Seq(Marks) : /\ Sealed(c, unused_koopa_count)
                              /\ Means(dump[1], c, Below(dump[1], Tail(dump), 1, r), L)
                              /\ Trail(k_str, L, s, Point(c, data))
  BY <1>5
<1>7. Below(dump[1], Tail(dump), 1, r) = r /\ r \in Seq(Marks)
  BY <1>4, <1>5, BelowNone DEF Under, Beneath
<1> PICK m : m = Todo("Assign", d)
  OBVIOUS
<1>8. c = Cons(m, r)
  BY <1>2, <1>6, <1>7 DEF Means
<1>9. d \in Operands /\ data \in Operands /\ k_str \in Seq(Items)
  BY <1>1, <1>2, Inside, FrameFields
<1>10. d[1] # "%temp_l_result"
  <2>1. m \in Marks /\ m.at = "Assign" /\ m.x = d
    BY <1>9, MarkType
  <2>2. \A a \in Kept(m) : Old(a, unused_koopa_count)
    BY <1>6, <1>7, <1>8, <2>1, SealedCons
  <2>3. d[1] # "@" => d \in Kept(m)
    BY <2>1 DEF Kept
  <2> QED BY <2>2, <2>3 DEF Old
<1>11. k_str' = k_str \o <<Store(data, d)>>
  <2>1. Store(data, d) \in Items
    BY <1>9, PlainItems
  <2>2. k_str' = Append(k_str, Store(data, d))
    BY <1>1, Inside DEF DumpStore
  <2> QED BY <1>9, <2>1, <2>2, Added
<1>12. Faithful(Store(data, d), Point(c, data), Point(r, Imm(0)), L)
  BY <1>7, <1>8, <1>9, <1>10, FaithfulStore
<1>13. k_str' \in Seq(Items) /\ Trail(k_str', L, s, Point(r, Imm(0)))
  BY <1>6, <1>9, <1>11, <1>12, PlainItems, TrailWrite
<1> QED BY <1>1, <1>2, <1>3, <1>4, <1>5, <1>7, <1>13, Answered

\* What is known when the value of an index has come back.
LEMMA IndexCalled ==
  ASSUME TextInv, dump # <<>>, dump[1].at = "Index", Counting, NEW s, TellsNow(s)
  PROVE  LET f == dump[1]
             m == Todo("Index", Indexed(f.left, f.had, f))
         IN  /\ f.left \in Seq(Exps) /\ f.had \in Seq(Operands) /\ f.pointer \in BOOLEAN
             /\ f.exp \in Exps /\ data \in Operands /\ k_str \in Seq(Items)
             /\ Range(Append(f.had, data)) = Range(f.had) \cup {data}
             /\ \A a \in Range(f.had) : Old(a, unused_koopa_count)
             /\ \E L, r : /\ Under(L, r) /\ r \in Seq(Marks) /\ Sealed(r, unused_koopa_count)
                          /\ Trail(k_str, L, s, Point(Cons(m, r), data))
<1> PICK f, m : f = dump[1] /\ m = Todo("Index", Indexed(f.left, f.had, f))
  OBVIOUS
<1>1. /\ f.left \in Seq(Exps) /\ f.had \in Seq(Operands) /\ f.pointer \in BOOLEAN
      /\ f.exp \in Exps /\ data \in Operands /\ k_str \in Seq(Items)
  BY Inside, FrameFields
<1>2. f.at \in Readers /\ f.at \notin Returners
  BY DEF Readers, Returners
<1>3. PICK L, r : /\ Under(L, r)
                  /\ \E c \in Seq(Marks) :
                       /\ Sealed(c, unused_koopa_count)
                       /\ Means(f, c, Below(f, Tail(dump), 1, r), L)
                       /\ Trail(k_str, L, s, Point(c, data))
  BY <1>2, ReaderCalled, Zenon
<1>4. PICK c \in Seq(Marks) : /\ Sealed(c, unused_koopa_count)
                              /\ Means(f, c, Below(f, Tail(dump), 1, r), L)
                              /\ Trail(k_str, L, s, Point(c, data))
  BY <1>3
<1>5. Below(f, Tail(dump), 1, r) = r /\ r \in Seq(Marks)
  BY <1>2, <1>3, BelowNone DEF Under, Beneath
<1>6. c = Cons(m, r)
  BY <1>4, <1>5 DEF Means
<1>7. m \in Marks /\ Kept(m) = Range(f.had)
  BY <1>1, PlaceType, IndexMark
<1>8. (\A a \in Range(f.had) : Old(a, unused_koopa_count)) /\ Sealed(r, unused_koopa_count)
  BY <1>4, <1>5, <1>6, <1>7, SealedCons
<1>9. Range(Append(f.had, data)) = Range(f.had) \cup {data}
  BY <1>1, RangeParts
<1> QED BY <1>1, <1>3, <1>4, <1>5, <1>6, <1>8, <1>9

LEMMA TellIndex ==
  ASSUME TextInv, DumpIndex, Old(data, unused_koopa_count), NEW s, TellsNow(s)
  PROVE  TellsNext(s)
<1>1. dump # <<>>
  BY DEF DumpIndex, Running
<1> PICK f, t, n : f = dump[1] /\ t = Tail(dump) /\ n = unused_koopa_count
  BY Zenon
<1> PICK left, had, x : left = Tail(f.left) /\ had = Append(f.had, data) /\ x = Head(f.left)
  BY Zenon
<1> PICK g, h : g = Index(left, had, f) /\ h = Todo("Index", Indexed(left, had, f))
  OBVIOUS
<1>2. /\ f.at = "Index" /\ f.left # <<>> /\ dump' = <<ExpF(x), g>> \o t
      /\ k_str' = k_str /\ unused_koopa_count' = n
  BY <1>1, Inside, Zenon DEF DumpIndex, Running, Continue, counts
<1>3. Counting
  BY <1>1, Inside, SMTT(30) DEF DumpIndex, counts, Counting
<1>4. /\ f.left \in Seq(Exps) /\ f.had \in Seq(Operands) /\ f.pointer \in BOOLEAN
      /\ f.exp \in Exps /\ data \in Operands /\ k_str \in Seq(Items)
      /\ Range(had) = Range(f.had) \cup {data} /\ \A a \in Range(f.had) : Old(a, n)
  BY <1>1, <1>2, <1>3, IndexCalled, Zenon
<1>5. PICK L, r : /\ Under(L, r) /\ r \in Seq(Marks)
                  /\ Trail(k_str, L, s, Point(Cons(Todo("Index", Indexed(f.left, f.had, f)), r), data))
  BY <1>1, <1>2, <1>3, IndexCalled, Zenon
<1>6. x \in Exps /\ left \in Seq(Exps) /\ had \in Seq(Operands)
  BY <1>2, <1>4
<1>7. Turns(Point(Cons(Todo("Index", Indexed(f.left, f.had, f)), r), data),
            Point(Cons(ExpF(x), Cons(h, r)), Imm(0)))
  <2>1. Turns(Point(Cons(Todo("Index", Indexed(f.left, f.had, f)), r), data),
              Point(Cons(ExpF(Head(f.left)),
                         Cons(Todo("Index", Indexed(Tail(f.left), Append(f.had, data), f)), r)), Imm(0)))
    <3>1. /\ f.pointer \in BOOLEAN /\ f.exp \in Exps /\ f.left \in Seq(Exps) /\ f.left # <<>>
          /\ f.had \in Seq(Operands) /\ data \in Operands /\ r \in Seq(Marks)
      BY <1>2, <1>4, <1>5
    <3> QED BY ONLY <3>1, TurnIndex
  <2> QED BY <2>1
<1>8. Trail(k_str', L, s, Point(Cons(ExpF(x), Cons(h, r)), Imm(0)))
  BY <1>2, <1>4, <1>5, <1>7, TrailMove
<1>9. /\ g \in Frames /\ g.at \in Readers /\ g.at \notin Returners
      /\ h \in Marks /\ h.at # "Loop" /\ Kept(h) = Range(had) /\ Means(g, Cons(h, r), r, L)
  <2>1. /\ f.pointer \in BOOLEAN /\ f.exp \in Exps /\ left \in Seq(Exps) /\ had \in Seq(Operands)
        /\ g = Index(left, had, f) /\ h = Todo("Index", Indexed(left, had, f))
    BY <1>4, <1>6
  <2> QED BY ONLY <2>1, IndexCall
<1>10. Below(g, t, 1, r) = r /\ \A a \in Kept(h) : Old(a, unused_koopa_count')
  BY <1>2, <1>4, <1>9, BelowNone
<1> QED BY <1>1, <1>2, <1>3, <1>5, <1>6, <1>8, <1>9, <1>10, Asked, Zenon

\* The handler leaves an address in the last register, and indices.
LEMMA Placing ==
  ASSUME TextInv, dump # <<>>, Counting, NEW s, NEW L, NEW r, Under(L, r),
         NEW indices \in Seq(Operands), NEW exp \in Exps,
         \A a \in Range(indices) : Old(a, unused_koopa_count'),
         dump' = <<ElemPtr(indices, exp)>> \o Tail(dump),
         Trail(k_str', L, s, Point(Cons(Todo("Place", Sought(indices, exp)), r),
                                   Reg(unused_koopa_count' - 1)))
  PROVE  TellsNext(s)
<1> PICK f, m, t, n : /\ f = ElemPtr(indices, exp) /\ m = Todo("Place", Sought(indices, exp))
                      /\ t = Tail(dump) /\ n = unused_koopa_count'
  BY Zenon
<1>1. /\ t \in Seq(Frames) /\ r \in Seq(Marks) /\ Sealed(r, n) /\ Stacked(t, r, L, n)
      /\ DOMAIN L \subseteq Numbers(unused_koopa_label_count')
  BY Inside, FrameTail DEF Under, Beneath
<1>2. /\ f \in Frames /\ f.at = "ElemPtr" /\ m \in Marks /\ m.at # "Loop"
      /\ Kept(m) = Range(indices) /\ Means(f, Cons(m, r), r, L)
  BY PlaceCall
<1>3. Below(f, t, 1, r) = r
  BY <1>2, BelowNone DEF Returners
<1>4. \A a \in Kept(m) : Old(a, n)
  BY <1>2
<1>5. Cons(m, r) \in Seq(Marks) /\ Stacked(Cons(f, t), Cons(m, r), L, n)
  BY <1>1, <1>2, <1>3, <1>4, Placed
<1>6. dump' = Cons(f, t)
  BY <1>1, <1>2, FrameCons, Zenon
<1>7. Now(dump', data', n) = Reg(n - 1)
  <2>1. f.at = "ElemPtr" /\ \A a : Now(Cons(f, t), a, n) = Reg(n - 1)
    BY <1>1, <1>2, NowFirst, Zenon
  <2> QED BY <1>6, <2>1
<1>8. Tells(k_str', dump', data', n, unused_koopa_label_count', s)
  <2> PICK c : c = Cons(m, r)
    OBVIOUS
  <2>1. /\ c \in Seq(Marks) /\ Stacked(dump', c, L, n)
        /\ Trail(k_str', L, s, Point(c, Now(dump', data', n)))
    BY <1>5, <1>6, <1>7
  <2> QED BY <1>1, <2>1, Zenon DEF Tells
<1> QED BY <1>8 DEF TellsNext

LEMMA TellAddress ==
  ASSUME TextInv, DumpAddress, Old(data, unused_koopa_count), NEW s, TellsNow(s)
  PROVE  TellsNext(s)
<1>1. dump # <<>>
  BY DEF DumpAddress, Running
<1> PICK f, t, n : f = dump[1] /\ t = Tail(dump) /\ n = unused_koopa_count
  BY Zenon
<1> PICK indices, index, others : /\ indices = Append(f.had, data) /\ index = Head(indices)
                                  /\ others = Tail(indices)
  BY Zenon
<1>2. /\ f.at = "Index" /\ f.left = <<>> /\ dump' = <<ElemPtr(others, f.exp)>> \o t
      /\ k_str' = k_str \o AddressText(f.pointer, index, n)
      /\ unused_koopa_count' = n + AddressRegs(f.pointer)
  BY <1>1, Inside, Zenon DEF DumpAddress, Running, Continue
<1>3. Counting
  BY <1>1, Inside, SMTT(30) DEF DumpAddress, AddressRegs, Counting
<1>4. /\ f.had \in Seq(Operands) /\ f.pointer \in BOOLEAN
      /\ f.exp \in Exps /\ data \in Operands /\ k_str \in Seq(Items) /\ n \in Nat
      /\ Range(indices) = Range(f.had) \cup {data} /\ \A a \in Range(f.had) : Old(a, n)
  BY <1>1, <1>2, <1>3, IndexCalled, Inside, Zenon
<1>5. PICK L, r : /\ Under(L, r) /\ r \in Seq(Marks) /\ Sealed(r, n)
                  /\ Trail(k_str, L, s, Point(Cons(Todo("Index", Indexed(f.left, f.had, f)), r), data))
  BY <1>1, <1>2, <1>3, IndexCalled, Zenon
<1>6. /\ indices \in Seq(Operands) /\ indices # <<>> /\ index \in Operands
      /\ others \in Seq(Operands) /\ Range(others) \subseteq Range(indices)
  <2>1. indices \in Seq(Operands) /\ indices # <<>>
    BY <1>4
  <2> QED BY <2>1, RangeParts
<1>7. \A a \in Range(indices) : Old(a, n)
  BY <1>4
<1> PICK q : q = Point(Cons(Todo("Place", Sought(others, f.exp)), r), Reg(unused_koopa_count' - 1))
  OBVIOUS
<1>8. CASE f.pointer
  <2> PICK p, h, i, j : /\ p = Point(Cons(Todo("Index", Indexed(<<>>, f.had, f)), r), data)
                        /\ h = Point(Cons(Todo("Place", Sought(indices, f.exp)), r), Reg(n))
                        /\ i = Ins("load", Reg(n), <<Var(0)>>)
                        /\ j = Ins("getptr", Reg(n + 1), <<Reg(n), index>>)
    OBVIOUS
  <2>1. Trail(k_str, L, s, p)
    BY <1>2, <1>5
  <2>2. Faithful(i, p, h, L)
    BY <1>4, <1>5, <1>8, FaithfulPointer
  <2>3. n + 1 \in Nat /\ Sealed(r, n + 1) /\ \A a \in Range(indices) : Old(a, n + 1)
    <3>0. Range(indices) \subseteq Operands
      BY <1>6 DEF Range
    <3>1. n + 1 \in Nat /\ n <= n + 1 /\ Range(indices) \subseteq Operands
      BY <1>4, <3>0
    <3>2. \A a \in Range(indices) : Old(a, n + 1)
      BY <1>4, <1>7, <3>1, OldGrows
    <3> QED BY <1>4, <1>5, <3>1, <3>2, SealedGrows
  <2>4. Reg(n) \in Operands /\ Reg(n + 1) \in Operands /\ Var(0) \in Operands
    BY <1>4, OperandType
  <2>5. Faithful(j, h, q, L)
    <3>1. unused_koopa_count' - 1 = n + 1
      BY <1>2, <1>4, <1>8 DEF AddressRegs
    <3>2. Faithful(Ins("getptr", Reg(n + 1), <<Reg(n), Head(indices)>>),
                   Point(Cons(Todo("Place", Sought(indices, f.exp)), r), Reg(n)),
                   Point(Cons(Todo("Place", Sought(Tail(indices), f.exp)), r), Reg(n + 1)), L)
      BY <1>4, <1>5, <1>6, <2>3, <2>4, FaithfulElem, ZenonT(40)
    <3> QED BY <3>1, <3>2
  <2>6. i \in Items /\ j \in Items
    BY <1>6, <2>4, ComputeItems DEF Computes
  <2>7. k_str' = k_str \o <<i, j>>
    BY <1>2, <1>8 DEF AddressText
  <2>8. Trail(k_str', L, s, q)
    BY <1>4, <2>1, <2>2, <2>5, <2>6, <2>7, TrailTwo
  <2>9. \A a \in Range(others) : Old(a, unused_koopa_count')
    <3>0. unused_koopa_count' = n + 2 /\ n \in Nat
      BY <1>2, <1>4, <1>8, Zenon DEF AddressRegs
    <3>1. unused_koopa_count' \in Nat /\ n <= unused_koopa_count'
      BY ONLY <3>0
    <3>2. Range(others) \subseteq Operands
      BY <1>6 DEF Range
    <3> QED BY <1>4, <1>6, <1>7, <3>1, <3>2, OldGrows
  <2> QED BY <1>1, <1>2, <1>3, <1>4, <1>5, <1>6, <2>8, <2>9, Placing, Zenon
<1>9. CASE ~ f.pointer
  <2> PICK p, h, i : /\ p = Point(Cons(Todo("Index", Indexed(<<>>, f.had, f)), r), data)
                     /\ h = Point(Cons(Todo("Place", Sought(indices, f.exp)), r), Var(0))
                     /\ i = Ins("getelemptr", Reg(n), <<Var(0), index>>)
    OBVIOUS
  <2>1. Trail(k_str, L, s, h)
    <3>1. Trail(k_str, L, s, p)
      BY <1>2, <1>5
    <3>2. Turns(p, h)
      BY <1>4, <1>5, <1>9, TurnPlace
    <3> QED BY <1>4, <3>1, <3>2, TrailMove
  <2>2. Reg(n) \in Operands /\ Var(0) \in Operands
    BY <1>4, OperandType
  <2>3. Faithful(i, h, q, L)
    <3>1. unused_koopa_count' - 1 = n
      BY <1>2, <1>4, <1>9 DEF AddressRegs
    <3>2. Faithful(Ins("getelemptr", Reg(n), <<Var(0), Head(indices)>>),
                   Point(Cons(Todo("Place", Sought(indices, f.exp)), r), Var(0)),
                   Point(Cons(Todo("Place", Sought(Tail(indices), f.exp)), r), Reg(n)), L)
      BY <1>4, <1>5, <1>6, <1>7, <2>2, FaithfulElem
    <3> QED BY <3>1, <3>2
  <2>4. i \in Items
    BY <1>6, <2>2, ComputeItems DEF Computes
  <2>5. k_str' = k_str \o <<i>>
    BY <1>2, <1>9 DEF AddressText
  <2>6. Trail(k_str', L, s, q)
    BY <1>4, <2>1, <2>3, <2>4, <2>5, TrailWrite
  <2>7. \A a \in Range(others) : Old(a, unused_koopa_count')
    <3>0. unused_koopa_count' = n + 1 /\ n \in Nat
      BY <1>2, <1>4, <1>9, Zenon DEF AddressRegs
    <3>1. unused_koopa_count' \in Nat /\ n <= unused_koopa_count'
      BY ONLY <3>0
    <3>2. Range(others) \subseteq Operands
      BY <1>6 DEF Range
    <3> QED BY <1>4, <1>6, <1>7, <3>1, <3>2, OldGrows
  <2> QED BY <1>1, <1>2, <1>3, <1>4, <1>5, <1>6, <2>6, <2>7, Placing, Zenon
<1> QED BY <1>8, <1>9

\* What is known when an address is in the last register.
LEMMA PlaceCalled ==
  ASSUME TextInv, dump # <<>>, dump[1].at = "ElemPtr", Counting, NEW s, TellsNow(s)
  PROVE  LET f == dump[1]
             m == Todo("Place", Sought(f.indices, f.exp))
             b == Reg(unused_koopa_count - 1)
         IN  /\ f.indices \in Seq(Operands) /\ f.exp \in Exps /\ k_str \in Seq(Items)
             /\ b \in Operands /\ Old(b, unused_koopa_count)
             /\ \A a \in Range(f.indices) : Old(a, unused_koopa_count)
             /\ \E L, r : /\ Under(L, r) /\ r \in Seq(Marks) /\ Sealed(r, unused_koopa_count)
                          /\ Trail(k_str, L, s, Point(Cons(m, r), b))
<1> PICK f, m, b, n : /\ f = dump[1] /\ m = Todo("Place", Sought(f.indices, f.exp))
                      /\ n = unused_koopa_count /\ b = Reg(n - 1)
  OBVIOUS
<1>1. f.indices \in Seq(Operands) /\ f.exp \in Exps /\ k_str \in Seq(Items)
  BY Inside, FrameFields
<1>2. b \in Operands /\ Old(b, n)
  <2>1. n - 1 \in Nat /\ n \in Nat
    BY Inside, LastHere
  <2>2. b = <<"%", n - 1>>
    BY DEF Reg
  <2> QED BY <2>1, OperandType DEF Old, Reg
<1>3. f.at \notin Returners
  BY DEF Returners
<1>4. PICK L, r : /\ Under(L, r)
                  /\ \E c \in Seq(Marks) :
                       /\ Sealed(c, n)
                       /\ Means(f, c, Below(f, Tail(dump), 1, r), L)
                       /\ Trail(k_str, L, s, Point(c, Now(dump, data, n)))
  BY Called, Zenon
<1>5. PICK c \in Seq(Marks) : /\ Sealed(c, n)
                              /\ Means(f, c, Below(f, Tail(dump), 1, r), L)
                              /\ Trail(k_str, L, s, Point(c, Now(dump, data, n)))
  BY <1>4
<1>6. Below(f, Tail(dump), 1, r) = r /\ r \in Seq(Marks)
  BY <1>3, <1>4, BelowNone DEF Under, Beneath
<1>7. c = Cons(m, r)
  BY <1>5, <1>6 DEF Means
<1>8. Now(dump, data, n) = b
  BY DEF Now
<1>9. m \in Marks /\ Kept(m) = Range(f.indices)
  BY <1>1, PlaceType, PlaceMark
<1>10. (\A a \in Range(f.indices) : Old(a, n)) /\ Sealed(r, n)
  BY <1>5, <1>6, <1>7, <1>9, SealedCons
<1> QED BY <1>1, <1>2, <1>4, <1>5, <1>6, <1>7, <1>8, <1>10

LEMMA TellElemPtr == ASSUME TextInv, DumpElemPtr, NEW s, TellsNow(s) PROVE TellsNext(s)
<1>1. dump # <<>>
  BY DEF DumpElemPtr, Running
<1> PICK f, t, n : f = dump[1] /\ t = Tail(dump) /\ n = unused_koopa_count
  BY Zenon
<1> PICK index, others, b, it : /\ index = Head(f.indices) /\ others = Tail(f.indices)
                                /\ b = Reg(n - 1) /\ it = Ins("getelemptr", Reg(n), <<b, index>>)
  BY Zenon
<1>2. /\ f.at = "ElemPtr" /\ f.indices # <<>> /\ dump' = <<ElemPtr(others, f.exp)>> \o t
      /\ k_str' = Append(k_str, it) /\ unused_koopa_count' = n + 1
  BY <1>1, Inside, Zenon DEF DumpElemPtr, Running, Continue
<1>3. n \in Nat /\ unused_koopa_count' - 1 = n /\ Counting
  <2>1. n \in Nat /\ unused_koopa_var_count \in Nat /\ unused_koopa_label_count \in Nat
    BY <1>1, Inside
  <2>2. /\ unused_koopa_var_count' = unused_koopa_var_count
        /\ unused_koopa_label_count' = unused_koopa_label_count
    BY DEF DumpElemPtr
  <2> QED BY <1>2, <2>1, <2>2 DEF Counting
<1>4. /\ f.indices \in Seq(Operands) /\ f.exp \in Exps /\ k_str \in Seq(Items)
      /\ b \in Operands /\ \A a \in Range(f.indices) : Old(a, n)
  BY <1>1, <1>2, <1>3, PlaceCalled, Zenon
<1>5. PICK L, r : /\ Under(L, r) /\ r \in Seq(Marks) /\ Sealed(r, n)
                  /\ Trail(k_str, L, s, Point(Cons(Todo("Place", Sought(f.indices, f.exp)), r), b))
  BY <1>1, <1>2, <1>3, PlaceCalled, Zenon
<1>6. /\ index \in Operands /\ others \in Seq(Operands) /\ Range(others) \subseteq Range(f.indices)
      /\ Reg(n) \in Operands
  BY <1>2, <1>3, <1>4, RangeParts, OperandType
<1>7. it \in Items /\ k_str' = k_str \o <<it>>
  <2>1. it \in Items
    BY <1>4, <1>6, ComputeItems DEF Computes
  <2> QED BY <1>2, <1>4, <2>1, Added
<1> PICK q : q = Point(Cons(Todo("Place", Sought(others, f.exp)), r), Reg(n))
  OBVIOUS
<1>8. Faithful(it, Point(Cons(Todo("Place", Sought(f.indices, f.exp)), r), b), q, L)
  BY <1>2, <1>3, <1>4, <1>5, FaithfulElem
<1>9. Trail(k_str', L, s, q)
  BY <1>4, <1>5, <1>7, <1>8, TrailWrite
<1>10. \A a \in Range(others) : Old(a, unused_koopa_count')
  <2>1. n + 1 \in Nat /\ n <= n + 1 /\ Range(others) \subseteq Operands
    BY <1>3, <1>6 DEF Range
  <2> QED BY <1>2, <1>3, <1>4, <1>6, <2>1, OldGrows
<1>11. Trail(k_str', L, s, Point(Cons(Todo("Place", Sought(others, f.exp)), r),
                                Reg(unused_koopa_count' - 1)))
  BY <1>3, <1>9
<1> QED BY <1>1, <1>2, <1>3, <1>4, <1>5, <1>6, <1>10, <1>11, Placing, Zenon

LEMMA TellElem == ASSUME TextInv, DumpElem, NEW s, TellsNow(s) PROVE TellsNext(s)
<1>1. dump # <<>>
  BY DEF DumpElem, Running
<1> PICK f, t, n : f = dump[1] /\ t = Tail(dump) /\ n = unused_koopa_count
  BY Zenon
<1> PICK b : b = Reg(n - 1)
  OBVIOUS
<1> PICK g, m : g = [at |-> "Store", dst |-> b] /\ m = Todo("Assign", b)
  BY Zenon
<1>2. /\ f.at = "ElemPtr" /\ f.indices = <<>> /\ dump' = <<ExpF(f.exp), g>> \o t
      /\ k_str' = k_str /\ unused_koopa_count' = n
  BY <1>1, Inside, Zenon DEF DumpElem, Running, Continue, counts
<1>3. Counting
  BY <1>1, Inside, SMTT(30) DEF DumpElem, counts, Counting
<1>4. f.exp \in Exps /\ k_str \in Seq(Items) /\ b \in Operands /\ Old(b, n)
  BY <1>1, <1>2, <1>3, PlaceCalled, Zenon
<1>5. PICK L, r : /\ Under(L, r) /\ r \in Seq(Marks)
                  /\ Trail(k_str, L, s, Point(Cons(Todo("Place", Sought(f.indices, f.exp)), r), b))
  BY <1>1, <1>2, <1>3, PlaceCalled, Zenon
<1>6. Turns(Point(Cons(Todo("Place", Sought(f.indices, f.exp)), r), b),
            Point(Cons(ExpF(f.exp), Cons(m, r)), Imm(0)))
  BY <1>2, <1>4, <1>5, TurnElem
<1>7. Trail(k_str', L, s, Point(Cons(ExpF(f.exp), Cons(m, r)), Imm(0)))
  BY <1>2, <1>4, <1>5, <1>6, TrailMove
<1>8. /\ g \in Frames /\ g.at = "Store" /\ g.dst = b /\ m \in Marks /\ m.at = "Assign" /\ m.x = b
  BY <1>4, FrameType, MarkType
<1>9. /\ g.at \in Readers /\ m.at # "Loop" /\ Means(g, Cons(m, r), r, L) /\ Below(g, t, 1, r) = r
  BY <1>8, BelowNone DEF Readers, Returners, Means
<1>10. \A a \in Kept(m) : Old(a, unused_koopa_count')
  BY <1>2, <1>4, <1>8 DEF Kept
<1> QED BY <1>1, <1>2, <1>3, <1>4, <1>5, <1>7, <1>8, <1>9, <1>10, Asked, Zenon

LEMMA TellRet == ASSUME TextInv, DumpRet, NEW s, TellsNow(s) PROVE TellsNext(s)
<1>1. dump # <<>>
  BY DEF DumpRet, RunningStmt, Running
<1>2. dump' = <<>> \o Tail(dump) /\ k_str \in Seq(Items) /\ data \in Operands
  BY <1>1, Inside DEF DumpRet, Continue
<1>3. Counting
  BY <1>1, Inside, SMTT(30) DEF DumpRet, counts, Counting
<1>4. \/ dump[1].at = "Ret" /\ k_str' = Append(k_str, Ret(<<data>>))
      \/ /\ dump[1].at = "Stmt" /\ dump[1].stmt.tag = 10
         /\ k_str' = Append(k_str, Ret(<<>>))
  BY <1>1, Inside DEF DumpRet, RunningStmt, Running
<1>5. dump[1].at \notin Returners
  BY <1>4 DEF Returners
<1>6. ASSUME NEW L, NEW r, Under(L, r), NEW p, Trail(k_str, L, s, p), NEW it \in Items, it.op = "ret",
             k_str' = Append(k_str, it), \A q : Faithful(it, p, q, L)
      PROVE  TellsNext(s)
  <2>1. k_str' = k_str \o <<it>>
    BY <1>2, <1>6, Added
  <2>2. k_str' \in Seq(Items) /\ Trail(k_str', L, s, Point(r, Imm(0)))
    BY <1>2, <1>6, <2>1, TrailWrite
  <2>3. Below(dump[1], Tail(dump), 1, r) = r
    BY <1>5, BelowNone
  <2> QED BY <1>1, <1>2, <1>3, <1>5, <1>6, <2>2, <2>3, Answered
<1>7. CASE dump[1].at = "Ret"
  <2>1. dump[1].at \in Readers /\ k_str' = Append(k_str, Ret(<<data>>))
    BY <1>4, <1>7 DEF Readers
  <2>2. PICK L, r : /\ Under(L, r)
                    /\ \E c \in Seq(Marks) :
                         /\ Means(dump[1], c, Below(dump[1], Tail(dump), 1, r), L)
                         /\ Trail(k_str, L, s, Point(c, data))
    BY <1>1, <1>3, <2>1, ReaderCalled
  <2>3. Below(dump[1], Tail(dump), 1, r) = r /\ r \in Seq(Marks)
    BY <1>5, <2>2, BelowNone DEF Under, Beneath
  <2>4. Trail(k_str, L, s, Point(Cons(Todo("Return", 0), r), data))
    BY <1>7, <2>2, <2>3 DEF Means
  <2>5. \A q : Faithful(Ret(<<data>>), Point(Cons(Todo("Return", 0), r), data), q, L)
    BY <2>3, FaithfulReturn
  <2>6. Ret(<<data>>) \in Items /\ Ret(<<data>>).op = "ret"
    <3>1. <<data>> \in Seq(Operands)
      BY <1>2
    <3> QED BY <3>1, ControlItems
  <2> QED BY <1>6, <2>1, <2>2, <2>4, <2>5, <2>6
<1>8. CASE dump[1].at = "Stmt"
  <2>1. dump[1].stmt.tag = 10 /\ k_str' = Append(k_str, Ret(<<>>))
    BY <1>4, <1>8
  <2>2. dump[1].stmt \in Stmts
    BY <1>1, <1>3, <1>8, StmtCalled
  <2>3. PICK L, r : /\ Under(L, r) /\ r \in Seq(Marks)
                    /\ Trail(k_str, L, s, Point(Cons(StmtF(dump[1].stmt), r), Imm(0)))
    BY <1>1, <1>3, <1>8, StmtCalled
  <2>4. \A q : Faithful(Ret(<<>>), Point(Cons(StmtF(dump[1].stmt), r), Imm(0)), q, L)
    BY <2>1, <2>2, <2>3, FaithfulReturn, Zenon
  <2>5. Ret(<<>>) \in Items /\ Ret(<<>>).op = "ret"
    <3>1. <<>> \in Seq(Operands)
      OBVIOUS
    <3> QED BY <3>1, ControlItems, Zenon
  <2> QED BY <1>6, <2>1, <2>3, <2>4, <2>5
<1> QED BY <1>4, <1>7, <1>8

LEMMA TellFuncEnd == ASSUME TextInv, DumpFuncEnd, NEW s, TellsNow(s) PROVE TellsNext(s)
<1>1. dump # <<>>
  BY DEF DumpFuncEnd, Running
<1>2. dump[1].at = "FuncEnd" /\ dump' = <<>> \o Tail(dump) /\ k_str \in Seq(Items)
  BY <1>1, Inside DEF DumpFuncEnd, Running, Continue
<1>3. Counting
  BY <1>1, Inside, SMTT(30) DEF DumpFuncEnd, counts, Counting
<1>4. dump[1].at \notin Returners /\ dump[1].at \notin Readers
  BY <1>2 DEF Returners, Readers
<1>5. PICK L, r : /\ Under(L, r)
                  /\ \E c \in Seq(Marks) :
                       /\ Means(dump[1], c, Below(dump[1], Tail(dump), 1, r), L)
                       /\ Trail(k_str, L, s, Point(c, Now(dump, data, unused_koopa_count)))
  BY <1>1, <1>3, Called
<1>6. Below(dump[1], Tail(dump), 1, r) = r /\ Now(dump, data, unused_koopa_count) = Imm(0)
  BY <1>2, <1>4, BelowNone DEF Now
<1>7. r = <<>> /\ Trail(k_str, L, s, Point(<<>>, Imm(0)))
  BY <1>2, <1>5, <1>6 DEF Means
<1> PICK p : p = Point(<<>>, Imm(0))
  OBVIOUS
<1>8. End \in Items /\ Ret(<<>>) \in Items
  <2>1. <<>> \in Seq(Operands)
    OBVIOUS
  <2> QED BY <2>1, ControlItems, Zenon
<1>9. /\ \A q : Faithful(End, q, p, L)
      /\ <<>> \in Seq(Marks) => Faithful(Ret(<<>>), p, p, L)
  BY FaithfulEnds, FaithfulReturn, Zenon
<1>10. <<>> \in Seq(Marks)
  BY <1>5, <1>7 DEF Under, Beneath
<1>11. k_str' \in Seq(Items) /\ Trail(k_str', L, s, p)
  <2>1. CASE last_ins_is_ret
    <3>1. k_str' = k_str \o <<End>>
      BY <2>1 DEF DumpFuncEnd
    <3> QED BY <1>2, <1>7, <1>8, <1>9, <3>1, TrailWrite
  <2>2. CASE ~ last_ins_is_ret
    <3>1. k_str' = k_str \o <<Ret(<<>>), End>>
      BY <2>2 DEF DumpFuncEnd
    <3> QED BY <1>2, <1>7, <1>8, <1>9, <1>10, <3>1, TrailTwo, Zenon
  <2> QED BY <1>1, <2>1, <2>2, Inside
<1> QED BY <1>1, <1>2, <1>3, <1>4, <1>5, <1>6, <1>7, <1>11, Answered

-----------------------------------------------------------------------------
(* Joins and branches *)

\* One more call under the one that the handler makes.
LEMMA OverPush ==
  ASSUME NEW t \in Seq(Frames), NEW L, NEW r, Beneath(t, L, r), NEW f \in Frames,
         NEW c \in Seq(Marks), Sealed(c, unused_koopa_count'), Means(f, c, Below(f, t, 1, r), L),
         f.at = "LoopJoin" => Unwound(c, c),
         f.at # "LoopJoin" => \A l : Unwound(r, l) => Unwound(c, l)
  PROVE  Cons(f, t) \in Seq(Frames) /\ Beneath(Cons(f, t), L, c)
<1>1. /\ Stacked(t, r, L, unused_koopa_count')
      /\ DOMAIN L \subseteq Numbers(unused_koopa_label_count')
  BY DEF Beneath
<1>2. Stacked(Cons(f, t), c, L, unused_koopa_count')
  BY <1>1, Pushed
<1>3. Cons(f, t) \in Seq(Frames)
  BY FrameCons, Zenon
<1> QED BY <1>1, <1>2, <1>3 DEF Beneath

\* A join that goes on with what is left, r, at both labels.
LEMMA JoinPush ==
  ASSUME NEW t \in Seq(Frames), NEW L, NEW r, Beneath(t, L, r), NEW l \in Labels,
         AtLabel(L, l, Point(r, Imm(0)))
  PROVE  /\ Join(l, l) \in Frames /\ Cons(Join(l, l), t) \in Seq(Frames)
         /\ Beneath(Cons(Join(l, l), t), L, r)
<1> PICK j : j = Join(l, l)
  OBVIOUS
<1>1. j \in Frames /\ j.at = "Join" /\ j.to = l /\ j.label = l
  BY FrameType DEF Join
<1>2. r \in Seq(Marks) /\ Sealed(r, unused_koopa_count')
  BY DEF Beneath
<1>3. Below(j, t, 1, r) = r /\ Means(j, r, r, L)
  BY <1>1, BelowNone DEF Returners, Means
<1> QED BY <1>1, <1>2, <1>3, OverPush

LEMMA StmtPush ==
  ASSUME NEW t \in Seq(Frames), NEW L, NEW r, Beneath(t, L, r), NEW x \in Stmts
  PROVE  /\ StmtF(x) \in Frames /\ Cons(StmtF(x), t) \in Seq(Frames)
         /\ Beneath(Cons(StmtF(x), t), L, Cons(StmtF(x), r))
<1> PICK g : g = StmtF(x)
  OBVIOUS
<1>1. g \in Frames /\ g \in Marks /\ g.at = "Stmt"
  BY FrameType, MarkType, Zenon
<1>2. r \in Seq(Marks) /\ Sealed(r, unused_koopa_count') /\ Cons(g, r) \in Seq(Marks)
  BY <1>1, ConsType DEF Beneath
<1>3. Below(g, t, 1, r) = r /\ Means(g, Cons(g, r), r, L) /\ Kept(g) = {}
  BY <1>1, BelowNone, MeansSelf DEF Returners
<1>4. Sealed(Cons(g, r), unused_koopa_count')
  BY <1>1, <1>2, <1>3, SealedCons
<1>5. \A l : Unwound(r, l) => Unwound(Cons(g, r), l)
  BY <1>1, <1>2, UnwoundCons
<1> QED BY <1>1, <1>2, <1>3, <1>4, <1>5, OverPush

\* The handler has a statement dumped, and then goes on with d.
LEMMA Stepped ==
  ASSUME NEW s, NEW L, NEW d \in Seq(Frames), NEW r, Beneath(d, L, r), NEW x \in Stmts,
         dump' = Cons(StmtF(x), d), Trail(k_str', L, s, Point(Cons(StmtF(x), r), Imm(0)))
  PROVE  TellsNext(s)
<1> PICK g : g = StmtF(x)
  OBVIOUS
<1>1. g \in Frames /\ g \in Marks /\ g.at = "Stmt"
  BY FrameType, MarkType, Zenon
<1>2. Below(g, d, 1, r) = r
  BY <1>1, BelowNone DEF Returners
<1>3. dump' = <<g>> \o d
  BY <1>1, FrameCons
<1> QED BY <1>1, <1>2, <1>3, EnteredOver, Zenon

\* A jump or a branch, and the label behind it.
LEMMA TrailOpen ==
  ASSUME NEW k \in Seq(Items), NEW L, NEW s, NEW p, Trail(k, L, s, p), NEW it \in Items,
         \A q : Faithful(it, p, q, L), NEW l \in Labels, NEW r, AtLabel(L, l, r)
  PROVE  k \o <<it, Label(l)>> \in Seq(Items) /\ Trail(k \o <<it, Label(l)>>, L, s, r)
<1>1. Label(l) \in Items /\ Faithful(Label(l), r, r, L)
  BY ControlItems, FaithfulLabel
<1>2. Faithful(it, p, r, L)
  OBVIOUS
<1> QED BY <1>1, <1>2, TrailTwo

LEMMA TellJoin == ASSUME TextInv, DumpJoin, NEW s, TellsNow(s) PROVE TellsNext(s)
<1>1. dump # <<>>
  BY DEF DumpJoin, Running
<1>2. /\ dump[1].at \in {"Join", "LoopJoin"} /\ dump' = <<>> \o Tail(dump) /\ k_str \in Seq(Items)
      /\ last_ins_is_ret \in BOOLEAN
  BY <1>1, Inside DEF DumpJoin, Running, Continue
<1>3. Counting
  BY <1>1, Inside, SMTT(30) DEF DumpJoin, counts, Counting
<1>4. dump[1].at \notin Returners /\ dump[1].at \notin Readers
  BY <1>2 DEF Returners, Readers
<1>5. PICK L, r : /\ Under(L, r)
                  /\ \E c \in Seq(Marks) :
                       /\ Means(dump[1], c, Below(dump[1], Tail(dump), 1, r), L)
                       /\ Trail(k_str, L, s, Point(c, Now(dump, data, unused_koopa_count)))
  BY <1>1, <1>3, Called
<1>6. PICK c \in Seq(Marks) : /\ Means(dump[1], c, Below(dump[1], Tail(dump), 1, r), L)
                              /\ Trail(k_str, L, s, Point(c, Now(dump, data, unused_koopa_count)))
  BY <1>5
<1>7. Below(dump[1], Tail(dump), 1, r) = r /\ Now(dump, data, unused_koopa_count) = Imm(0)
  BY <1>2, <1>4, BelowNone DEF Now
<1> PICK to, label : to = dump[1].to /\ label = dump[1].label
  BY Zenon
<1>8. to \in Labels /\ label \in Labels
  BY <1>1, <1>2, Inside, FrameFields
<1>9. AtLabel(L, to, Point(c, Imm(0))) /\ AtLabel(L, label, Point(r, Imm(0)))
  <2>1. Means(dump[1], c, r, L)
    BY <1>6, <1>7
  <2>2. CASE dump[1].at = "Join"
    BY <2>1, <2>2 DEF Means
  <2>3. CASE dump[1].at = "LoopJoin"
    BY <2>1, <2>3 DEF Means
  <2> QED BY <1>2, <2>2, <2>3
<1>10. k_str' = k_str \o JoinText(last_ins_is_ret, to, label)
  BY <1>1, Inside, Zenon DEF DumpJoin
<1>11. last_ins_is_ret => k_str[Len(k_str)].op = "ret"
  BY <1>1, LastIsReturn
<1>12. Trail(k_str', L, s, Point(r, Imm(0)))
  BY <1>2, <1>6, <1>7, <1>8, <1>9, <1>10, <1>11, TrailJoin
<1>13. k_str' \in Seq(Items)
  <2>1. JoinText(last_ins_is_ret, to, label) \in Seq(Items)
    BY <1>2, <1>8, JoinTextType
  <2> QED BY <1>2, <1>10, <2>1
<1> QED BY <1>1, <1>2, <1>3, <1>4, <1>5, <1>7, <1>12, <1>13, Answered

\* What the condition of an if has been dumped for.
LEMMA BranchCalled ==
  ASSUME TextInv, dump # <<>>, dump[1].at = "Branch", Counting, NEW s, TellsNow(s)
  PROVE  /\ dump[1].stmt \in Stmts
         /\ \E L, r : /\ Under(L, r) /\ DOMAIN L \subseteq Numbers(unused_koopa_label_count)
                      /\ r \in Seq(Marks)
                      /\ Trail(k_str, L, s, Point(Cons(Todo("If", dump[1].stmt), r), data))
<1>1. dump[1].at \in Readers /\ dump[1].at \notin Returners
  BY DEF Readers, Returners
<1>2. PICK L, r : /\ Under(L, r) /\ DOMAIN L \subseteq Numbers(unused_koopa_label_count)
                  /\ \E c \in Seq(Marks) :
                       /\ Means(dump[1], c, Below(dump[1], Tail(dump), 1, r), L)
                       /\ Trail(k_str, L, s, Point(c, data))
  BY <1>1, ReaderCalled
<1>3. Below(dump[1], Tail(dump), 1, r) = r /\ r \in Seq(Marks)
  BY <1>1, <1>2, BelowNone DEF Under, Beneath
<1>4. Trail(k_str, L, s, Point(Cons(Todo("If", dump[1].stmt), r), data))
  BY <1>2, <1>3 DEF Means
<1>5. dump[1].stmt \in Stmts
  BY Inside, FrameFields
<1> QED BY <1>2, <1>3, <1>4, <1>5

LEMMA TellThen == ASSUME TextInv, DumpThen, NEW s, TellsNow(s) PROVE TellsNext(s)
<1>1. dump # <<>>
  BY DEF DumpThen, Running
<1> PICK x, n, t : x = dump[1].stmt /\ n = unused_koopa_label_count /\ t = Tail(dump)
  BY Zenon
<1> PICK then, end : then = Lab("then", n) /\ end = Lab("end", n + 1)
  OBVIOUS
<1>2. /\ dump[1].at = "Branch" /\ x.tag = 4
      /\ dump' = <<StmtF(x.stmt), Join(end, end)>> \o t
      /\ k_str' = k_str \o <<Br(data, then, end), Label(then)>>
  BY <1>1, Inside, Zenon DEF DumpThen, Running, Continue
<1>3. n \in Nat /\ unused_koopa_label_count' = n + 2
  BY <1>1, Inside DEF DumpThen
<1>4. Counting
  BY <1>1, <1>3, Inside, SMTT(30) DEF DumpThen, Counting
<1>5. x \in Stmts
  BY <1>1, <1>2, <1>4, BranchCalled
<1>6. PICK L, r : /\ Under(L, r) /\ DOMAIN L \subseteq Numbers(n) /\ r \in Seq(Marks)
                  /\ Trail(k_str, L, s, Point(Cons(Todo("If", x), r), data))
  BY <1>1, <1>2, <1>4, BranchCalled
<1>7. /\ "then" \in LabelKinds \ {"entry"} /\ "end" \in LabelKinds \ {"entry"}
      /\ then \in Labels /\ end \in Labels
  <2>1. "then" \in LabelKinds \ {"entry"} /\ "end" \in LabelKinds \ {"entry"}
    BY DEF LabelKinds
  <2> QED BY <1>3, <2>1, LabelType
<1>8. PICK M : /\ Extends(L, M) /\ AtLabel(M, then, Point(Cons(StmtF(x.stmt), r), Imm(0)))
               /\ AtLabel(M, end, Point(r, Imm(0))) /\ DOMAIN M \subseteq Numbers(n + 2)
  BY <1>3, <1>6, <1>7, TwoNumbers, Zenon
<1>9. x.stmt \in Stmts /\ \A q : Faithful(Br(data, then, end), Point(Cons(Todo("If", x), r), data), q, M)
  BY <1>2, <1>5, <1>6, <1>8, FaithfulIf, Zenon
<1>10. /\ data \in Operands /\ k_str \in Seq(Items) /\ Br(data, then, end) \in Items
       /\ t \in Seq(Frames)
  BY <1>1, <1>7, Inside, ControlItems, FrameTail
<1>11. Trail(k_str, M, s, Point(Cons(Todo("If", x), r), data))
  BY <1>6, <1>8, TrailGrows
<1>12. Trail(k_str', M, s, Point(Cons(StmtF(x.stmt), r), Imm(0)))
  BY <1>2, <1>7, <1>8, <1>9, <1>10, <1>11, TrailOpen, Zenon
<1>13. Beneath(t, M, r)
  BY <1>1, <1>3, <1>4, <1>6, <1>8, UnderGrows DEF Under
<1> PICK j : j = Join(end, end)
  OBVIOUS
<1>14. j \in Frames /\ Cons(j, t) \in Seq(Frames) /\ Beneath(Cons(j, t), M, r)
  BY <1>7, <1>8, <1>10, <1>13, JoinPush, ZenonT(30)
<1>15. dump' = Cons(StmtF(x.stmt), Cons(j, t))
  <2> PICK g : g = StmtF(x.stmt)
    OBVIOUS
  <2>1. g \in Frames /\ j \in Frames /\ t \in Seq(Frames)
    BY <1>9, <1>10, <1>14, FrameType, Zenon
  <2>2. <<g, j>> \o t = Cons(g, Cons(j, t))
    BY ONLY <2>1, TwoFrames, ZenonT(30)
  <2>3. dump' = <<g, j>> \o t
    BY <1>2
  <2> QED BY <2>2, <2>3
<1> QED BY <1>9, <1>12, <1>14, <1>15, Stepped

\* Four calls in front of others.
LEMMA FourFrames ==
  ASSUME NEW a \in Frames, NEW b \in Frames, NEW c \in Frames, NEW e \in Frames, NEW d \in Seq(Frames)
  PROVE  <<a, b, c, e>> \o d = Cons(a, Cons(b, Cons(c, Cons(e, d))))
<1> PICK S : S = Frames
  OBVIOUS
<1>1. a \in S /\ b \in S /\ c \in S /\ e \in S /\ d \in Seq(S)
  OBVIOUS
<1>2. <<a, b>> \in Seq(S) /\ <<c>> \in Seq(S) /\ <<e>> \in Seq(S) /\ <<a, b, c>> \in Seq(S)
  BY ONLY <1>1
<1>3. <<a, b, c>> \o <<e>> = <<a, b, c, e>> /\ <<a, b>> \o <<c>> = <<a, b, c>>
  <2>1. <<a, b, c>> \o <<e>> = <<a, b, c, e>>
    BY ONLY <1>1, FourJoined
  <2>2. <<a, b>> \o <<c>> = <<a, b, c>>
    BY ONLY <1>1, ThreeJoined
  <2> QED BY <2>1, <2>2
<1>4. <<e>> \o d \in Seq(S)
  BY ONLY <1>1, <1>2, ConcatProperties
<1>5. (<<a, b, c>> \o <<e>>) \o d = <<a, b, c>> \o (<<e>> \o d)
  BY ONLY <1>1, <1>2, ConcatAssociative
<1>6. (<<a, b>> \o <<c>>) \o (<<e>> \o d) = <<a, b>> \o (<<c>> \o (<<e>> \o d))
  BY ONLY <1>1, <1>2, <1>4, ConcatAssociative
<1>7. Cons(e, d) = <<e>> \o d /\ Cons(c, Cons(e, d)) = <<c>> \o (<<e>> \o d)
  BY DEF Cons
<1>8. Cons(e, d) \in Seq(Frames)
  BY FrameCons, Zenon
<1>9. Cons(c, Cons(e, d)) \in Seq(Frames)
  BY <1>8, FrameCons, Zenon
<1>10. <<a, b>> \o Cons(c, Cons(e, d)) = Cons(a, Cons(b, Cons(c, Cons(e, d))))
  BY <1>9, TwoFrames
<1> QED BY <1>3, <1>5, <1>6, <1>7, <1>10, Zenon

LEMMA TellThenElse == ASSUME TextInv, DumpThenElse, NEW s, TellsNow(s) PROVE TellsNext(s)
<1>1. dump # <<>>
  BY DEF DumpThenElse, Running
<1> PICK x, n, t : x = dump[1].stmt /\ n = unused_koopa_label_count /\ t = Tail(dump)
  BY Zenon
<1> PICK then, else, end : then = Lab("then", n) /\ else = Lab("else", n + 1) /\ end = Lab("end", n + 2)
  OBVIOUS
<1> PICK g, j, h, i : /\ g = StmtF(x.stmt_if) /\ j = Join(end, else)
                      /\ h = StmtF(x.stmt_else) /\ i = Join(end, end)
  OBVIOUS
<1>2. /\ dump[1].at = "Branch" /\ x.tag = 5 /\ dump' = <<g, j, h, i>> \o t
      /\ k_str' = k_str \o <<Br(data, then, else), Label(then)>>
  BY <1>1, Inside, Zenon DEF DumpThenElse, Running, Continue
<1>3. n \in Nat /\ unused_koopa_label_count' = n + 3
  BY <1>1, Inside DEF DumpThenElse
<1>4. Counting
  BY <1>1, <1>3, Inside, SMTT(30) DEF DumpThenElse, Counting
<1>5. x \in Stmts
  BY <1>1, <1>2, <1>4, BranchCalled
<1>6. PICK L, r : /\ Under(L, r) /\ DOMAIN L \subseteq Numbers(n) /\ r \in Seq(Marks)
                  /\ Trail(k_str, L, s, Point(Cons(Todo("If", x), r), data))
  BY <1>1, <1>2, <1>4, BranchCalled
<1>7. {"then", "else", "end"} \subseteq LabelKinds \ {"entry"}
  BY DEF LabelKinds
<1>8. then \in Labels /\ else \in Labels /\ end \in Labels
  BY <1>3, <1>7, LabelType
<1>9. PICK M : /\ Extends(L, M) /\ AtLabel(M, then, Point(Cons(g, r), Imm(0)))
               /\ AtLabel(M, else, Point(Cons(h, r), Imm(0)))
               /\ AtLabel(M, end, Point(r, Imm(0))) /\ DOMAIN M \subseteq Numbers(n + 3)
  <2>1. /\ "then" \in LabelKinds \ {"entry"} /\ "else" \in LabelKinds \ {"entry"}
        /\ "end" \in LabelKinds \ {"entry"}
    BY <1>7
  <2>2. n \in Nat /\ DOMAIN L \subseteq Numbers(n)
    BY <1>3, <1>6
  <2>3. \E M : /\ Extends(L, M) /\ AtLabel(M, Lab("then", n), Point(Cons(g, r), Imm(0)))
               /\ AtLabel(M, Lab("else", n + 1), Point(Cons(h, r), Imm(0)))
               /\ AtLabel(M, Lab("end", n + 2), Point(r, Imm(0))) /\ DOMAIN M \subseteq Numbers(n + 3)
    BY ONLY <2>1, <2>2, ThreeNumbers, Zenon
  <2> QED BY <2>3
<1>10. /\ x.stmt_if \in Stmts /\ x.stmt_else \in Stmts
       /\ \A q : Faithful(Br(data, then, else), Point(Cons(Todo("If", x), r), data), q, M)
  <2>1. /\ AtLabel(M, then, Point(Cons(StmtF(x.stmt_if), r), Imm(0)))
        /\ AtLabel(M, else, Point(Cons(StmtF(x.stmt_else), r), Imm(0)))
    BY <1>9
  <2> QED BY <1>2, <1>5, <1>6, <2>1, FaithfulIf, Zenon
<1>11. /\ data \in Operands /\ k_str \in Seq(Items) /\ Br(data, then, else) \in Items
       /\ t \in Seq(Frames)
  BY <1>1, <1>8, Inside, ControlItems, FrameTail
<1>12. Trail(k_str, M, s, Point(Cons(Todo("If", x), r), data))
  BY <1>6, <1>9, TrailGrows
<1>13. Trail(k_str', M, s, Point(Cons(g, r), Imm(0)))
  BY <1>2, <1>8, <1>9, <1>10, <1>11, <1>12, TrailOpen, Zenon
<1>14. Beneath(t, M, r)
  BY <1>1, <1>3, <1>4, <1>6, <1>9, UnderGrows DEF Under
<1> PICK d : d = Cons(i, t)
  OBVIOUS
<1>15. i \in Frames /\ d \in Seq(Frames) /\ Beneath(d, M, r)
  BY <1>8, <1>9, <1>11, <1>14, JoinPush, Zenon
<1> PICK e, q : e = Cons(h, d) /\ q = Cons(h, r)
  OBVIOUS
<1>16. h \in Frames /\ e \in Seq(Frames) /\ Beneath(e, M, q) /\ h \in Marks /\ h.at = "Stmt"
  BY <1>10, <1>15, StmtPush, MarkType, Zenon
<1>17. Cons(j, e) \in Seq(Frames) /\ j \in Frames /\ Beneath(Cons(j, e), M, r)
  <2>1. j \in Frames /\ j.at = "Join" /\ j.to = end /\ j.label = else
    BY <1>8, FrameType DEF Join
  <2>2. r \in Seq(Marks) /\ Sealed(r, unused_koopa_count')
    BY <1>14 DEF Beneath
  <2>3. Below(j, e, 1, q) = q
    BY <2>1, BelowNone, SMTT(30) DEF Returners
  <2>4. Means(j, r, q, M)
    BY <1>9, <2>1 DEF Means
  <2>5. \A l : Unwound(q, l) => Unwound(r, l)
    BY <1>6, <1>16, UnwoundCons
  <2> QED BY <1>16, <2>1, <2>2, <2>3, <2>4, <2>5, OverPush
<1>18. dump' = Cons(g, Cons(j, e))
  <2>1. g \in Frames
    BY <1>10, FrameType, Zenon
  <2>2. g \in Frames /\ j \in Frames /\ h \in Frames /\ i \in Frames /\ t \in Seq(Frames)
    BY <1>11, <1>15, <1>16, <1>17, <2>1
  <2>3. <<g, j, h, i>> \o t = Cons(g, Cons(j, Cons(h, Cons(i, t))))
    BY ONLY <2>2, FourFrames
  <2> QED BY <1>2, <2>3, Zenon
<1> QED BY <1>10, <1>13, <1>17, <1>18, Stepped

-----------------------------------------------------------------------------
(* Loops *)

LEMMA TellWhile == ASSUME TextInv, DumpWhile, NEW s, TellsNow(s) PROVE TellsNext(s)
<1>1. dump # <<>>
  BY DEF DumpWhile, RunningStmt, Running
<1> PICK x, n, t : x = dump[1].stmt /\ n = unused_koopa_label_count /\ t = Tail(dump)
  BY Zenon
<1> PICK while, true, false :
      while = Lab("while", n) /\ true = Lab("while_true", n + 1) /\ false = Lab("while_false", n + 2)
  OBVIOUS
<1> PICK f, m : f = [at |-> "While", stmt |-> x.stmt, n |-> n] /\ m = Todo("Test", x)
  BY Zenon
<1>2. /\ dump[1].at = "Stmt" /\ x.tag = 6 /\ dump' = <<ExpF(x.exp), f>> \o t
      /\ k_str' = k_str \o JoinText(last_ins_is_ret, while, while)
  BY <1>1, Inside, Zenon DEF DumpWhile, RunningStmt, Running, Continue
<1>3. n \in Nat /\ unused_koopa_label_count' = n + 3
  BY <1>1, Inside DEF DumpWhile
<1>4. Counting
  BY <1>1, <1>3, Inside, SMTT(30) DEF DumpWhile, Counting
<1>5. x \in Stmts
  BY <1>1, <1>2, <1>4, StmtCalled
<1>6. PICK L, r : /\ Under(L, r) /\ DOMAIN L \subseteq Numbers(n) /\ r \in Seq(Marks)
                  /\ Trail(k_str, L, s, Point(Cons(StmtF(x), r), Imm(0)))
  BY <1>1, <1>2, <1>4, StmtCalled
<1> PICK p, q, u : /\ p = Point(Cons(Todo("Loop", x), r), Imm(0))
                   /\ q = Point(Cons(StmtF(x.stmt), Cons(Todo("Loop", x), r)), Imm(0))
                   /\ u = Point(r, Imm(0))
  OBVIOUS
<1>7. PICK M : /\ Extends(L, M) /\ AtLabel(M, while, p) /\ AtLabel(M, true, q)
               /\ AtLabel(M, false, u) /\ DOMAIN M \subseteq Numbers(n + 3)
  <2>1. /\ "while" \in LabelKinds \ {"entry"} /\ "while_true" \in LabelKinds \ {"entry"}
        /\ "while_false" \in LabelKinds \ {"entry"}
    BY Zenon DEF LabelKinds
  <2>2. n \in Nat /\ DOMAIN L \subseteq Numbers(n)
    BY <1>3, <1>6
  <2>3. \E M : /\ Extends(L, M) /\ AtLabel(M, Lab("while", n), p)
               /\ AtLabel(M, Lab("while_true", n + 1), q)
               /\ AtLabel(M, Lab("while_false", n + 2), u) /\ DOMAIN M \subseteq Numbers(n + 3)
    BY ONLY <2>1, <2>2, ThreeNumbers, Zenon
  <2> QED BY <2>3
<1>8. /\ k_str \in Seq(Items) /\ last_ins_is_ret \in BOOLEAN /\ while \in Labels
      /\ last_ins_is_ret => k_str[Len(k_str)].op = "ret"
  <2>1. "while" \in LabelKinds
    BY Zenon DEF LabelKinds
  <2> QED BY <1>1, <1>3, <2>1, Inside, LastIsReturn, LabelType
<1>9. Trail(k_str, M, s, p)
  <2>1. Trail(k_str, L, s, p)
    BY <1>2, <1>5, <1>6, <1>8, TurnNested, TrailMove
  <2> QED BY <1>7, <2>1, TrailGrows
<1>10. k_str' \in Seq(Items) /\ Trail(k_str', M, s, p)
  <2>1. JoinText(last_ins_is_ret, while, while) \in Seq(Items)
    BY <1>8, JoinTextType
  <2>2. k_str' \in Seq(Items)
    BY <1>2, <1>8, <2>1
  <2>3. Trail(k_str', M, s, p)
    BY <1>2, <1>7, <1>8, <1>9, TrailJoin
  <2> QED BY <2>2, <2>3
<1>11. /\ x.exp \in Exps /\ x.stmt \in Stmts
       /\ Turns(p, Point(Cons(ExpF(x.exp), Cons(m, r)), Imm(0)))
  BY <1>2, <1>5, <1>6, TurnLoop
<1>12. Trail(k_str', M, s, Point(Cons(ExpF(x.exp), Cons(m, r)), Imm(0)))
  BY <1>10, <1>11, TrailMove
<1>13. /\ f \in Frames /\ f.at = "While" /\ f.stmt = x.stmt /\ f.n = n
       /\ m \in Marks /\ m.at = "Test"
  BY <1>3, <1>5, <1>11, FrameType, MarkType
<1>14. /\ f.at \in Readers /\ m.at # "Loop" /\ Below(f, t, 1, r) = r
       /\ Kept(m) = {}
  <2>1. f.at \in Readers /\ f.at \notin Returners
    BY <1>13, Zenon DEF Readers, Returners
  <2>2. Kept(m) = {} /\ m.at # "Loop"
    BY <1>13, Zenon DEF Kept
  <2> QED BY <2>1, <2>2, BelowNone
<1>15. Means(f, Cons(m, r), r, M)
  <2>1. \E w \in Stmts :
           /\ w.tag = 6 /\ f.stmt = w.stmt /\ Cons(m, r) = Cons(Todo("Test", w), r)
           /\ AtLabel(M, Lab("while", f.n), Point(Cons(Todo("Loop", w), r), Imm(0)))
           /\ AtLabel(M, Lab("while_true", f.n + 1),
                      Point(Cons(StmtF(w.stmt), Cons(Todo("Loop", w), r)), Imm(0)))
           /\ AtLabel(M, Lab("while_false", f.n + 2), Point(r, Imm(0)))
    BY <1>2, <1>5, <1>7, <1>13
  <2> QED BY <1>13, <2>1 DEF Means
<1>16. Under(M, r)
  BY <1>1, <1>3, <1>4, <1>6, <1>7, UnderGrows
<1>17. \A a \in Kept(m) : Old(a, unused_koopa_count')
  BY <1>14
<1> QED BY <1>1, <1>2, <1>4, <1>11, <1>12, <1>13, <1>14, <1>15, <1>16, <1>17, Asked, Zenon

LEMMA TellWhileBody == ASSUME TextInv, DumpWhileBody, NEW s, TellsNow(s) PROVE TellsNext(s)
<1>1. dump # <<>>
  BY DEF DumpWhileBody, Running
<1> PICK n, t, y : n = dump[1].n /\ t = Tail(dump) /\ y = dump[1].stmt
  BY Zenon
<1> PICK while, true, false :
      while = Lab("while", n) /\ true = Lab("while_true", n + 1) /\ false = Lab("while_false", n + 2)
  OBVIOUS
<1>2. /\ dump[1].at = "While"
      /\ data = Imm(0) => dump' = <<>> \o t /\ k_str' = k_str \o <<Jump(false), Label(false)>>
      /\ data # Imm(0) => /\ dump' = <<StmtF(y), LoopJoin(while, false)>> \o t
                          /\ k_str' = k_str \o <<Br(data, true, false), Label(true)>>
  BY <1>1, Inside, Zenon DEF DumpWhileBody, Running, Continue
<1>3. Counting
  BY <1>1, Inside, SMTT(30) DEF DumpWhileBody, counts, Counting
<1>4. dump[1].at \in Readers /\ dump[1].at \notin Returners
  BY <1>2, Zenon DEF Readers, Returners
<1>5. PICK L, r : /\ Under(L, r)
                  /\ \E c \in Seq(Marks) :
                       /\ Means(dump[1], c, Below(dump[1], t, 1, r), L)
                       /\ Trail(k_str, L, s, Point(c, data))
  BY <1>1, <1>3, <1>4, ReaderCalled
<1>6. Below(dump[1], t, 1, r) = r /\ r \in Seq(Marks)
  BY <1>4, <1>5, BelowNone DEF Under, Beneath
<1>7. PICK w \in Stmts :
        /\ w.tag = 6 /\ y = w.stmt /\ Trail(k_str, L, s, Point(Cons(Todo("Test", w), r), data))
        /\ AtLabel(L, while, Point(Cons(Todo("Loop", w), r), Imm(0)))
        /\ AtLabel(L, true, Point(Cons(StmtF(w.stmt), Cons(Todo("Loop", w), r)), Imm(0)))
        /\ AtLabel(L, false, Point(r, Imm(0)))
  <2>1. PICK c \in Seq(Marks) : Means(dump[1], c, r, L) /\ Trail(k_str, L, s, Point(c, data))
    BY <1>5, <1>6
  <2>2. \E w \in Stmts :
          /\ w.tag = 6 /\ dump[1].stmt = w.stmt /\ c = Cons(Todo("Test", w), r)
          /\ AtLabel(L, Lab("while", dump[1].n), Point(Cons(Todo("Loop", w), r), Imm(0)))
          /\ AtLabel(L, Lab("while_true", dump[1].n + 1),
                     Point(Cons(StmtF(w.stmt), Cons(Todo("Loop", w), r)), Imm(0)))
          /\ AtLabel(L, Lab("while_false", dump[1].n + 2), Point(r, Imm(0)))
    BY <1>2, <2>1 DEF Means
  <2> QED BY <2>1, <2>2
<1>8. /\ k_str \in Seq(Items) /\ data \in Operands /\ t \in Seq(Frames) /\ n \in Nat
      /\ y \in Stmts
  BY <1>1, <1>2, Inside, FrameTail, FrameFields
<1>9. while \in Labels /\ true \in Labels /\ false \in Labels
  <2>1. "while" \in LabelKinds /\ "while_true" \in LabelKinds /\ "while_false" \in LabelKinds
    BY Zenon DEF LabelKinds
  <2>2. n \in Nat /\ n + 1 \in Nat /\ n + 2 \in Nat
    BY <1>8
  <2> QED BY <2>1, <2>2, LabelType
<1>10. Jump(false) \in Items /\ Br(data, true, false) \in Items
  BY <1>8, <1>9, ControlItems
<1>11. CASE data = Imm(0)
  <2>1. \A q : Faithful(Jump(false), Point(Cons(Todo("Test", w), r), data), q, L)
    BY <1>6, <1>7, <1>11, FaithfulTest, Zenon
  <2>2. k_str' \in Seq(Items) /\ Trail(k_str', L, s, Point(r, Imm(0)))
    <3> PICK p, q, it : /\ p = Point(Cons(Todo("Test", w), r), data)
                        /\ q = Point(r, Imm(0)) /\ it = Jump(false)
      OBVIOUS
    <3>1. /\ k_str \in Seq(Items) /\ Trail(k_str, L, s, p) /\ it \in Items
          /\ false \in Labels /\ AtLabel(L, false, q) /\ \A a : Faithful(it, p, a, L)
      BY <1>7, <1>8, <1>9, <1>10, <2>1
    <3>2. k_str' = k_str \o <<it, Label(false)>>
      BY <1>2, <1>11
    <3>3. /\ k_str \o <<it, Label(false)>> \in Seq(Items)
          /\ Trail(k_str \o <<it, Label(false)>>, L, s, q)
      BY ONLY <3>1, TrailOpen
    <3> QED BY <3>2, <3>3
  <2>3. dump' = <<>> \o Tail(dump)
    BY <1>2, <1>11
  <2> QED BY <1>1, <1>3, <1>4, <1>5, <1>6, <2>2, <2>3, Answered
<1>12. CASE data # Imm(0)
  <2> PICK j, c : j = LoopJoin(while, false) /\ c = Cons(Todo("Loop", w), r)
    OBVIOUS
  <2>1. \A q : Faithful(Br(data, true, false), Point(Cons(Todo("Test", w), r), data), q, L)
    BY <1>6, <1>7, FaithfulTest
  <2>2. Trail(k_str', L, s, Point(Cons(StmtF(y), c), Imm(0)))
    <3> PICK p, q, it : /\ p = Point(Cons(Todo("Test", w), r), data)
                        /\ q = Point(Cons(StmtF(y), c), Imm(0)) /\ it = Br(data, true, false)
      OBVIOUS
    <3>1. /\ k_str \in Seq(Items) /\ Trail(k_str, L, s, p) /\ it \in Items
          /\ true \in Labels /\ AtLabel(L, true, q) /\ \A a : Faithful(it, p, a, L)
      BY <1>7, <1>8, <1>9, <1>10, <2>1
    <3>2. k_str' = k_str \o <<it, Label(true)>>
      BY <1>2, <1>12
    <3>3. Trail(k_str \o <<it, Label(true)>>, L, s, q)
      BY ONLY <3>1, TrailOpen
    <3> QED BY <3>2, <3>3
  <2>3. j \in Frames /\ j.at = "LoopJoin" /\ j.to = while /\ j.label = false
    BY <1>9, FrameType DEF LoopJoin
  <2>4. Todo("Loop", w) \in Marks /\ Todo("Loop", w).at = "Loop"
    BY <1>7, MarkType
  <2>5. c \in Seq(Marks) /\ Unwound(c, c)
    BY <1>6, <2>4, ConsType, UnwoundCons
  <2>6. Sealed(c, unused_koopa_count')
    <3>1. Kept(Todo("Loop", w)) = {}
      BY <2>4, Zenon DEF Kept
    <3>2. Sealed(r, unused_koopa_count')
      BY <1>5, Zenon DEF Under, Beneath
    <3> QED BY <1>6, <2>4, <3>1, <3>2, SealedCons
  <2>7. Below(j, t, 1, r) = r
    BY <2>3, BelowNone DEF Returners
  <2>8. Means(j, c, r, L)
    <3>1. \E v \in Stmts : /\ c = Cons(Todo("Loop", v), r)
                           /\ AtLabel(L, j.to, Point(c, Imm(0))) /\ AtLabel(L, j.label, Point(r, Imm(0)))
      BY <1>7, <2>3
    <3> QED BY <2>3, <3>1, Zenon DEF Means
  <2>9. Beneath(t, L, r)
    BY <1>5 DEF Under
  <2>10. Cons(j, t) \in Seq(Frames) /\ Beneath(Cons(j, t), L, c)
    BY <1>8, <2>3, <2>5, <2>6, <2>7, <2>8, <2>9, OverPush, ZenonT(30)
  <2>11. dump' = Cons(StmtF(y), Cons(j, t))
    <3> PICK g : g = StmtF(y)
      OBVIOUS
    <3>1. g \in Frames /\ j \in Frames /\ t \in Seq(Frames)
      BY <1>8, <2>3, FrameType, Zenon
    <3>2. <<g, j>> \o t = Cons(g, Cons(j, t))
      BY ONLY <3>1, TwoFrames, ZenonT(30)
    <3>3. dump' = <<g, j>> \o t
      BY <1>2, <1>12
    <3> QED BY <3>2, <3>3
  <2> QED BY <1>8, <2>2, <2>10, <2>11, Stepped
<1> QED BY <1>11, <1>12

\* break and continue go to what is left behind, or from, the innermost loop on.
LEMMA TurnExit ==
  ASSUME NEW x \in Stmts, NEW r \in Seq(Marks), NEW w \in Stmts, NEW u \in Seq(Marks),
         Unwound(r, Cons(Todo("Loop", w), u))
  PROVE  /\ x.tag = 7 => Turns(Point(Cons(StmtF(x), r), Imm(0)), Point(u, Imm(0)))
         /\ x.tag = 8 => Turns(Point(Cons(StmtF(x), r), Imm(0)),
                               Point(Cons(Todo("Loop", w), u), Imm(0)))
<1> PICK g, h : g = StmtF(x) /\ h = Todo("Loop", w)
  OBVIOUS
<1>1. /\ g \in Marks /\ g.at = "Stmt" /\ g.stmt = x /\ h \in Marks /\ h.at = "Loop"
      /\ Cons(g, r) \in Seq(Marks) /\ Cons(h, u) \in Seq(Marks)
  BY MarkType, ConsType
<1>2. Unwound(Cons(g, r), Cons(h, u))
  BY <1>1, UnwoundCons
<1>3. ASSUME x.tag \in {7, 8}, NEW e, Applies(Point(Cons(g, r), Imm(0)), e)
      PROVE  LET c == IF x.tag = 7 THEN u ELSE Cons(h, u)
             IN  /\ Applies(Point(c, Imm(0)), e)
                 /\ Reaches(State(Point(Cons(g, r), Imm(0)), e), State(Point(c, Imm(0)), e))
  <2> PICK c, s : c = (IF x.tag = 7 THEN u ELSE Cons(h, u)) /\ s = Stack(Cons(g, r), e)
    OBVIOUS
  <2>1. StackHolds(Cons(g, r), e)
    BY <1>3, PointState
  <2>2. FromLoop(s) = Stack(Cons(h, u), e) /\ StackHolds(Cons(h, u), e)
    BY <1>1, <1>2, <2>1, FromLoopIs
  <2>3. Tail(Stack(Cons(h, u), e)) = Stack(u, e) /\ StackHolds(u, e)
    BY <1>1, <2>2, StackCons, HoldsCons, SMTT(30)
  <2>4. s # <<>> /\ Head(s) = g
    <3>1. Concrete(g, e) = g
      BY <1>1, ConcreteAt, Zenon
    <3>2. s # <<>> /\ Head(s) = Concrete(g, e)
      BY <1>1, StackCons
    <3> QED BY <3>1, <3>2
  <2>5. After(s, 0) = <<Stack(c, e), 0>>
    <3>1. Breaks(Head(s))
      BY <1>1, <1>3, <2>4 DEF Breaks
    <3>2. After(s, 0) = <<IF g.stmt.tag = 7 THEN Tail(FromLoop(s)) ELSE FromLoop(s), 0>>
      BY <2>4, <3>1 DEF After
    <3> QED BY <1>1, <2>2, <2>3, <3>2, Zenon
  <2>6. ~ AtEvent(s)
    BY <1>1, <1>3, <2>4 DEF AtEvent
  <2>7. Reaches(<<s, 0>>, <<Stack(c, e), 0>>)
    <3> PICK a : a = <<s, 0>>
      BY Zenon
    <3>1. a[1] = s /\ a[2] = 0
      OBVIOUS
    <3>2. Reaches(a, After(a[1], a[2]))
      BY <2>6, <3>1, ReachesNext
    <3> QED BY <2>5, <3>1, <3>2
  <2>8. /\ State(Point(Cons(g, r), Imm(0)), e) = <<s, 0>>
        /\ State(Point(c, Imm(0)), e) = <<Stack(c, e), 0>>
        /\ Applies(Point(c, Imm(0)), e)
    BY <2>2, <2>3, PointState, ImmValue
  <2> QED BY <2>7, <2>8, Zenon
<1>4. CASE x.tag = 7
  BY <1>3, <1>4 DEF Turns
<1>5. CASE x.tag = 8
  BY <1>3, <1>5 DEF Turns
<1> QED BY <1>4, <1>5

LEMMA TellLoopExit == ASSUME TextInv, DumpLoopExit, NEW s, TellsNow(s) PROVE TellsNext(s)
<1>1. dump # <<>>
  BY DEF DumpLoopExit, RunningStmt, Running
<1> PICK x, n, t : x = dump[1].stmt /\ n = unused_koopa_label_count /\ t = Tail(dump)
  BY Zenon
<1> PICK never : never = Lab("while_never_access", n)
  OBVIOUS
<1>2. /\ dump[1].at = "Stmt" /\ x.tag \in {7, 8} /\ dump' = <<>> \o t
      /\ dump \in Seq(Frames) /\ n \in Nat /\ k_str \in Seq(Items)
  BY <1>1, Inside, Zenon DEF DumpLoopExit, RunningStmt, Running, Continue
<1>3. PICK i \in DOMAIN dump :
        /\ dump[i].at = "LoopJoin" /\ \A j \in 1 .. i - 1 : dump[j].at # "LoopJoin"
        /\ k_str' = k_str \o <<Jump(IF x.tag = 7 THEN dump[i].label ELSE dump[i].to), Label(never)>>
        /\ unused_koopa_label_count' = n + 1
  BY <1>1, Inside, Zenon DEF DumpLoopExit
<1>4. Counting
  BY <1>1, <1>2, <1>3, Inside, SMTT(30) DEF DumpLoopExit, Counting
<1>5. x \in Stmts
  BY <1>1, <1>2, <1>4, StmtCalled
<1>6. PICK L, r : /\ Under(L, r) /\ DOMAIN L \subseteq Numbers(n) /\ r \in Seq(Marks)
                  /\ Below(dump[1], t, 1, r) = r
                  /\ Trail(k_str, L, s, Point(Cons(StmtF(x), r), Imm(0)))
  BY <1>1, <1>2, <1>4, StmtCalled
<1> PICK f, m : f = dump[i] /\ m = i - 1
  OBVIOUS
<1>7. /\ m \in 1 .. Len(t) /\ t[m] = f /\ t \in Seq(Frames)
      /\ \A j \in 1 .. m - 1 : t[j].at # "LoopJoin"
  <2>1. /\ Len(dump) = Len(t) + 1 /\ Len(t) \in Nat /\ \A j \in 1 .. Len(t) : t[j] = dump[j + 1]
        /\ t \in Seq(Frames)
    BY <1>1, <1>2, FrameTail
  <2>2. i \in 1 .. Len(t) + 1 /\ i # 1
    BY <1>2, <1>3, <2>1
  <2>3. m \in 1 .. Len(t) /\ m + 1 = i
    BY <2>1, <2>2
  <2>4. ASSUME NEW j \in 1 .. m - 1 PROVE t[j].at # "LoopJoin"
    <3>1. j \in 1 .. Len(t) /\ j + 1 \in 1 .. i - 1
      BY <2>1, <2>3
    <3> QED BY <1>3, <2>1, <3>1
  <2> QED BY <2>1, <2>3, <2>4
<1>8. PICK w \in Stmts, u \in Seq(Marks) :
        /\ Unwound(r, Cons(Todo("Loop", w), u))
        /\ AtLabel(L, f.to, Point(Cons(Todo("Loop", w), u), Imm(0)))
        /\ AtLabel(L, f.label, Point(u, Imm(0)))
  <2>1. Stacked(t, r, L, unused_koopa_count')
    BY <1>6 DEF Under, Beneath
  <2>2. t[m].at = "LoopJoin"
    BY <1>3, <1>7
  <2> QED BY <1>7, <2>1, <2>2, LoopLevel, ZenonT(40)
<1> PICK l, q, p : /\ l = (IF x.tag = 7 THEN f.label ELSE f.to)
                   /\ q = (IF x.tag = 7 THEN Point(u, Imm(0))
                           ELSE Point(Cons(Todo("Loop", w), u), Imm(0)))
                   /\ p = Point(Cons(StmtF(x), r), Imm(0))
  BY Zenon
<1>9. Turns(p, q) /\ AtLabel(L, l, q)
  <2>1. CASE x.tag = 7
    BY <1>5, <1>6, <1>8, <2>1, TurnExit
  <2>2. CASE x.tag = 8
    BY <1>5, <1>6, <1>8, <2>2, TurnExit
  <2> QED BY <1>2, <2>1, <2>2, SMTT(30)
<1>10. l \in Labels /\ never \in Labels /\ "while_never_access" \in LabelKinds \ {"entry"}
  <2>1. f \in Frames /\ f.at = "LoopJoin"
    BY <1>2, <1>3
  <2>2. f.label \in Labels /\ f.to \in Labels
    BY <2>1, FrameFields
  <2>3. "while_never_access" \in LabelKinds \ {"entry"}
    BY DEF LabelKinds
  <2> QED BY <1>2, <2>2, <2>3, LabelType
<1>11. PICK M : /\ Extends(L, M) /\ AtLabel(M, never, Point(r, Imm(0)))
                /\ DOMAIN M \subseteq Numbers(n + 1)
  BY <1>2, <1>6, <1>10, OneNumber, Zenon
<1>12. AtLabel(M, l, q) /\ Trail(k_str, M, s, p)
  BY <1>6, <1>9, <1>11, LabelGrows, TrailGrows
<1>13. k_str' \in Seq(Items) /\ Trail(k_str', M, s, Point(r, Imm(0)))
  <2> PICK it, a : it = Jump(l) /\ a = Point(r, Imm(0))
    OBVIOUS
  <2>1. it \in Items
    BY <1>10, ControlItems
  <2>2. \A b : Faithful(it, p, b, M)
    BY <1>9, <1>12, FaithfulJump
  <2>3. /\ k_str \in Seq(Items) /\ Trail(k_str, M, s, p) /\ it \in Items
        /\ never \in Labels /\ AtLabel(M, never, a) /\ \A b : Faithful(it, p, b, M)
    BY <1>2, <1>10, <1>11, <1>12, <2>1, <2>2
  <2>4. /\ k_str \o <<it, Label(never)>> \in Seq(Items)
        /\ Trail(k_str \o <<it, Label(never)>>, M, s, a)
    BY ONLY <2>3, TrailOpen
  <2>5. k_str' = k_str \o <<it, Label(never)>>
    BY <1>3
  <2> QED BY <2>4, <2>5
<1>14. Under(M, r)
  BY <1>1, <1>3, <1>4, <1>6, <1>11, UnderGrows
<1>15. dump[1].at \notin Returners
  BY <1>2 DEF Returners
<1> QED BY <1>1, <1>2, <1>4, <1>6, <1>13, <1>14, <1>15, Answered

-----------------------------------------------------------------------------
(* Expressions *)

\* What has been called to evaluate x.
LEMMA ExpCalled ==
  ASSUME TextInv, dump # <<>>, Counting, NEW s, TellsNow(s), dump[1].at = "Exp"
  PROVE  /\ dump[1].exp \in Exps
         /\ \E L, r : /\ Under(L, r) /\ DOMAIN L \subseteq Numbers(unused_koopa_label_count)
                      /\ \E b \in Seq(Marks) :
                           /\ b = Below(dump[1], Tail(dump), 1, r)
                           /\ Sealed(b, unused_koopa_count) /\ Sealed(b, unused_koopa_count')
                           /\ Trail(k_str, L, s, Point(Cons(ExpF(dump[1].exp), b), Imm(0)))
<1> PICK x, f, d, t : x = dump[1].exp /\ f = dump[1] /\ d = dump /\ t = Tail(dump)
  BY Zenon
<1>1. x \in Exps /\ f = ExpF(x) /\ f \in Frames
  BY Inside, FrameFields, FrameIs
<1>2. PICK L, c, r : Open(L, c, r, s)
  BY Opened
<1>3. /\ r \in Seq(Marks) /\ Sealed(r, unused_koopa_count) /\ c \in Seq(Marks)
      /\ Sealed(c, unused_koopa_count) /\ Trail(k_str, L, s, Point(c, Now(dump, data, unused_koopa_count)))
      /\ Means(f, c, Below(f, t, 1, r), L) /\ Stacked(t, r, L, unused_koopa_count)
      /\ DOMAIN L \subseteq Numbers(unused_koopa_label_count)
  BY <1>2 DEF Open
<1> PICK b : b = Below(f, t, 1, r)
  OBVIOUS
<1>4. b \in Seq(Marks) /\ Sealed(b, unused_koopa_count)
  BY <1>3, BelowType
<1>5. c = Cons(f, b)
  BY <1>3 DEF Means
<1>6. Now(dump, data, unused_koopa_count) = Imm(0)
  BY DEF Now, Readers
<1>7. /\ unused_koopa_count \in Nat /\ unused_koopa_count' \in Nat
      /\ unused_koopa_count <= unused_koopa_count' /\ t \in Seq(Frames)
      /\ unused_koopa_label_count \in Nat /\ unused_koopa_label_count' \in Nat
      /\ unused_koopa_label_count <= unused_koopa_label_count'
  BY Inside, FrameTail DEF Counting
<1>8. Sealed(b, unused_koopa_count') /\ Sealed(r, unused_koopa_count')
  BY <1>3, <1>4, <1>7, SealedGrows
<1>9. Stacked(t, r, L, unused_koopa_count')
  <2>1. Extends(L, L)
    BY DEF Extends
  <2> QED BY <1>3, <1>7, <2>1, StackedGrows, Zenon
<1>10. DOMAIN L \subseteq Numbers(unused_koopa_label_count')
  BY <1>3, <1>7, NumbersGrow
<1>11. Under(L, r)
  BY <1>3, <1>8, <1>9, <1>10 DEF Under, Beneath
<1> QED BY <1>1, <1>3, <1>4, <1>5, <1>6, <1>8, <1>11, Zenon

LEMMA TellLeaf == ASSUME TextInv, DumpLeaf, NEW s, TellsNow(s) PROVE TellsNext(s)
<1>1. dump # <<>>
  BY DEF DumpLeaf, Running
<1> PICK x, n, t : x = dump[1].exp /\ n = unused_koopa_count /\ t = Tail(dump)
  BY Zenon
<1> PICK it : it = Ins("ins", Reg(n), <<<<"leaf", x.name>>>>)
  OBVIOUS
<1>2. /\ dump[1].at = "Exp" /\ dump' = <<>> \o Tail(dump) /\ k_str \in Seq(Items)
      /\ n \in Nat
  BY <1>1, Inside DEF DumpLeaf, Running, Continue
<1>3. \/ /\ x.tag = "num" /\ data' = Imm(x.val) /\ k_str' = k_str
         /\ unused_koopa_count' = unused_koopa_count
      \/ /\ x.tag = "ins" /\ data' = Reg(n) /\ k_str' = Append(k_str, it)
         /\ unused_koopa_count' = n + 1
  BY <1>1, Inside, Zenon DEF DumpLeaf
<1>4. Counting
  BY <1>1, <1>2, <1>3, Inside, SMTT(30) DEF DumpLeaf, Counting
<1>5. x \in Exps
  BY <1>1, <1>2, <1>4, ExpCalled
<1>6. PICK L, r : /\ Under(L, r)
                  /\ \E b \in Seq(Marks) :
                       /\ b = Below(dump[1], Tail(dump), 1, r) /\ Sealed(b, unused_koopa_count)
                       /\ Trail(k_str, L, s, Point(Cons(ExpF(x), b), Imm(0)))
  BY <1>1, <1>2, <1>4, ExpCalled
<1>7. PICK b \in Seq(Marks) : /\ b = Below(dump[1], Tail(dump), 1, r) /\ Sealed(b, n)
                              /\ Trail(k_str, L, s, Point(Cons(ExpF(x), b), Imm(0)))
  BY <1>6
<1>8. dump[1].at \in Returners
  BY <1>2 DEF Returners
<1>9. k_str' \in Seq(Items) /\ Trail(k_str', L, s, Point(b, data'))
  <2>1. CASE x.tag = "num" /\ data' = Imm(x.val) /\ k_str' = k_str
    <3>1. Turns(Point(Cons(ExpF(x), b), Imm(0)), Point(b, data'))
      BY <1>5, <1>7, <2>1, TurnNum
    <3> QED BY <1>2, <1>7, <2>1, <3>1, TrailMove
  <2>2. CASE x.tag = "ins" /\ data' = Reg(n) /\ k_str' = Append(k_str, it)
    <3>1. Faithful(it, Point(Cons(ExpF(x), b), Imm(0)), Point(b, Reg(n)), L)
      BY <1>2, <1>5, <1>7, <2>2, FaithfulLeaf
    <3>2. it \in Items
      <4>1. x.name \in Nat
        BY <1>5, <2>2, Grammar, Zenon DEF GrammarExp
      <4>2. <<"leaf", x.name>> \in Operands
        BY <4>1 DEF Operands
      <4>3. Reg(n) \in Operands /\ <<<<"leaf", x.name>>>> \in Seq(Operands)
        BY <1>2, <4>2, OperandType
      <4> QED BY <4>3, PlainItems, Zenon
    <3>3. k_str' = k_str \o <<it>>
      BY <1>2, <2>2, <3>2, Added, Zenon
    <3> PICK p, q : p = Point(Cons(ExpF(x), b), Imm(0)) /\ q = Point(b, Reg(n))
      OBVIOUS
    <3>4. k_str \in Seq(Items) /\ Trail(k_str, L, s, p) /\ it \in Items /\ Faithful(it, p, q, L)
      BY <1>2, <1>7, <3>1, <3>2
    <3>5. k_str \o <<it>> \in Seq(Items) /\ Trail(k_str \o <<it>>, L, s, q)
      BY ONLY <3>4, TrailWrite
    <3> QED BY <2>2, <3>3, <3>5, Zenon
  <2> QED BY <1>3, <2>1, <2>2
<1> QED BY <1>1, <1>2, <1>4, <1>6, <1>7, <1>8, <1>9, Answered

LEMMA TellLogic == ASSUME TextInv, DumpLogic, NEW s, TellsNow(s) PROVE TellsNext(s)
<1>1. dump # <<>>
  BY DEF DumpLogic, Running
<1> PICK x, n : x = dump[1].exp /\ n = unused_koopa_var_count
  OBVIOUS
<1> PICK temp : temp = Temp(n)
  OBVIOUS
<1> PICK f, m, it : /\ f = [at |-> "LogicRhs", exp |-> x, temp |-> temp] /\ m = Todo("Rest", x)
                    /\ it = Alloc(temp)
  BY Zenon
<1>2. /\ dump[1].at = "Exp" /\ x.tag \in {"lor", "land"} /\ k_str \in Seq(Items) /\ n \in Nat
      /\ dump' = <<ExpF(x.lhs), f>> \o Tail(dump) /\ k_str' = Append(k_str, it)
  BY <1>1, Inside, Zenon DEF DumpLogic, Running, Continue
<1>3. Counting
  BY <1>1, Inside, SMTT(30) DEF DumpLogic, Counting
<1>4. x \in Exps
  BY <1>1, <1>2, <1>3, ExpCalled
<1>5. PICK L, r : /\ Under(L, r)
                  /\ \E b \in Seq(Marks) :
                       /\ b = Below(dump[1], Tail(dump), 1, r)
                       /\ Trail(k_str, L, s, Point(Cons(ExpF(x), b), Imm(0)))
  BY <1>1, <1>2, <1>3, ExpCalled
<1>6. PICK b \in Seq(Marks) : /\ b = Below(dump[1], Tail(dump), 1, r)
                              /\ Trail(k_str, L, s, Point(Cons(ExpF(x), b), Imm(0)))
  BY <1>5
<1>7. temp \in Operands /\ temp[1] = "%temp_l_result" /\ it \in Items
  BY <1>2, OperandType, PlainItems DEF Temp
<1>8. /\ x.lhs \in Exps
      /\ Turns(Point(Cons(ExpF(x), b), Imm(0)), Point(Cons(ExpF(x.lhs), Cons(m, b)), Imm(0)))
  BY <1>2, <1>4, TurnLogic, Zenon
<1> PICK p, q : p = Point(Cons(ExpF(x), b), Imm(0)) /\ q = Point(Cons(ExpF(x.lhs), Cons(m, b)), Imm(0))
  OBVIOUS
<1>9. k_str' \in Seq(Items) /\ Trail(k_str', L, s, q)
  <2>1. Faithful(it, p, p, L) /\ k_str' = k_str \o <<it>>
    BY <1>2, <1>7, FaithfulAlloc, Added
  <2>2. Faithful(it, p, q, L)
    BY <1>8, <2>1, FaithfulTurns
  <2>3. k_str \in Seq(Items) /\ Trail(k_str, L, s, p) /\ it \in Items
    BY <1>2, <1>6, <1>7
  <2>4. k_str \o <<it>> \in Seq(Items) /\ Trail(k_str \o <<it>>, L, s, q)
    BY ONLY <2>2, <2>3, TrailWrite
  <2> QED BY <2>1, <2>4
<1>10. /\ f \in Frames /\ f.at = "LogicRhs" /\ f.exp = x /\ f.temp = temp
       /\ m \in Marks /\ m.at = "Rest"
  BY <1>2, <1>4, <1>7, LogicFrameType, MarkType
<1>11. /\ f.at \in Readers /\ m.at # "Loop" /\ Kept(m) = {} /\ Means(f, Cons(m, b), b, L)
  BY <1>7, <1>10 DEF Readers, Kept, Means
<1>12. b = Below(f, Tail(dump), 1, r)
  BY <1>2, <1>6, <1>10 DEF Below, Returners
<1>13. \A a \in Kept(m) : Old(a, unused_koopa_count')
  BY <1>11
<1> QED BY <1>1, <1>2, <1>3, <1>5, <1>8, <1>9, <1>10, <1>11, <1>12, <1>13, Asked, Zenon

LEMMA TellLogicRhs ==
  ASSUME TextInv, DumpLogicRhs, Old(data, unused_koopa_count), NEW s, TellsNow(s)
  PROVE  TellsNext(s)
<1>1. dump # <<>>
  BY DEF DumpLogicRhs, Running
<1> PICK x, n, t, temp : /\ x = dump[1].exp /\ n = unused_koopa_label_count /\ t = Tail(dump)
                         /\ temp = dump[1].temp
  BY Zenon
<1> PICK tag : tag = x.tag
  OBVIOUS
<1> PICK f, m, it : /\ f = [at |-> "LogicOp", tag |-> tag, temp |-> temp, lhs |-> data, n |-> n]
                    /\ m = Todo("Bool", <<tag, data>>)
                    /\ it = Br(data, Lab("then", n), Lab("else", n + 1))
  BY Zenon
<1>2. /\ dump[1].at = "LogicRhs" /\ k_str \in Seq(Items) /\ n \in Nat /\ data \in Operands
      /\ dump' = <<ExpF(x.rhs), f>> \o t /\ k_str' = k_str \o <<it, Label(RhsLabel(tag, n))>>
      /\ unused_koopa_label_count' = n + 3 /\ unused_koopa_count' = unused_koopa_count
  BY <1>1, Inside, Zenon DEF DumpLogicRhs, Running, Continue
<1>3. Counting
  BY <1>1, <1>2, Inside, SMTT(30) DEF DumpLogicRhs, Counting
<1>4. x \in Exps /\ tag \in {"lor", "land"} /\ temp \in Operands /\ x.rhs \in Exps
  <2>1. x \in Exps /\ tag \in {"lor", "land"} /\ temp \in Operands
    BY <1>1, <1>2, Inside, FrameFields, Zenon
  <2> QED BY <2>1, Grammar DEF GrammarExp
<1>5. dump[1].at \in Readers
  BY <1>2 DEF Readers
<1>6. PICK L, r : /\ Under(L, r) /\ DOMAIN L \subseteq Numbers(n)
                  /\ \E c \in Seq(Marks) :
                       /\ Means(dump[1], c, Below(dump[1], t, 1, r), L)
                       /\ Trail(k_str, L, s, Point(c, data))
  BY <1>1, <1>3, <1>5, ReaderCalled, Zenon
<1> PICK b : b = Below(dump[1], t, 1, r)
  OBVIOUS
<1>7. b \in Seq(Marks)
  <2>1. r \in Seq(Marks) /\ Sealed(r, unused_koopa_count')
    BY <1>6 DEF Under, Beneath
  <2> QED BY <2>1, BelowType
<1> PICK p : p = Point(Cons(Todo("Rest", x), b), data)
  OBVIOUS
<1>8. Trail(k_str, L, s, p) /\ temp[1] = "%temp_l_result"
  <2>1. PICK c \in Seq(Marks) : Means(dump[1], c, b, L) /\ Trail(k_str, L, s, Point(c, data))
    BY <1>6
  <2>2. c = Cons(Todo("Rest", x), b) /\ temp[1] = "%temp_l_result"
    BY <1>2, <2>1 DEF Means
  <2> QED BY <2>1, <2>2
<1> PICK right, short, end : /\ right = Point(Cons(ExpF(x.rhs), Cons(m, b)), Imm(0))
                             /\ short = Point(b, ShortValue(tag)) /\ end = Point(b, temp)
  OBVIOUS
<1>9. PICK M : /\ Extends(L, M) /\ AtLabel(M, RhsLabel(tag, n), right)
               /\ AtLabel(M, ShortLabel(tag, n), short) /\ AtLabel(M, Lab("end", n + 2), end)
               /\ DOMAIN M \subseteq Numbers(n + 3)
  <2> PICK u, v : /\ u = (IF tag = "lor" THEN short ELSE right)
                  /\ v = (IF tag = "lor" THEN right ELSE short)
    BY Zenon
  <2>1. /\ "then" \in LabelKinds \ {"entry"} /\ "else" \in LabelKinds \ {"entry"}
        /\ "end" \in LabelKinds \ {"entry"}
    BY DEF LabelKinds
  <2>2. n \in Nat /\ DOMAIN L \subseteq Numbers(n)
    BY <1>2, <1>6
  <2>3. PICK M : /\ Extends(L, M) /\ AtLabel(M, Lab("then", n), u)
                 /\ AtLabel(M, Lab("else", n + 1), v)
                 /\ AtLabel(M, Lab("end", n + 2), end) /\ DOMAIN M \subseteq Numbers(n + 3)
    BY ONLY <2>1, <2>2, ThreeNumbers, Zenon
  <2>4. CASE tag = "lor"
    BY <2>3, <2>4 DEF RhsLabel, ShortLabel
  <2>5. CASE tag = "land"
    BY <2>3, <2>5 DEF RhsLabel, ShortLabel
  <2> QED BY <1>4, <2>4, <2>5, Zenon
<1>10. \A q : Faithful(it, p, q, M)
  <2>1. AtLabel(M, ShortLabel(x.tag, n), Point(b, ShortValue(x.tag)))
    BY <1>9
  <2>2. AtLabel(M, RhsLabel(x.tag, n), Point(Cons(ExpF(x.rhs), Cons(Todo("Bool", <<x.tag, data>>), b)), Imm(0)))
    BY <1>9
  <2> QED BY <1>2, <1>4, <1>7, <2>1, <2>2, FaithfulRest, Zenon
<1>11. it \in Items /\ RhsLabel(tag, n) \in Labels
  <2>1. "then" \in LabelKinds /\ "else" \in LabelKinds /\ n + 1 \in Nat
    BY <1>2 DEF LabelKinds
  <2>2. Lab("then", n) \in Labels /\ Lab("else", n + 1) \in Labels
    BY <1>2, <2>1, LabelType, SMTT(30)
  <2> QED BY <1>2, <2>2, ControlItems DEF RhsLabel
<1>12. k_str' \in Seq(Items) /\ Trail(k_str', M, s, right)
  <2> PICK l : l = RhsLabel(tag, n)
    OBVIOUS
  <2>1. Trail(k_str, M, s, p)
    BY <1>8, <1>9, TrailGrows, SMTT(30)
  <2>2. /\ k_str \in Seq(Items) /\ Trail(k_str, M, s, p) /\ it \in Items /\ \A q : Faithful(it, p, q, M)
        /\ l \in Labels /\ AtLabel(M, l, right)
    BY <1>2, <1>9, <1>10, <1>11, <2>1
  <2>3. k_str \o <<it, Label(l)>> \in Seq(Items) /\ Trail(k_str \o <<it, Label(l)>>, M, s, right)
    BY ONLY <2>2, TrailOpen
  <2> QED BY <1>2, <2>3
<1>13. /\ f \in Frames /\ f.at = "LogicOp" /\ f.tag = tag /\ f.temp = temp /\ f.lhs = data /\ f.n = n
       /\ m \in Marks /\ m.at = "Bool" /\ m.x = <<tag, data>>
  <2>1. f \in Frames
    BY <1>2, <1>4, LogicFrameType
  <2>2. m \in Marks
    BY <1>2, <1>4, MarkType, Zenon
  <2>3. m.at = "Bool" /\ m.x = <<tag, data>>
    BY MarkType
  <2>4. f.at = "LogicOp" /\ f.tag = tag /\ f.temp = temp /\ f.lhs = data /\ f.n = n
    BY SMTT(30)
  <2> QED BY <2>1, <2>2, <2>3, <2>4, Zenon
<1>14. f.at \in Readers /\ m.at # "Loop" /\ Kept(m) = {data}
  BY <1>13, SMTT(30) DEF Readers, Kept
<1>15. Means(f, Cons(m, b), b, M)
  BY <1>8, <1>9, <1>13, SMTT(30) DEF Means
<1>16. b = Below(f, t, 1, r)
  BY <1>2, <1>13 DEF Below, Returners
<1>17. \A a \in Kept(m) : Old(a, unused_koopa_count')
  BY <1>2, <1>14, ZenonT(30)
<1>18. Under(M, r)
  BY <1>1, <1>2, <1>3, <1>6, <1>9, UnderGrows
<1> QED BY <1>1, <1>2, <1>3, <1>4, <1>12, <1>13, <1>14, <1>15, <1>16, <1>17, <1>18, Asked, Zenon

LEMMA TellLogicOp ==
  ASSUME TextInv, DumpLogicOp, TypeOK', Old(data, unused_koopa_count), NEW s, TellsNow(s)
  PROVE  TellsNext(s)
<1>1. dump # <<>>
  BY DEF DumpLogicOp, Running
<1> PICK f, n, t : f = dump[1] /\ n = unused_koopa_count /\ t = Tail(dump)
  BY Zenon
<1> PICK m, end, short : /\ m = LogicOpRegs(f.tag) /\ end = Lab("end", f.n + 2)
                         /\ short = ShortLabel(f.tag, f.n)
  OBVIOUS
<1>2. /\ f.at = "LogicOp" /\ f \in Frames /\ k_str \in Seq(Items) /\ n \in Nat /\ data \in Operands
      /\ dump' = <<>> \o Tail(dump) /\ data' = Reg(n + m + 1)
      /\ unused_koopa_count' = n + m + 2
  BY <1>1, Inside, Zenon DEF DumpLogicOp, Running, Continue
<1>3. last_ins_is_ret = FALSE
  <2>1. Head(dump).at \notin Resumes /\ BlockInv
    BY <1>1, <1>2, Inside DEF Resumes, TextInv
  <2> QED BY <1>1, <2>1, NotBehindReturn
<1>4. k_str' = k_str \o LogicOpText(f.tag, f.lhs, data, n) \o <<Store(Reg(n + m - 1), f.temp)>>
                 \o <<Jump(end), Label(short)>>
                 \o <<Store(ShortValue(f.tag), f.temp), Jump(end), Label(end),
                      Ins("load", Reg(n + m + 1), <<f.temp>>)>>
  <2> PICK h : h = Head(dump)
    OBVIOUS
  <2> PICK u, v, w : /\ u = LogicOpText(h.tag, h.lhs, data, n)
                     /\ v = <<Store(Reg(n + LogicOpRegs(h.tag) - 1), h.temp)>>
                     /\ w = <<Store(ShortValue(h.tag), h.temp), Jump(Lab("end", h.n + 2)),
                              Label(Lab("end", h.n + 2)),
                              Ins("load", Reg(n + LogicOpRegs(h.tag) + 1), <<h.temp>>)>>
    BY Zenon
  <2> PICK i : i = (IF last_ins_is_ret THEN <<Label(ShortLabel(h.tag, h.n))>>
                    ELSE <<Jump(Lab("end", h.n + 2)), Label(ShortLabel(h.tag, h.n))>>)
    BY ZenonT(30)
  <2>1. k_str' = k_str \o u \o v \o i \o w
    BY DEF DumpLogicOp, JoinText
  <2>2. i = <<Jump(Lab("end", h.n + 2)), Label(ShortLabel(h.tag, h.n))>>
    BY <1>3
  <2>3. h = f
    BY <1>1, Inside
  <2>4. u = LogicOpText(f.tag, f.lhs, data, n)
    BY <2>3
  <2>5. v = <<Store(Reg(n + m - 1), f.temp)>>
    BY <2>3
  <2>6. w = <<Store(ShortValue(f.tag), f.temp), Jump(end), Label(end),
              Ins("load", Reg(n + m + 1), <<f.temp>>)>>
    BY <2>3, Zenon
  <2>7. i = <<Jump(end), Label(short)>>
    BY <2>2, <2>3, Zenon
  <2> QED BY ONLY <2>1, <2>4, <2>5, <2>6, <2>7
<1>5. m \in {2, 3}
  BY SMTT(30) DEF LogicOpRegs
<1>6. Counting
  <2>1. /\ unused_koopa_count' = n + m + 2
        /\ UNCHANGED <<unused_koopa_var_count, unused_koopa_label_count>>
    BY <1>1, <1>2, Inside, Zenon DEF DumpLogicOp
  <2>2. n \in Nat /\ unused_koopa_var_count \in Nat /\ unused_koopa_label_count \in Nat
    BY <1>1, <1>2, Inside, Zenon DEF TypeOK
  <2>3. unused_koopa_count' \in Nat /\ n <= unused_koopa_count'
    BY ONLY <1>5, <2>1, <2>2
  <2> QED BY ONLY <2>1, <2>2, <2>3, n = unused_koopa_count DEF Counting
<1>7. /\ f.tag \in {"lor", "land"} /\ f.temp \in Operands /\ f.lhs \in Operands /\ f.n \in Nat
      /\ f.at \in Readers /\ f.at \in Returners
  BY <1>2, FrameFields DEF Readers, Returners
<1>8. PICK L, r : /\ Under(L, r)
                  /\ \E c \in Seq(Marks) :
                       /\ Sealed(c, n) /\ Means(dump[1], c, Below(dump[1], t, 1, r), L)
                       /\ Trail(k_str, L, s, Point(c, data))
  BY <1>1, <1>6, <1>7, ReaderCalled
<1> PICK b : b = Below(dump[1], t, 1, r)
  OBVIOUS
<1>9. b \in Seq(Marks)
  <2>1. r \in Seq(Marks) /\ Sealed(r, unused_koopa_count')
    BY <1>8 DEF Under, Beneath
  <2> QED BY <2>1, BelowType
<1> PICK g : g = Todo("Bool", <<f.tag, f.lhs>>)
  OBVIOUS
<1>10. /\ Sealed(Cons(g, b), n) /\ Trail(k_str, L, s, Point(Cons(g, b), data))
       /\ f.temp[1] = "%temp_l_result"
       /\ AtLabel(L, short, Point(b, ShortValue(f.tag))) /\ AtLabel(L, end, Point(b, f.temp))
  <2>1. PICK c \in Seq(Marks) : /\ Sealed(c, n) /\ Means(f, c, b, L)
                                /\ Trail(k_str, L, s, Point(c, data))
    BY <1>8
  <2>2. /\ c = Cons(g, b) /\ f.temp[1] = "%temp_l_result"
        /\ AtLabel(L, ShortLabel(f.tag, f.n), Point(b, ShortValue(f.tag)))
        /\ AtLabel(L, Lab("end", f.n + 2), Point(b, f.temp))
    BY <1>2, <2>1 DEF Means
  <2> QED BY <2>1, <2>2
<1>11. Sealed(b, n) /\ Old(f.lhs, n)
  <2>1. g \in Marks /\ g.at = "Bool" /\ g.x = <<f.tag, f.lhs>>
    <3>1. \A a, y : Todo(a, y).at = a /\ Todo(a, y).x = y
      BY MarkType
    <3>2. f.tag \in {"lor", "land"} /\ f.lhs \in Operands
      BY <1>7
    <3>3. g \in Marks
      BY <3>2, MarkType, Zenon
    <3> QED BY <3>1, <3>3
  <2>2. Kept(g) = {f.lhs}
    BY <2>1 DEF Kept
  <2> QED BY <1>9, <1>10, <2>1, <2>2, SealedCons, Zenon
<1>12. end \in Labels /\ short \in Labels
  <2>1. "then" \in LabelKinds /\ "else" \in LabelKinds /\ "end" \in LabelKinds
        /\ f.n + 1 \in Nat /\ f.n + 2 \in Nat
    BY <1>7 DEF LabelKinds
  <2>2. Lab("then", f.n) \in Labels /\ Lab("else", f.n + 1) \in Labels /\ Lab("end", f.n + 2) \in Labels
    BY <1>7, <2>1, LabelType
  <2> QED BY <2>2 DEF ShortLabel
<1>13. Trail(k_str', L, s, Point(b, Reg(n + m + 1)))
  <2>1. Trail(k_str, L, s, Deciding(f.tag, f.lhs, b, data))
    BY <1>10 DEF Deciding
  <2> PICK tag, lhs, temp : tag = f.tag /\ lhs = f.lhs /\ temp = f.temp
    BY Zenon
  <2>2. /\ k_str \in Seq(Items) /\ tag \in {"lor", "land"} /\ lhs \in Operands /\ b \in Seq(Marks)
        /\ data \in Operands /\ n \in Nat /\ Sealed(b, n) /\ Old(lhs, n) /\ Old(data, n)
        /\ Trail(k_str, L, s, Deciding(tag, lhs, b, data))
        /\ temp \in Operands /\ temp[1] = "%temp_l_result" /\ end \in Labels /\ short \in Labels
        /\ AtLabel(L, short, Point(b, ShortValue(tag))) /\ AtLabel(L, end, Point(b, temp))
    BY <1>2, <1>7, <1>9, <1>10, <1>11, <1>12, <2>1
  <2>3. LET a == LogicOpRegs(tag)
        IN  Trail(k_str \o LogicOpText(tag, lhs, data, n) \o <<Store(Reg(n + a - 1), temp)>>
                      \o JoinText(FALSE, end, short)
                      \o <<Store(ShortValue(tag), temp), Jump(end), Label(end),
                           Ins("load", Reg(n + a + 1), <<temp>>)>>,
                    L, s, Point(b, Reg(n + a + 1)))
    BY ONLY <2>2, TrailLogic, Zenon
  <2>4. Trail(k_str \o LogicOpText(tag, lhs, data, n) \o <<Store(Reg(n + m - 1), temp)>>
                \o <<Jump(end), Label(short)>>
                \o <<Store(ShortValue(tag), temp), Jump(end), Label(end),
                     Ins("load", Reg(n + m + 1), <<temp>>)>>,
              L, s, Point(b, Reg(n + m + 1)))
    BY <2>3 DEF JoinText
  <2> QED BY <1>4, <2>4, Zenon
<1>14. k_str' \in Seq(Items)
  BY DEF TypeOK
<1> QED BY <1>1, <1>2, <1>6, <1>7, <1>8, <1>13, <1>14, Answered, SMTT(30)

-----------------------------------------------------------------------------
(* A function begins.  At the text before it the tree may stand anywhere. *)

\* The calls that a function definition makes.
LEMMA NewCalls ==
  ASSUME TextInv, DumpFuncDef, NEW L, DOMAIN L \subseteq Numbers(unused_koopa_label_count)
  PROVE  /\ Head(unit) \in Blocks /\ k_str \in Seq(Items) /\ k_str' = k_str \o <<Fun, Label(Entry)>>
         /\ \E t \in Seq(Frames) : /\ Beneath(t, L, <<>>)
                                   /\ dump' = <<BlockF(Head(unit))>> \o t
         /\ Fun \in Items /\ Label(Entry) \in Items
<1> PICK b, g, f : b = Head(unit) /\ g = BlockF(b) /\ f = [at |-> "FuncEnd"]
  BY Zenon
<1>1. /\ k_str \in Seq(Items) /\ unit \in Seq(Blocks) /\ unit # <<>> /\ dump' = <<g, f>>
      /\ k_str' = k_str \o <<Fun, Label(Entry)>>
      /\ unused_koopa_label_count' = unused_koopa_label_count
  BY DEF TextInv, BlockInv, TypeOK, DumpFuncDef, counts
<1>2. b \in Blocks
  BY <1>1
<1>3. g \in Frames /\ f \in Frames /\ f.at = "FuncEnd"
  BY <1>2, FrameType DEF BlockF
<1>4. <<>> \in Seq(Frames) /\ <<>> \in Seq(Marks) /\ Sealed(<<>>, unused_koopa_count')
  BY SealedEmpty
<1>5. Beneath(<<>>, L, <<>>)
  BY <1>1, <1>4, StackedNone DEF Beneath
<1>6. Below(f, <<>>, 1, <<>>) = <<>> /\ Means(f, <<>>, <<>>, L)
  BY <1>3, BelowNone DEF Returners, Means
<1>7. Cons(f, <<>>) \in Seq(Frames) /\ Beneath(Cons(f, <<>>), L, <<>>)
  BY <1>3, <1>4, <1>5, <1>6, OverPush, Zenon
<1>8. dump' = <<g>> \o Cons(f, <<>>)
  <2>1. <<g, f>> \o <<>> = Cons(g, Cons(f, <<>>))
    BY <1>3, <1>4, TwoFrames, Zenon
  <2>2. Cons(g, Cons(f, <<>>)) = <<g>> \o Cons(f, <<>>)
    BY <1>3, <1>7, FrameCons, Zenon
  <2>3. <<g, f>> \o <<>> = <<g, f>>
    BY <1>3
  <2> QED BY <1>1, <2>1, <2>2, <2>3, Zenon
<1>9. Fun \in Items /\ Label(Entry) \in Items
  BY ControlItems, OperandType
<1> QED BY <1>1, <1>2, <1>7, <1>8, <1>9, Zenon

\* The text of the new function so far leads to its body.
LEMMA NewBody ==
  ASSUME TextInv, DumpFuncDef, NEW s, NEW L, DOMAIN L \subseteq Numbers(unused_koopa_label_count),
         Trail(k_str', L, s, Point(Cons(BlockF(Head(unit)), <<>>), Imm(0)))
  PROVE  TellsNext(s)
<1> PICK g : g = BlockF(Head(unit))
  OBVIOUS
<1>1. Head(unit) \in Blocks
  BY NewCalls
<1>2. PICK t \in Seq(Frames) : Beneath(t, L, <<>>) /\ dump' = <<g>> \o t
  BY NewCalls, Zenon
<1>3. g \in Frames /\ g \in Marks /\ g.at = "Block"
  BY <1>1, FrameType, MarkType DEF BlockF
<1>4. Below(g, t, 1, <<>>) = <<>>
  BY <1>3, BelowNone DEF Returners
<1> QED BY <1>2, <1>3, <1>4, EnteredOver

\* The first function: the text that is run begins at its body.
LEMMA TellFirst ==
  ASSUME TextInv, DumpFuncDef, k_str = <<>>
  PROVE  TellsNext(Point(Cons(BlockF(Head(unit)), <<>>), Imm(0)))
<1> PICK L : L = [x \in {} |-> 0]
  OBVIOUS
<1> PICK s : s = Point(Cons(BlockF(Head(unit)), <<>>), Imm(0))
  OBVIOUS
<1>1. DOMAIN L = {} /\ DOMAIN L \subseteq Numbers(unused_koopa_label_count)
  OBVIOUS
<1>2. k_str' = <<Fun, Label(Entry)>>
  <2> PICK S : S = Items
    OBVIOUS
  <2>1. Fun \in S /\ Label(Entry) \in S /\ k_str' = <<>> \o <<Fun, Label(Entry)>>
    BY <1>1, NewCalls
  <2>2. <<>> \o <<Fun, Label(Entry)>> = <<Fun, Label(Entry)>>
    BY ONLY <2>1
  <2> QED BY <2>1, <2>2
<1>3. Faithful(Fun, s, s, L) /\ Faithful(Label(Entry), s, s, L)
  BY FaithfulEnds, FaithfulLabel
<1> PICK k : k = k_str'
  OBVIOUS
<1> PICK P : P = [i \in 1 .. 3 |-> s]
  BY Zenon
<1>4. Len(k) = 2 /\ k[1] = Fun /\ k[2] = Label(Entry)
  BY <1>2
<1>5. P[1] = s /\ P[2] = s /\ P[3] = s /\ P[Len(k) + 1] = s
  BY <1>4
<1>6. ASSUME NEW i \in 1 .. Len(k) PROVE Faithful(k[i], P[i], P[i + 1], L)
  <2>1. i = 1 \/ i = 2
    BY <1>4
  <2>2. CASE i = 1
    BY <1>3, <1>4, <1>5, <2>2
  <2>3. CASE i = 2
    BY <1>3, <1>4, <1>5, <2>3
  <2> QED BY <2>1, <2>2, <2>3
<1>7. Trail(k, L, s, s)
  BY <1>4, <1>5, <1>6 DEF Trail
<1> QED BY <1>1, <1>7, NewBody

LEMMA TellFuncDef ==
  ASSUME TextInv, DumpFuncDef, k_str # <<>>, NEW s, TellsNow(s)
  PROVE  TellsNext(s)
<1> PICK p : p = Point(Cons(BlockF(Head(unit)), <<>>), Imm(0))
  OBVIOUS
<1>1. /\ dump = <<>> /\ k_str \in Seq(Items) /\ k_str[Len(k_str)].op = "end"
  BY DEF TextInv, BlockInv, TypeOK, EndOfText, DumpFuncDef
<1>2. PICK L : \E c \in Seq(Marks) :
                 /\ Trail(k_str, L, s, Point(c, Now(dump, data, unused_koopa_count)))
                 /\ DOMAIN L \subseteq Numbers(unused_koopa_label_count)
  BY DEF TellsNow, Tells
<1>3. PICK h : Trail(k_str, L, s, h) /\ DOMAIN L \subseteq Numbers(unused_koopa_label_count)
  BY <1>2
<1>4. Trail(k_str, L, s, p)
  BY <1>1, <1>3, TrailClosed
<1>5. Faithful(Fun, p, p, L) /\ Faithful(Label(Entry), p, p, L)
  BY FaithfulEnds, FaithfulLabel
<1>6. Fun \in Items /\ Label(Entry) \in Items /\ k_str' = k_str \o <<Fun, Label(Entry)>>
  BY <1>3, NewCalls, Zenon
<1>7. Trail(k_str', L, s, p)
  BY <1>1, <1>4, <1>5, <1>6, TrailTwo
<1> QED BY <1>3, <1>7, NewBody

-----------------------------------------------------------------------------
(* The invariant while dumping *)

\* Every step of a handler.
LEMMA TellStep ==
  ASSUME TextInv, Old(data, unused_koopa_count), Next, ~ Finish, k_str # <<>>, NEW s, TellsNow(s)
  PROVE  TellsNext(s)
<1>1. TypeOK'
  BY TypeNext DEF TextInv, BlockInv
<1>2. CASE DumpFuncDef
  BY <1>2, TellFuncDef
<1>3. CASE DumpLogicRhs
  BY <1>3, TellLogicRhs
<1>4. CASE DumpLogicOp
  BY <1>1, <1>4, TellLogicOp
<1>5. CASE DumpFuncEnd \/ DumpBlockItem \/ DumpBlockEnd \/ DumpVarDef
  BY <1>5, TellFuncEnd, TellBlockItem, TellBlockEnd, TellVarDef
<1>6. CASE DumpAssign \/ DumpIndex \/ DumpAddress \/ DumpElemPtr
  BY <1>6, TellAssign, TellIndex, TellAddress, TellElemPtr
<1>10. CASE DumpElem \/ DumpStore \/ DumpNested
  BY <1>10, TellElem, TellStore, TellNested
<1>7. CASE DumpIf \/ DumpThen \/ DumpThenElse \/ DumpJoin
  BY <1>7, TellIf, TellThen, TellThenElse, TellJoin
<1>8. CASE DumpWhile \/ DumpWhileBody \/ DumpLoopExit
  BY <1>8, TellWhile, TellWhileBody, TellLoopExit
<1>9. CASE DumpReturn \/ DumpRet \/ DumpLeaf \/ DumpLogic
  BY <1>9, TellReturn, TellRet, TellLeaf, TellLogic
<1> QED BY <1>2, <1>3, <1>4, <1>5, <1>6, <1>7, <1>8, <1>9, <1>10 DEF Next

\* The operand is a number or a register that is defined.
LEMMA OldNext ==
  ASSUME TypeOK, Old(data, unused_koopa_count), Next
  PROVE  Old(data', unused_koopa_count')
<1>1. /\ data \in Operands /\ unused_koopa_count \in Nat
      /\ unused_koopa_count' = unused_koopa_count \/ unused_koopa_count' = unused_koopa_count + 1
           => unused_koopa_count' \in Nat /\ unused_koopa_count <= unused_koopa_count'
  BY DEF TypeOK
<1>2. CASE DumpLeaf
  <2>1. \/ data' = Imm(Head(dump).exp.val)
        \/ /\ data' = Reg(unused_koopa_count)
           /\ unused_koopa_count' = unused_koopa_count + 1
    BY <1>2 DEF DumpLeaf
  <2> QED BY <1>1, <2>1 DEF Old, Imm, Reg
<1>3. CASE DumpLogicOp
  <2>1. PICK r, k : /\ r = unused_koopa_count /\ k \in {2, 3}
                    /\ data' = Reg(r + k + 1) /\ unused_koopa_count' = r + k + 2
    BY <1>3 DEF DumpLogicOp, LogicOpRegs
  <2> QED BY <1>1, <2>1, SMTT(30) DEF Old, Reg
<1>4. ASSUME data' = data,
             \/ unused_koopa_count' = unused_koopa_count
             \/ unused_koopa_count' = unused_koopa_count + 1
             \/ unused_koopa_count' = unused_koopa_count + 2
      PROVE  Old(data', unused_koopa_count')
  BY <1>1, <1>4, OldGrows
<1>5. CASE DumpAddress \/ DumpElemPtr
  BY <1>4, <1>5 DEF DumpAddress, AddressRegs, DumpElemPtr
<1>6. CASE DumpFuncDef \/ DumpFuncEnd \/ DumpBlockItem \/ DumpBlockEnd \/ DumpVarDef
  BY <1>4, <1>6 DEF DumpFuncDef, DumpFuncEnd, DumpBlockItem, DumpBlockEnd, DumpVarDef, counts
<1>7. CASE DumpAssign \/ DumpIndex \/ DumpElem \/ DumpStore \/ DumpNested \/ DumpIf \/ DumpReturn
  BY <1>4, <1>7 DEF DumpAssign, DumpIndex, DumpElem, DumpStore, DumpNested, DumpIf, DumpReturn, counts
<1>8. CASE DumpThen \/ DumpThenElse \/ DumpJoin \/ DumpWhile
  BY <1>4, <1>8 DEF DumpThen, DumpThenElse, DumpJoin, DumpWhile, counts
<1>9. CASE DumpWhileBody \/ DumpLoopExit \/ DumpRet
  BY <1>4, <1>9 DEF DumpWhileBody, DumpLoopExit, DumpRet, counts
<1>10. CASE DumpLogic \/ DumpLogicRhs \/ Finish
  BY <1>4, <1>10 DEF DumpLogic, DumpLogicRhs, Finish, vars, counts
<1> QED BY <1>2, <1>3, <1>5, <1>6, <1>7, <1>8, <1>9, <1>10 DEF Next

\* The jumps of the functions that are finished lead into the text.
Settled == k_str # <<>> => \A i \in 1 .. Begun - 1 : Range(k_str[i].to) \subseteq WrittenIn(k_str, 1)

\* The text k becomes longer by t; s is where the function began, and f where
\* the function of the longer text begins.
LEMMA SettledOn ==
  ASSUME NEW k \in Seq(Items), NEW t \in Seq(Items), k # <<>>, NEW f \in Nat, f <= Len(k) + 1,
         \A i \in 1 .. f - 1 : Range(k[i].to) \subseteq WrittenIn(k, 1)
  PROVE  \A i \in 1 .. f - 1 : Range((k \o t)[i].to) \subseteq WrittenIn(k \o t, 1)
<1>1. 1 <= Len(k) /\ Len(k) \in Nat /\ 1 \in Nat
  OBVIOUS
<1>2. WrittenIn(k \o t, 1) = WrittenIn(k, 1) \cup WrittenIn(t, 1)
  BY <1>1, Grown
<1>3. \A i \in 1 .. Len(k) : (k \o t)[i] = k[i]
  BY Behind
<1>4. \A i \in 1 .. f - 1 : i \in 1 .. Len(k)
  BY <1>1
<1> QED BY <1>2, <1>3, <1>4

\* The text of all finished functions is settled.
LEMMA ClosedSettled ==
  ASSUME TextInv, Settled, k_str # <<>>, dump = <<>>
  PROVE  \A i \in 1 .. Len(k_str) : Range(k_str[i].to) \subseteq WrittenIn(k_str, 1)
<1>1. k_str \in Seq(Items) /\ Sound(k_str, Begun, <<>>, data)
  BY DEF TextInv, BlockInv, TypeOK
<1>2. Begun \in 1 .. Len(k_str) /\ Lands(k_str, Begun, <<>>)
  BY <1>1 DEF Sound, Starts
<1>3. Promised(<<>>) = {}
  BY DEF Promised
<1>4. WrittenIn(k_str, Begun) \subseteq WrittenIn(k_str, 1)
  <2>1. \A i \in Begun .. Len(k_str) : i \in 1 .. Len(k_str)
    BY <1>2
  <2> QED BY <2>1 DEF WrittenIn
<1>5. \A i \in Begun .. Len(k_str) : Range(k_str[i].to) \subseteq WrittenIn(k_str, 1)
  BY <1>2, <1>3, <1>4 DEF Lands
<1>6. \A i \in 1 .. Begun - 1 : Range(k_str[i].to) \subseteq WrittenIn(k_str, 1)
  BY DEF Settled
<1> QED BY <1>2, <1>5, <1>6

LEMMA SettledNext ==
  ASSUME TextInv, TextInv', TextNext, Settled
  PROVE  Settled'
<1>1. k_str \in Seq(Items) /\ k_str' \in Seq(Items)
  BY DEF TextInv, BlockInv, TypeOK
<1>2. PICK t \in Seq(Items) : /\ k_str' = k_str \o t
                              /\ IF dump # <<>> THEN \A i \in 1 .. Len(t) : t[i].op # "fun"
                                                ELSE Begun' = Len(k_str) + 1
  BY Zenon DEF TextNext, Grows
<1>3. CASE dump # <<>>
  <2>1. k_str # <<>> /\ Starts(k_str, Begun)
    BY <1>3, Inside DEF Sound
  <2>2. Starts(k_str \o t, Begun) /\ Begun \in Nat /\ Begun <= Len(k_str)
    BY <1>1, <1>2, <1>3, <2>1, StartStays
  <2>3. FunctionStart(k_str') = Begun
    BY <1>1, <1>2, <2>2, StartIs, Zenon
  <2>4. Begun' = Begun
    BY <2>3 DEF Begun
  <2>5. \A i \in 1 .. Begun - 1 : Range(k_str[i].to) \subseteq WrittenIn(k_str, 1)
    BY <2>1 DEF Settled
  <2>6. Begun <= Len(k_str) + 1
    BY <1>1, <2>2
  <2>7. \A i \in 1 .. Begun - 1 : Range((k_str \o t)[i].to) \subseteq WrittenIn(k_str \o t, 1)
    BY <1>1, <2>1, <2>2, <2>5, <2>6, SettledOn
  <2> QED BY <1>2, <2>4, <2>7, Zenon DEF Settled
<1>4. CASE dump = <<>> /\ k_str # <<>>
  <2>1. \A i \in 1 .. Len(k_str) : Range(k_str[i].to) \subseteq WrittenIn(k_str, 1)
    BY <1>4, ClosedSettled
  <2> PICK f : f = Len(k_str) + 1
    OBVIOUS
  <2>2. f \in Nat /\ f <= Len(k_str) + 1 /\ f - 1 = Len(k_str)
    BY <1>1
  <2>3. \A i \in 1 .. f - 1 : Range((k_str \o t)[i].to) \subseteq WrittenIn(k_str \o t, 1)
    BY <1>1, <1>4, <2>1, <2>2, SettledOn, Zenon
  <2> QED BY <1>2, <1>4, <2>3 DEF Settled
<1>5. CASE dump = <<>> /\ k_str = <<>>
  <2>1. Begun' = 1
    BY <1>2, <1>5
  <2>2. 1 .. Begun' - 1 = {}
    BY <2>1
  <2> QED BY <2>2 DEF Settled
<1> QED BY <1>3, <1>4, <1>5

Begins(b) == Point(Cons(BlockF(b), <<>>), Imm(0))

\* While the functions are dumped; b is the body of the first one.
DumpInv(b) ==
  /\ TextInv
  /\ Old(data, unused_koopa_count)
  /\ Settled
  /\ IF k_str = <<>> THEN dump = <<>> /\ unit # <<>> /\ b = Head(unit)
                     ELSE TellsNow(Begins(b))

LEMMA DumpInvNext ==
  ASSUME NEW b, DumpInv(b), Next
  PROVE  DumpInv(b)'
<1>1. TextInv /\ Old(data, unused_koopa_count) /\ Settled /\ TypeOK
  BY DEF DumpInv, TextInv, BlockInv
<1>2. TextInv' /\ Old(data', unused_koopa_count')
  BY <1>1, TextInvNext, OldNext
<1>3. CASE Finish
  <2>1. UNCHANGED vars
    BY <1>3 DEF Finish
  <2>2. /\ k_str' = k_str /\ dump' = dump /\ data' = data /\ unit' = unit
        /\ unused_koopa_count' = unused_koopa_count
        /\ unused_koopa_label_count' = unused_koopa_label_count
    BY <2>1 DEF vars, counts
  <2>3. Settled' /\ (TellsNow(Begins(b)) => TellsNow(Begins(b))')
    BY <1>1, <2>2 DEF Settled, Begun, TellsNow
  <2> QED BY <1>2, <2>2, <2>3 DEF DumpInv
<1>4. CASE ~ Finish
  <2>1. TextNext
    BY <1>1, <1>4, TextMoves
  <2>2. Settled'
    BY <1>1, <1>2, <2>1, SettledNext
  <2>3. k_str' # <<>>
    <3>1. Starts(k_str', Begun')
      BY <2>1 DEF TextNext, Sound
    <3> QED BY <3>1 DEF Starts
  <2>4. TellsNext(Begins(b))
    <3>1. CASE k_str = <<>>
      <4>1. dump = <<>> /\ unit # <<>> /\ b = Head(unit)
        BY <3>1 DEF DumpInv
      <4>2. DumpFuncDef
        BY <1>4, <4>1 DEF Next, Running, RunningStmt, DumpFuncEnd, DumpBlockItem, DumpBlockEnd,
           DumpVarDef, DumpAssign, DumpIndex, DumpAddress, DumpElemPtr, DumpElem, DumpStore, DumpNested, DumpIf, DumpThen,
           DumpThenElse, DumpJoin, DumpWhile, DumpWhileBody, DumpLoopExit, DumpReturn, DumpRet,
           DumpLeaf, DumpLogic, DumpLogicRhs, DumpLogicOp
      <4> QED BY <1>1, <3>1, <4>1, <4>2, TellFirst DEF Begins
    <3>2. CASE k_str # <<>>
      <4>1. TellsNow(Begins(b))
        BY <3>2 DEF DumpInv
      <4> QED BY <1>1, <1>4, <3>2, <4>1, TellStep
    <3> QED BY <3>1, <3>2
  <2>5. TellsNow(Begins(b))'
    BY <2>4 DEF TellsNow, TellsNext, Begins
  <2> QED BY <1>2, <2>2, <2>3, <2>5 DEF DumpInv
<1> QED BY <1>3, <1>4

-----------------------------------------------------------------------------
(* The invariant while running *)

\* One of two states comes after the other.
Meets(a, b) == Reaches(a, b) \/ Reaches(b, a)

LEMMA MeetsOn ==
  ASSUME NEW a, NEW b, NEW c, Meets(a, b), Reaches(a, c)
  PROVE  Meets(c, b) /\ Meets(b, c)
<1>1. CASE Reaches(a, b)
  BY <1>1, OneFuture DEF Meets
<1>2. CASE Reaches(b, a)
  BY <1>2, ReachesThrough DEF Meets
<1> QED BY <1>1, <1>2 DEF Meets

\* The text is finished, and P has the points of its items.
Routed(L, P) ==
  /\ \A i \in 1 .. Len(k_str) : Faithful(k_str[i], P[i], P[i + 1], L)
  /\ DOMAIN L \subseteq Numbers(unused_koopa_label_count)

Inner(i) == i \in 1 .. Len(k_str) /\ k_str[i].op \notin {"fun", "end"}

\* The tree is, or will be, where the point at pc says, or has been there and
\* made only silent steps since.
Abreast(P) ==
  /\ Inner(pc)
  /\ Applies(P[pc], env)
  /\ Meets(State(P[pc], env), <<src, val>>)

Complete == TextInv /\ Settled /\ dump = <<>> /\ k_str # <<>>
Progress == Complete /\ \E L, P : Routed(L, P) /\ Abreast(P)

LEMMA ClosedText ==
  ASSUME Complete
  PROVE  /\ k_str \in Seq(Items) /\ Len(k_str) \in Nat /\ k_str[1].op = "fun"
         /\ k_str[Len(k_str)].op = "end" /\ Len(k_str) >= 1
         /\ \A i \in 1 .. Len(k_str) - 1 : Follows(k_str[i], k_str[i + 1])
<1>1. /\ k_str \in Seq(Items) /\ k_str[Len(k_str)].op = "end" /\ k_str[1].op = "fun"
      /\ Chained(k_str)
  BY DEF Complete, TextInv, BlockInv, TypeOK, EndOfText, BlocksWellFormed
<1>2. Len(k_str) \in Nat /\ Len(k_str) >= 1
  BY <1>1 DEF Complete
<1> QED BY <1>1, <1>2 DEF Chained

\* Behind an item that goes on to the next one is another such item.
LEMMA NextInner ==
  ASSUME Complete, NEW i, Inner(i), ~ IsTerminator(k_str[i])
  PROVE  Inner(i + 1)
<1>1. i \in 1 .. Len(k_str) - 1
  BY ClosedText DEF Inner
<1>2. Follows(k_str[i], k_str[i + 1])
  BY <1>1, ClosedText
<1>3. k_str[i + 1].op \notin {"fun", "end"}
  BY <1>2 DEF Follows, Inner
<1> QED BY <1>1, <1>3 DEF Inner

\* The body begins with the second item.
LEMMA FirstInner ==
  ASSUME Complete
  PROVE  Inner(2)
<1>1. k_str[1].op # "end"
  BY ClosedText
<1>2. Len(k_str) # 1
  BY <1>1, ClosedText
<1>3. 1 \in 1 .. Len(k_str) - 1 /\ 2 \in 1 .. Len(k_str)
  BY <1>2, ClosedText
<1>4. Follows(k_str[1], k_str[2])
  BY <1>3, ClosedText
<1>5. k_str[2].op \notin {"fun", "end"}
  BY <1>4, ClosedText DEF Follows, IsTerminator
<1> QED BY <1>3, <1>5 DEF Inner

\* Every label that an item refers to is in the text, at the point that L says.
LEMMA TargetIs ==
  ASSUME Complete, NEW L, NEW P, Routed(L, P), NEW i, Inner(i), NEW l \in Range(k_str[i].to)
  PROVE  Inner(Target(l)) /\ P[Target(l)] = L[l]
<1>1. k_str \in Seq(Items) /\ i \in 1 .. Len(k_str) /\ DOMAIN k_str = 1 .. Len(k_str)
  BY ClosedText DEF Inner
<1>2. l \in WrittenIn(k_str, 1)
  BY <1>1, ClosedSettled DEF Complete
<1>3. \E j \in DOMAIN k_str : k_str[j].op = "label" /\ k_str[j].dst = l
  BY <1>1, <1>2 DEF WrittenIn
<1> PICK t : t = Target(l)
  OBVIOUS
<1>4. t \in 1 .. Len(k_str) /\ k_str[t].op = "label" /\ k_str[t].dst = l
  BY <1>1, <1>3 DEF Target
<1>5. l \in DOMAIN L
  BY <1>1 DEF Routed, Faithful
<1>6. l # Entry
  BY <1>5 DEF Routed, Numbers, Entry
<1>7. P[t] = L[l]
  BY <1>4, <1>6 DEF Routed, Faithful
<1> QED BY <1>4, <1>7 DEF Inner

\* The IR makes a silent step.
LEMMA IrMoves ==
  ASSUME Complete, NEW L, NEW P, Routed(L, P), Abreast(P), ~ IrReady, IrSilent
  PROVE  /\ Inner(pc') /\ Applies(P[pc'], env')
         /\ Meets(<<src, val>>, State(P[pc'], env'))
<1> PICK it, l : it = It /\ l = Chosen(it, env)
  OBVIOUS
<1>1. Inner(pc) /\ Applies(P[pc], env) /\ Meets(State(P[pc], env), <<src, val>>)
  BY DEF Abreast
<1>2. it = k_str[pc] /\ it.op \notin {"fun", "end"} /\ ~ IsEvent(it)
  BY <1>1 DEF It, Inner, IrReady
<1>3. Faithful(it, P[pc], P[pc + 1], L)
  BY <1>1, <1>2 DEF Routed, Inner
<1>4. KeepsState(it, P[pc], IF it.op \in {"jump", "br"} THEN L[l] ELSE P[pc + 1], env)
  BY <1>1, <1>2, <1>3 DEF Faithful
<1>5. Inner(pc') /\ P[pc'] = IF it.op \in {"jump", "br"} THEN L[l] ELSE P[pc + 1]
  <2>1. CASE it.op \in {"jump", "br"}
    <3>1. l \in Range(it.to)
      BY <1>3, <2>1 DEF Faithful
    <3>2. pc' = Target(l)
      BY <2>1 DEF IrSilent
    <3>3. l \in Range(k_str[pc].to)
      BY <1>2, <3>1
    <3>4. Inner(Target(l)) /\ P[Target(l)] = L[l]
      BY <1>1, <3>3, TargetIs
    <3> QED BY <2>1, <3>2, <3>4
  <2>2. CASE it.op \notin {"jump", "br"}
    <3>1. pc' = pc + 1
      BY <2>2 DEF IrSilent
    <3>2. ~ IsTerminator(k_str[pc])
      BY <1>2, <2>2 DEF IsTerminator, IsEvent
    <3> QED BY <1>1, <2>2, <3>1, <3>2, NextInner
  <2> QED BY <2>1, <2>2
<1>6. env' = Written(it, env)
  BY DEF IrSilent
<1>7. Applies(P[pc'], env') /\ Reaches(State(P[pc], env), State(P[pc'], env'))
  BY <1>4, <1>5, <1>6 DEF KeepsState
<1> QED BY <1>1, <1>5, <1>7, MeetsOn

\* The tree makes a silent step.
LEMMA TreeMoves ==
  ASSUME ~ SrcReady, SrcSilent
  PROVE  Reaches(<<src, val>>, <<src', val'>>)
<1> PICK a, b : a = <<src, val>> /\ b = After(src, val)
  BY Zenon
<1>1. a[1] = src /\ a[2] = val /\ ~ AtEvent(a[1])
  BY DEF SrcReady
<1>2. b = <<b[1], b[2]>>
  BY Zenon DEF After
<1>3. b = <<src', val'>>
  BY <1>2 DEF SrcSilent
<1> QED BY <1>1, <1>3, ReachesNext, Zenon

\* Both are at their next events.
LEMMA BothAtEvent ==
  ASSUME Complete, NEW L, NEW P, Routed(L, P), Abreast(P), IrReady, SrcReady
  PROVE  /\ EventOf(It, env) = SourceEvent(src, val)
         /\ It.op = "ins" =>
              \A v : /\ Applies(P[pc + 1], Bind(env, It.dst, v))
                     /\ Reaches(<<Tail(src), v>>, State(P[pc + 1], Bind(env, It.dst, v)))
         /\ It.op = "store" => /\ Applies(P[pc + 1], env)
                               /\ Reaches(<<Tail(src), 0>>, State(P[pc + 1], env))
<1> PICK it, y : it = It /\ y = <<src, val>>
  BY Zenon
<1>1. Inner(pc) /\ Applies(P[pc], env) /\ Meets(State(P[pc], env), y)
  BY DEF Abreast
<1>2. it = k_str[pc] /\ it.op \notin {"fun", "end"} /\ IsEvent(it)
  BY <1>1 DEF It, Inner, IrReady
<1>3. Faithful(it, P[pc], P[pc + 1], L)
  BY <1>1, <1>2 DEF Routed, Inner
<1>4. AnswersEvent(it, P[pc], P[pc + 1], env)
  BY <1>1, <1>2, <1>3 DEF Faithful
<1>5. PICK s : /\ Reaches(State(P[pc], env), s) /\ AtEvent(s[1])
               /\ EventOf(it, env) = SourceEvent(s[1], s[2])
               /\ it.op = "ins" =>
                    \A v : /\ Applies(P[pc + 1], Bind(env, it.dst, v))
                           /\ Reaches(<<Tail(s[1]), v>>, State(P[pc + 1], Bind(env, it.dst, v)))
               /\ it.op = "store" =>
                    /\ Applies(P[pc + 1], env)
                    /\ Reaches(<<Tail(s[1]), 0>>, State(P[pc + 1], env))
  BY <1>4, Zenon DEF AnswersEvent
<1>6. Meets(s, y)
  BY <1>1, <1>5, MeetsOn
<1>7. AtEvent(y[1])
  BY DEF SrcReady
<1>8. s = y
  BY <1>5, <1>6, <1>7, ReachesStop DEF Meets
<1>9. s[1] = src /\ s[2] = val
  BY <1>8
<1> QED BY <1>5, <1>9

\* The states in which the source and the text are when they are started.
LEMMA BeginsState ==
  ASSUME NEW b \in Blocks, NEW e
  PROVE  Applies(Begins(b), e) /\ State(Begins(b), e) = <<<<BlockF(b)>>, 0>>
<1> PICK g, c : g = BlockF(b) /\ c = Cons(g, <<>>)
  OBVIOUS
<1>1. g \in Marks /\ g.at = "Block" /\ <<>> \in Seq(Marks)
  BY MarkType
<1>2. Concrete(g, e) = g /\ MarkHolds(g, e)
  BY <1>1, ConcreteAt DEF MarkHolds
<1>3. StackHolds(c, e)
  BY <1>1, <1>2, EmptyStack, HoldsCons, Zenon
<1>4. Stack(c, e) = <<g>>
  <2>1. Stack(c, e) = <<Concrete(g, e)>> \o Stack(<<>>, e)
    BY <1>1, StackOne, Zenon
  <2>2. <<g>> \o <<>> = <<g>>
    OBVIOUS
  <2> QED BY <1>2, <2>1, <2>2, EmptyStack
<1>5. Begins(b) = Point(c, Imm(0))
  BY DEF Begins
<1>6. Value(Imm(0), e) = 0 /\ Has(Imm(0), e)
  BY ImmValue
<1> QED BY <1>3, <1>4, <1>5, <1>6, PointState

RunInv ==
  IF running THEN Progress
  ELSE \E b \in Blocks : DumpInv(b) /\ src = <<BlockF(b)>> /\ val = 0

LEMMA RunStarts == RunInit => RunInv
<1> SUFFICES ASSUME RunInit PROVE RunInv
  OBVIOUS
<1>1. /\ Init /\ ~ running /\ src = <<BlockF(Head(unit))>> /\ val = 0
  BY DEF RunInit
<1>2. unit \in Seq(Blocks) /\ unit # <<>> /\ k_str = <<>> /\ dump = <<>> /\ data = Imm(0)
  BY <1>1, Grammar, HasFunction DEF Init
<1>3. Head(unit) \in Blocks
  BY <1>2
<1>4. TextInv /\ Old(data, unused_koopa_count) /\ Settled
  BY <1>1, <1>2, TextInit DEF Old, Imm, Settled
<1>5. DumpInv(Head(unit))
  BY <1>2, <1>4 DEF DumpInv
<1> QED BY <1>1, <1>3, <1>5 DEF RunInv

\* Nothing but the two executions moves.
LEMMA TextStays ==
  ASSUME Complete, UNCHANGED vars
  PROVE  /\ Complete' /\ \A L, P : Routed(L, P) => Routed(L, P)'
         /\ \A i : Inner(i) => Inner(i)'
<1>1. /\ k_str' = k_str /\ dump' = dump
      /\ unused_koopa_label_count' = unused_koopa_label_count
  BY DEF vars, counts
<1>2. TextInv'
  BY TextInvNext DEF Complete
<1>3. Settled'
  BY <1>1 DEF Complete, Settled, Begun
<1>4. \A L, P : Routed(L, P) => Routed(L, P)'
  BY <1>1 DEF Routed
<1>5. \A i : Inner(i) => Inner(i)'
  BY <1>1 DEF Inner
<1> QED BY <1>1, <1>2, <1>3, <1>4, <1>5 DEF Complete

LEMMA ProgressStart ==
  ASSUME RunInv, Start
  PROVE  Progress'
<1>1. ~ running /\ unit = <<>> /\ dump = <<>> /\ pc' = 2 /\ UNCHANGED vars
      /\ env' = env /\ src' = src /\ val' = val
  BY DEF Start, Dumped
<1>2. PICK b \in Blocks : DumpInv(b) /\ src = <<BlockF(b)>> /\ val = 0
  BY <1>1 DEF RunInv
<1>3. k_str # <<>> /\ TextInv /\ Settled /\ TellsNow(Begins(b))
  BY <1>1, <1>2 DEF DumpInv
<1>4. Complete
  BY <1>1, <1>3 DEF Complete
<1>5. PICK L : \E c \in Seq(Marks) : /\ Trail(k_str, L, Begins(b), Point(c, Now(dump, data, unused_koopa_count)))
                                     /\ DOMAIN L \subseteq Numbers(unused_koopa_label_count)
  BY <1>3 DEF TellsNow, Tells
<1>6. PICK P : P[2] = Begins(b) /\ \A i \in 1 .. Len(k_str) : Faithful(k_str[i], P[i], P[i + 1], L)
  BY <1>5 DEF Trail
<1>7. Routed(L, P)
  BY <1>5, <1>6 DEF Routed
<1>8. Inner(2)
  BY <1>4, FirstInner
<1>9. Applies(P[2], env) /\ Meets(State(P[2], env), <<src, val>>)
  BY <1>2, <1>6, BeginsState, ReachesSame DEF Meets
<1>10. Abreast(P)'
  BY <1>1, <1>4, <1>8, <1>9, TextStays DEF Abreast
<1> QED BY <1>1, <1>4, <1>7, <1>10, TextStays DEF Progress

LEMMA ProgressSilent ==
  ASSUME Progress, Silent
  PROVE  Progress'
<1>1. Complete /\ UNCHANGED vars
  BY DEF Progress, Silent
<1>2. PICK L, P : Routed(L, P) /\ Abreast(P)
  BY DEF Progress
<1>3. /\ Inner(pc') /\ Applies(P[pc'], env')
      /\ Meets(<<src, val>>, State(P[pc'], env'))
  <2>1. CASE IrReady
    <3>1. pc' = pc /\ env' = env
      BY <2>1 DEF Silent
    <3> QED BY <1>2, <3>1 DEF Abreast, Meets
  <2>2. CASE ~ IrReady
    <3>1. IrSilent
      BY <2>2 DEF Silent
    <3> QED BY <1>1, <1>2, <2>2, <3>1, IrMoves
  <2> QED BY <2>1, <2>2
<1>4. Meets(State(P[pc'], env'), <<src', val'>>)
  <2>1. CASE SrcReady
    <3>1. src' = src /\ val' = val
      BY <2>1 DEF Silent
    <3> QED BY <1>3, <3>1 DEF Meets
  <2>2. CASE ~ SrcReady
    <3>1. SrcSilent
      BY <2>2 DEF Silent
    <3>2. Reaches(<<src, val>>, <<src', val'>>)
      BY <2>2, <3>1, TreeMoves
    <3> QED BY <1>3, <3>2, MeetsOn
  <2> QED BY <2>1, <2>2
<1>5. Abreast(P)'
  BY <1>1, <1>3, <1>4, TextStays DEF Abreast
<1> QED BY <1>1, <1>2, <1>5, TextStays DEF Progress

LEMMA ProgressEvent ==
  ASSUME Progress, Event
  PROVE  Progress'
<1>1. /\ Complete /\ UNCHANGED vars /\ IrReady /\ SrcReady /\ It.op # "ret" /\ pc' = pc + 1
      /\ src' = Tail(src)
  BY DEF Progress, Event
<1>2. PICK L, P : Routed(L, P) /\ Abreast(P)
  BY DEF Progress
<1>3. /\ It.op = "ins" =>
           \A v : /\ Applies(P[pc + 1], Bind(env, It.dst, v))
                  /\ Reaches(<<Tail(src), v>>, State(P[pc + 1], Bind(env, It.dst, v)))
      /\ It.op = "store" => /\ Applies(P[pc + 1], env)
                            /\ Reaches(<<Tail(src), 0>>, State(P[pc + 1], env))
  BY <1>1, <1>2, BothAtEvent, Zenon
<1>4. It.op \in {"ins", "store"}
  BY <1>1 DEF IrReady, IsEvent
<1>5. Inner(pc')
  <2>1. Inner(pc) /\ ~ IsTerminator(k_str[pc])
    BY <1>2, <1>4 DEF Abreast, It, IsTerminator
  <2> QED BY <1>1, <2>1, NextInner
<1>6. Applies(P[pc'], env') /\ Reaches(<<src', val'>>, State(P[pc'], env'))
  <2>1. CASE It.op = "ins"
    <3>1. PICK v \in Values : env' = Bind(env, It.dst, v) /\ val' = v
      BY <2>1 DEF Event
    <3> QED BY <1>1, <1>3, <2>1, <3>1
  <2>2. CASE It.op = "store"
    <3>1. env' = env /\ val' = 0
      BY <2>2 DEF Event
    <3> QED BY <1>1, <1>3, <2>2, <3>1
  <2> QED BY <1>4, <2>1, <2>2
<1>7. Abreast(P)'
  BY <1>1, <1>5, <1>6, TextStays DEF Abreast, Meets
<1> QED BY <1>1, <1>2, <1>7, TextStays DEF Progress

LEMMA ProgressStays ==
  ASSUME Progress, UNCHANGED <<vars, runVars>>
  PROVE  Progress'
<1>1. Complete /\ UNCHANGED vars /\ pc' = pc /\ env' = env /\ src' = src /\ val' = val
  BY DEF Progress, runVars
<1>2. PICK L, P : Routed(L, P) /\ Abreast(P)
  BY DEF Progress
<1>3. Abreast(P)'
  BY <1>1, <1>2, TextStays DEF Abreast
<1> QED BY <1>1, <1>2, <1>3, TextStays DEF Progress

LEMMA DumpingStays ==
  ASSUME NEW b \in Blocks, DumpInv(b), UNCHANGED vars
  PROVE  DumpInv(b)'
<1>1. /\ k_str' = k_str /\ dump' = dump /\ data' = data /\ unit' = unit
      /\ unused_koopa_count' = unused_koopa_count
      /\ unused_koopa_label_count' = unused_koopa_label_count
  BY DEF vars, counts
<1>2. TextInv'
  BY TextInvNext DEF DumpInv
<1>3. Settled' /\ (TellsNow(Begins(b)) => TellsNow(Begins(b))')
  BY <1>1 DEF DumpInv, Settled, Begun, TellsNow
<1> QED BY <1>1, <1>2, <1>3 DEF DumpInv

LEMMA RunInvNext == RunInv /\ [RunNext]_<<vars, runVars>> => RunInv'
<1> SUFFICES ASSUME RunInv, [RunNext]_<<vars, runVars>> PROVE RunInv'
  OBVIOUS
<1>1. CASE DumpStep
  <2>1. ~ running /\ ~ running' /\ Next /\ src' = src /\ val' = val
    BY <1>1 DEF DumpStep, runVars
  <2>2. PICK b \in Blocks : DumpInv(b) /\ src = <<BlockF(b)>> /\ val = 0
    BY <2>1 DEF RunInv
  <2>3. DumpInv(b)'
    BY <2>1, <2>2, DumpInvNext
  <2> QED BY <2>1, <2>2, <2>3 DEF RunInv
<1>2. CASE Start
  <2>1. running'
    BY <1>2 DEF Start
  <2> QED BY <1>2, <2>1, ProgressStart DEF RunInv
<1>3. CASE Silent \/ Event
  <2>1. running /\ running'
    BY <1>3 DEF Silent, Event
  <2>2. Progress
    BY <2>1 DEF RunInv
  <2> QED BY <1>3, <2>1, <2>2, ProgressSilent, ProgressEvent DEF RunInv
<1>4. CASE Over \/ UNCHANGED <<vars, runVars>>
  <2>1. UNCHANGED <<vars, runVars>>
    BY <1>4 DEF Over
  <2>2. UNCHANGED vars /\ (running' <=> running) /\ src' = src /\ val' = val
    BY <2>1 DEF runVars
  <2>3. CASE running
    BY <2>1, <2>2, <2>3, ProgressStays DEF RunInv
  <2>4. CASE ~ running
    <3>1. PICK b \in Blocks : DumpInv(b) /\ src = <<BlockF(b)>> /\ val = 0
      BY <2>4 DEF RunInv
    <3>2. DumpInv(b)'
      BY <2>2, <3>1, DumpingStays
    <3> QED BY <2>2, <2>4, <3>1, <3>2 DEF RunInv
  <2> QED BY <2>3, <2>4
<1> QED BY <1>1, <1>2, <1>3, <1>4 DEF RunNext

LEMMA RunTells == RunInv => SameEvents
<1> SUFFICES ASSUME RunInv, running, IrReady, SrcReady PROVE IrEvent = SrcEvent
  BY DEF SameEvents
<1>1. Progress
  BY DEF RunInv
<1>2. Complete
  BY <1>1 DEF Progress
<1>3. PICK L, P : Routed(L, P) /\ Abreast(P)
  BY <1>1 DEF Progress
<1> QED BY <1>2, <1>3, BothAtEvent DEF IrEvent, SrcEvent

\* The program the compiler writes does what the source says, for every grammar,
\* every program, every nesting of statements and every value that the leaf
\* expressions can have: both make the same events, with the same values, as
\* long as they run.
THEOREM RunsAlike ==
  RunSpec => []SameEvents
<1> QED BY RunStarts, RunInvNext, RunTells, PTL DEF RunSpec

\* Whatever is proved of dumping holds when the text is run as well: a run
\* makes the steps of the dumping, and then leaves its state alone.
THEOREM RunDumps ==
  RunSpec => Spec
<1>1. RunInit => Init
  BY DEF RunInit
<1>2. [RunNext]_<<vars, runVars>> => [Next]_vars
  BY DEF RunNext, DumpStep, Start, Silent, Event, Over
<1> QED BY <1>1, <1>2, PTL DEF RunSpec, Spec
=============================================================================
