-------------------------- MODULE ParserStacksProofs --------------------------
(***************************************************************************)
(* The lists of sysy.y come apart: whatever rules lie inside one another,  *)
(* and however many of them are open, the static stacks and vectors hold   *)
(* the members of the open rules and nothing else, and a list node gets    *)
(* the members of its own rule.  A step begins a rule, recognises a part   *)
(* of the innermost one, or reduces it; Accounted is what all three leave  *)
(* true, stated of the open rules and the static variables as values, so   *)
(* that one lemma serves every action of a kind.                           *)
(***************************************************************************)
EXTENDS ParserStacks, Facts

\* The rules that keep a list in a vector that is no stack of vectors, or in
\* which nothing but an expression or a list of such can begin.
Inner == {"ConstDef", "VarDef", "ConstInitVal", "InitVal", "LVal", "FuncRParams", "FuncFParam"}
Lists == Inner \cup {"ConstDecl", "VarDecl", "FuncFParams"}
ParamRules == {"FuncRParams", "FuncFParams"}

\* What can lie inside what.
Nested(p) ==
  /\ \A i, j \in 1 .. Len(p) : i < j /\ p[i].rule \in Lists => p[j].rule \in Inner
  /\ \A i \in 1 .. Len(p) : p[i].rule = "CompUnit" <=> i = 1
  /\ \A i \in 1 .. Len(p) : i # Len(p) /\ p[i].rule \in ParamRules => p[i].done = 0

Bounded(f) == IF f.rule \in ParamRules THEN f.vals = <<>> => f.done = 0 ELSE f.done <= 3

\* OwnVectors and OwnMembers of one stack, or one vector, of the open rules p.
HoldersIn(p, s, n) == {i \in 1 .. n : HasVec(p[i], s)}
Held(p, s, t) ==
  /\ Len(t) = Cardinality(HoldersIn(p, s, Len(p)))
  /\ \A i \in HoldersIn(p, s, Len(p)) : t[Cardinality(HoldersIn(p, s, i))] = p[i].vals

Users(p, v) == {i \in 1 .. Len(p) : p[i].rule = VecRule[v] /\ VecOf(p[i]) # <<>>}
Kept(p, v, t) ==
  IF Users(p, v) = {} THEN t = <<>> ELSE \E i \in Users(p, v) : Users(p, v) = {i} /\ t = VecOf(p[i])

\* The stacks st and the vectors ve hold the members of the open rules p.
Accounted(p, st, ve) ==
  /\ p \in Seq(Frames) /\ Nested(p) /\ \A i \in 1 .. Len(p) : Bounded(p[i])
  /\ st \in [StackNames -> Seq(Seq(Values))] /\ \A s \in StackNames : Held(p, s, st[s])
  /\ ve \in [VecNames -> Seq(Values)] /\ \A v \in VecNames : Kept(p, v, ve[v])

Inv ==
  /\ Accounted(parse, stack, vec)
  /\ val \in Values \cup {NoValue} /\ node \in Nodes /\ next \in Nat
  /\ ListsAreSource
-----------------------------------------------------------------------------
(* Sequences and their ends *)

LEMMA Ends ==
  ASSUME NEW S, NEW s \in Seq(S), s # <<>>
  PROVE  /\ Len(s) \in Nat \ {0} /\ Last(s) = s[Len(s)] /\ Last(s) \in S
         /\ Front(s) \in Seq(S) /\ Len(Front(s)) = Len(s) - 1
         /\ \A i \in 1 .. Len(s) - 1 : Front(s)[i] = s[i]
<1>1. Len(s) \in Nat \ {0} /\ \A i \in 1 .. Len(s) : s[i] \in S
  BY EmptySeq
<1>2. /\ SubSeq(s, 1, Len(s) - 1) \in Seq(S)
      /\ Len(SubSeq(s, 1, Len(s) - 1)) = Len(s) - 1
      /\ \A i \in 1 .. Len(s) - 1 : SubSeq(s, 1, Len(s) - 1)[i] = s[i]
  <2>1. PICK n \in Int : n = Len(s) - 1
    BY <1>1
  <2>2. 1 \in Int /\ \A i \in 1 .. n : s[i] \in S
    BY <1>1, <2>1
  <2>3. /\ SubSeq(s, 1, n) \in Seq(S)
        /\ Len(SubSeq(s, 1, n)) = IF 1 <= n THEN n - 1 + 1 ELSE 0
        /\ \A i \in 1 .. n - 1 + 1 : SubSeq(s, 1, n)[i] = s[1 + i - 1]
    BY <2>2, SubSeqProperties
  <2>4. n \in Nat /\ n - 1 + 1 = n /\ \A i \in 1 .. n : 1 + i - 1 = i
    BY <1>1, <2>1
  <2> QED BY <2>1, <2>3, <2>4
<1> QED BY <1>1, <1>2 DEF Front, Last

LEMMA Appended ==
  ASSUME NEW S, NEW s \in Seq(S), NEW a \in S
  PROVE  /\ Append(s, a) \in Seq(S) /\ Append(s, a) # <<>>
         /\ Len(s) \in Nat /\ Len(Append(s, a)) = Len(s) + 1
         /\ \A i \in 1 .. Len(s) : Append(s, a)[i] = s[i]
         /\ Append(s, a)[Len(s) + 1] = a
  OBVIOUS

\* The last element is replaced.
LEMMA Replaced ==
  ASSUME NEW S, NEW s \in Seq(S), s # <<>>, NEW a \in S
  PROVE  /\ Append(Front(s), a) \in Seq(S) /\ Append(Front(s), a) # <<>>
         /\ Len(s) \in Nat \ {0} /\ Len(Append(Front(s), a)) = Len(s)
         /\ \A i \in 1 .. Len(s) - 1 : Append(Front(s), a)[i] = s[i]
         /\ Append(Front(s), a)[Len(s)] = a
<1>1. /\ Front(s) \in Seq(S) /\ Len(Front(s)) = Len(s) - 1 /\ Len(s) \in Nat \ {0}
      /\ \A i \in 1 .. Len(s) - 1 : Front(s)[i] = s[i]
  BY Ends
<1> QED BY <1>1, Appended

LEMMA FrontLast ==
  ASSUME NEW S, NEW s \in Seq(S), s # <<>>
  PROVE  s = Append(Front(s), Last(s))
<1>1. /\ Append(Front(s), Last(s)) \in Seq(S) /\ Len(Append(Front(s), Last(s))) = Len(s)
      /\ \A i \in 1 .. Len(s) - 1 : Append(Front(s), Last(s))[i] = s[i]
      /\ Append(Front(s), Last(s))[Len(s)] = s[Len(s)] /\ Len(s) \in Nat \ {0}
  BY Ends, Replaced
<1>2. \A i \in 1 .. Len(s) : Append(Front(s), Last(s))[i] = s[i]
  BY <1>1
<1> QED BY <1>1, <1>2, SeqEqual

LEMMA TailAppended ==
  ASSUME NEW S, NEW s \in Seq(S), s # <<>>, NEW a \in S
  PROVE  Tail(Append(s, a)) = Append(Tail(s), a)
<1> DEFINE t == Append(s, a)
           u == Append(Tail(s), a)
<1>1. /\ Tail(s) \in Seq(S) /\ Len(Tail(s)) = Len(s) - 1 /\ Len(s) \in Nat \ {0}
      /\ \A i \in 1 .. Len(s) - 1 : Tail(s)[i] = s[i + 1]
  BY HeadTailProperties, EmptySeq
<1>2. /\ t \in Seq(S) /\ t # <<>> /\ Len(t) = Len(s) + 1 /\ t[Len(s) + 1] = a
      /\ \A i \in 1 .. Len(s) : t[i] = s[i]
  BY Appended
<1>3. /\ u \in Seq(S) /\ Len(u) = Len(s) /\ u[Len(s)] = a
      /\ \A i \in 1 .. Len(s) - 1 : u[i] = Tail(s)[i]
  BY <1>1, Appended
<1> HIDE DEF t, u
<1>4. /\ Tail(t) \in Seq(S) /\ Len(Tail(t)) = Len(s)
      /\ \A i \in 1 .. Len(s) : Tail(t)[i] = t[i + 1]
  BY <1>1, <1>2, HeadTailProperties
<1>5. \A i \in 1 .. Len(s) : Tail(t)[i] = u[i]
  BY <1>1, <1>2, <1>3, <1>4
<1>6. Tail(t) = u
  BY <1>3, <1>4, <1>5, SeqEqual
<1> QED BY <1>6 DEF t, u

LEMMA EmptyFunction == \A f : f = [k \in 1 .. 0 |-> f[k]] => f = <<>>
<1> SUFFICES ASSUME NEW f, f = [k \in 1 .. 0 |-> f[k]] PROVE f = <<>>
  OBVIOUS
<1>1. f \in Seq({}) /\ Len(f) = 0
  OBVIOUS
<1> QED BY <1>1, EmptySeq

(* The rules that hold a vector *)

LEMMA HoldersCount ==
  ASSUME NEW p, NEW s, NEW n \in Nat
  PROVE  /\ HoldersIn(p, s, n) \in SUBSET (1 .. n) /\ IsFiniteSet(HoldersIn(p, s, n))
         /\ Cardinality(HoldersIn(p, s, n)) \in 0 .. n
         /\ Cardinality(HoldersIn(p, s, n + 1))
              = Cardinality(HoldersIn(p, s, n)) + (IF HasVec(p[n + 1], s) THEN 1 ELSE 0)
         /\ Cardinality(HoldersIn(p, s, 0)) = 0
<1>1. HoldersIn(p, s, n) \in SUBSET (1 .. n)
  BY DEF HoldersIn
<1>2. IsFiniteSet(HoldersIn(p, s, n)) /\ Cardinality(HoldersIn(p, s, n)) \in 0 .. n
  <2>1. IsFiniteSet(1 .. n) /\ Cardinality(1 .. n) = n
    BY FS_Interval
  <2> QED BY <1>1, <2>1, FS_Subset, FS_CardinalityType
<1>3. /\ HasVec(p[n + 1], s) => HoldersIn(p, s, n + 1) = HoldersIn(p, s, n) \cup {n + 1}
      /\ ~ HasVec(p[n + 1], s) => HoldersIn(p, s, n + 1) = HoldersIn(p, s, n)
  BY DEF HoldersIn
<1>4. n + 1 \notin HoldersIn(p, s, n)
  BY <1>1
<1>5. Cardinality(HoldersIn(p, s, n) \cup {n + 1}) = Cardinality(HoldersIn(p, s, n)) + 1
  BY <1>2, <1>4, FS_AddElement
<1>6. HoldersIn(p, s, 0) = {}
  BY DEF HoldersIn
<1>7. Cardinality(HoldersIn(p, s, 0)) = 0
  BY <1>6, FS_EmptySet
<1>8. CASE HasVec(p[n + 1], s)
  BY <1>1, <1>2, <1>3, <1>5, <1>7, <1>8
<1>9. CASE ~ HasVec(p[n + 1], s)
  BY <1>1, <1>2, <1>3, <1>7, <1>9
<1> QED BY <1>8, <1>9

\* Each vector is below those of the rules begun later.
LEMMA HoldersOrdered ==
  ASSUME NEW p, NEW s, NEW n \in Nat, NEW i \in HoldersIn(p, s, n)
  PROVE  /\ i \in 1 .. n /\ HasVec(p[i], s)
         /\ Cardinality(HoldersIn(p, s, i)) \in 1 .. Cardinality(HoldersIn(p, s, n))
         /\ \A j \in HoldersIn(p, s, n) : i < j =>
              Cardinality(HoldersIn(p, s, i)) < Cardinality(HoldersIn(p, s, j))
<1>1. i \in 1 .. n /\ HasVec(p[i], s)
  BY DEF HoldersIn
<1>2. ASSUME NEW j \in HoldersIn(p, s, n), i < j
      PROVE  Cardinality(HoldersIn(p, s, i)) < Cardinality(HoldersIn(p, s, j))
  <2>1. j \in HoldersIn(p, s, j) /\ j \notin HoldersIn(p, s, i) /\ j \in Nat
    BY <1>1, <1>2 DEF HoldersIn
  <2>2. HoldersIn(p, s, i) \in SUBSET HoldersIn(p, s, j)
    BY <1>1, <1>2 DEF HoldersIn
  <2>3. IsFiniteSet(HoldersIn(p, s, j)) /\ Cardinality(HoldersIn(p, s, j)) \in Nat
    BY <2>1, HoldersCount
  <2>4. Cardinality(HoldersIn(p, s, i)) \in Nat
    BY <1>1, HoldersCount
  <2> QED BY <2>1, <2>2, <2>3, <2>4, FS_Subset
<1>3. Cardinality(HoldersIn(p, s, i)) \in 1 .. Cardinality(HoldersIn(p, s, n))
  <2>1. HoldersIn(p, s, i) \in SUBSET HoldersIn(p, s, n) /\ i \in HoldersIn(p, s, i)
    BY <1>1 DEF HoldersIn
  <2>2. /\ IsFiniteSet(HoldersIn(p, s, n)) /\ Cardinality(HoldersIn(p, s, n)) \in Nat
        /\ IsFiniteSet(HoldersIn(p, s, i)) /\ Cardinality(HoldersIn(p, s, i)) \in Nat
    BY <1>1, HoldersCount
  <2> QED BY <2>1, <2>2, FS_Subset, FS_EmptySet
<1> QED BY <1>1, <1>2, <1>3

LEMMA HoldersSame ==
  ASSUME NEW p, NEW q, NEW s, NEW n \in Nat,
         \A i \in 1 .. n : HasVec(q[i], s) <=> HasVec(p[i], s)
  PROVE  \A m \in 0 .. n : HoldersIn(q, s, m) = HoldersIn(p, s, m)
  BY DEF HoldersIn
-----------------------------------------------------------------------------
(* A rule begins: p becomes Append(p, f) *)

LEMMA HeldBegun ==
  ASSUME NEW p \in Seq(Frames), NEW f \in Frames, NEW s, NEW t \in Seq(Seq(Values)),
         Held(p, s, t)
  PROVE  Held(Append(p, f), s, IF HasVec(f, s) THEN Append(t, f.vals) ELSE t)
<1> DEFINE n == Len(p)
           q == Append(p, f)
<1>1. /\ n \in Nat /\ Len(q) = n + 1 /\ q[n + 1] = f /\ \A i \in 1 .. n : q[i] = p[i]
  BY Appended
<1> HIDE DEF q, n
<1>2. \A m \in 0 .. n : HoldersIn(q, s, m) = HoldersIn(p, s, m)
  <2>1. \A i \in 1 .. n : HasVec(q[i], s) <=> HasVec(p[i], s)
    BY <1>1
  <2> QED BY <1>1, <2>1 DEF HoldersIn
<1>3. Cardinality(HoldersIn(q, s, n + 1))
        = Cardinality(HoldersIn(q, s, n)) + (IF HasVec(q[n + 1], s) THEN 1 ELSE 0)
  BY <1>1, HoldersCount
<1>4. Len(t) \in Nat /\ Len(t) = Cardinality(HoldersIn(q, s, n))
  BY <1>1, <1>2 DEF Held, n
<1>5. \A i \in HoldersIn(q, s, n) :
        i \in 1 .. n /\ Cardinality(HoldersIn(q, s, i)) \in 1 .. Len(t)
  BY <1>1, <1>4, HoldersOrdered
<1>6. \A i \in HoldersIn(q, s, n) : t[Cardinality(HoldersIn(q, s, i))] = q[i].vals
  <2> SUFFICES ASSUME NEW i \in HoldersIn(q, s, n)
               PROVE  t[Cardinality(HoldersIn(q, s, i))] = q[i].vals
    OBVIOUS
  <2>1. i \in 1 .. n /\ i \in HoldersIn(p, s, n)
    BY <1>1, <1>2, <1>5
  <2>2. HoldersIn(q, s, i) = HoldersIn(p, s, i) /\ q[i] = p[i]
    BY <1>1, <1>2, <2>1
  <2> QED BY <2>1, <2>2 DEF Held, n
<1>7. CASE HasVec(f, s)
  <2> DEFINE u == Append(t, f.vals)
  <2>1. /\ Len(u) = Len(t) + 1 /\ u[Len(t) + 1] = f.vals
        /\ \A i \in 1 .. Len(t) : u[i] = t[i]
    BY Appended DEF Frames
  <2> HIDE DEF u
  <2>2. Len(u) = Cardinality(HoldersIn(q, s, n + 1))
    BY <1>1, <1>3, <1>4, <1>7, <2>1
  <2>3. ASSUME NEW i \in HoldersIn(q, s, n + 1)
        PROVE  u[Cardinality(HoldersIn(q, s, i))] = q[i].vals
    <3>1. CASE i = n + 1
      BY <1>1, <2>1, <2>2, <3>1, <1>3, <1>4, <1>7
    <3>2. CASE i # n + 1
      <4>1. i \in HoldersIn(q, s, n)
        BY <1>1, <3>2 DEF HoldersIn
      <4> QED BY <1>5, <1>6, <2>1, <4>1
    <3> QED BY <3>1, <3>2
  <2> QED BY <1>1, <1>7, <2>2, <2>3 DEF Held, u, q
<1>8. CASE ~ HasVec(f, s)
  <2>1. HoldersIn(q, s, n + 1) = HoldersIn(q, s, n)
    BY <1>1, <1>8 DEF HoldersIn
  <2> QED BY <1>1, <1>4, <1>6, <1>8, <2>1 DEF Held, q
<1> QED BY <1>7, <1>8

LEMMA KeptBegun ==
  ASSUME NEW p \in Seq(Frames), NEW f \in Frames, NEW v, NEW t, Kept(p, v, t),
         f.rule # VecRule[v] \/ VecOf(f) = <<>>
  PROVE  Kept(Append(p, f), v, t)
<1> DEFINE n == Len(p)
           q == Append(p, f)
<1>1. /\ n \in Nat /\ Len(q) = n + 1 /\ q[n + 1] = f /\ \A i \in 1 .. n : q[i] = p[i]
  BY Appended
<1> HIDE DEF q
<1>2. Users(q, v) = Users(p, v) /\ \A i \in Users(p, v) : q[i] = p[i]
  BY <1>1 DEF Users
<1> QED BY <1>2 DEF Kept, q
-----------------------------------------------------------------------------
(* The innermost rule is reduced: p becomes Front(p) *)

LEMMA HeldReduced ==
  ASSUME NEW p \in Seq(Frames), p # <<>>, NEW s, NEW t \in Seq(Seq(Values)), Held(p, s, t)
  PROVE  /\ HasVec(Last(p), s) =>
              t # <<>> /\ Last(t) = Last(p).vals /\ Held(Front(p), s, Front(t))
         /\ ~ HasVec(Last(p), s) => Held(Front(p), s, t)
<1> DEFINE n == Len(p) - 1
           q == Front(p)
<1>0. /\ Len(p) \in Nat \ {0} /\ Last(p) = p[Len(p)] /\ Len(Front(p)) = Len(p) - 1
      /\ \A i \in 1 .. Len(p) - 1 : Front(p)[i] = p[i]
  BY Ends
<1>1. /\ n \in Nat /\ Len(q) = n /\ \A i \in 1 .. n : q[i] = p[i]
      /\ Len(p) = n + 1 /\ Last(p) = p[n + 1]
  BY <1>0
<1> HIDE DEF q, n
<1>2. \A m \in 0 .. n : HoldersIn(q, s, m) = HoldersIn(p, s, m)
  <2>1. \A i \in 1 .. n : HasVec(q[i], s) <=> HasVec(p[i], s)
    BY <1>1
  <2> QED BY <1>1, <2>1 DEF HoldersIn
<1>3. /\ Cardinality(HoldersIn(p, s, n)) \in Nat
      /\ Cardinality(HoldersIn(p, s, n + 1))
           = Cardinality(HoldersIn(p, s, n)) + (IF HasVec(p[n + 1], s) THEN 1 ELSE 0)
  <2>1. /\ Cardinality(HoldersIn(p, s, n)) \in 0 .. n
        /\ Cardinality(HoldersIn(p, s, n + 1))
             = Cardinality(HoldersIn(p, s, n)) + (IF HasVec(p[n + 1], s) THEN 1 ELSE 0)
    BY <1>1, HoldersCount, Zenon
  <2>2. Cardinality(HoldersIn(p, s, n)) \in Nat
    BY <1>1, <2>1
  <2> QED BY <2>1, <2>2
<1>4. /\ Len(t) \in Nat /\ Len(t) = Cardinality(HoldersIn(p, s, n + 1))
      /\ \A i \in HoldersIn(p, s, n + 1) : t[Cardinality(HoldersIn(p, s, i))] = p[i].vals
  BY <1>1 DEF Held
<1>5. ASSUME NEW i \in HoldersIn(q, s, n)
      PROVE  /\ i \in 1 .. n /\ q[i] = p[i]
             /\ Cardinality(HoldersIn(q, s, i)) \in 1 .. Cardinality(HoldersIn(q, s, n))
             /\ t[Cardinality(HoldersIn(q, s, i))] = q[i].vals
  <2>1. /\ i \in 1 .. n
        /\ Cardinality(HoldersIn(q, s, i)) \in 1 .. Cardinality(HoldersIn(q, s, n))
    BY <1>1, <1>5, HoldersOrdered
  <2>2. i \in HoldersIn(p, s, n + 1)
    <3>1. i \in HoldersIn(p, s, n)
      BY <1>1, <1>2, <1>5
    <3> QED BY <1>1, <3>1 DEF HoldersIn
  <2>3. HoldersIn(q, s, i) = HoldersIn(p, s, i) /\ q[i] = p[i]
    BY <1>1, <1>2, <2>1
  <2> QED BY <1>4, <2>1, <2>2, <2>3
<1>6. HoldersIn(q, s, n) = HoldersIn(p, s, n)
  BY <1>1, <1>2
<1>7. CASE HasVec(Last(p), s)
  <2>1. Len(t) = Cardinality(HoldersIn(q, s, n)) + 1
    BY <1>1, <1>3, <1>4, <1>6, <1>7
  <2>2. t # <<>> /\ Cardinality(HoldersIn(q, s, n)) \in Nat
    BY <1>3, <1>6, <2>1, EmptySeq
  <2> DEFINE u == Front(t)
  <2>3. /\ Last(t) = t[Len(t)] /\ Len(u) = Cardinality(HoldersIn(q, s, n))
        /\ \A i \in 1 .. Cardinality(HoldersIn(q, s, n)) : u[i] = t[i]
    <3>1. /\ Last(t) = t[Len(t)] /\ Len(u) = Len(t) - 1
          /\ \A i \in 1 .. Len(t) - 1 : u[i] = t[i]
      BY ONLY t \in Seq(Seq(Values)), <2>2, Ends
    <3>2. Len(t) - 1 = Cardinality(HoldersIn(q, s, n))
      BY <2>1, <2>2
    <3> HIDE DEF u
    <3> QED BY <3>1, <3>2
  <2> HIDE DEF u
  <2>4. Last(t) = Last(p).vals
    <3>1. n + 1 \in HoldersIn(p, s, n + 1)
      BY <1>1, <1>7 DEF HoldersIn
    <3> QED BY <1>1, <1>4, <2>3, <3>1
  <2>5. \A i \in HoldersIn(q, s, n) : u[Cardinality(HoldersIn(q, s, i))] = q[i].vals
    BY <1>5, <2>3
  <2> QED BY <1>1, <1>7, <2>2, <2>3, <2>4, <2>5 DEF Held, u, q
<1>8. CASE ~ HasVec(Last(p), s)
  <2>1. Len(t) = Cardinality(HoldersIn(q, s, n))
    BY <1>1, <1>3, <1>4, <1>6, <1>8
  <2> QED BY <1>1, <1>5, <1>8, <2>1 DEF Held, q
<1> QED BY <1>7, <1>8

\* A member in use is the innermost rule's, when that rule uses this vector.
LEMMA KeptReduced ==
  ASSUME NEW p \in Seq(Frames), p # <<>>, Nested(p), NEW v \in VecNames, NEW t, Kept(p, v, t)
  PROVE  /\ Last(p).rule = VecRule[v] => t = VecOf(Last(p)) /\ Users(Front(p), v) = {}
         /\ Last(p).rule # VecRule[v] => Kept(Front(p), v, t)
<1> DEFINE n == Len(p) - 1
           q == Front(p)
<1>1. /\ n \in Nat /\ Len(q) = n /\ \A i \in 1 .. n : q[i] = p[i]
      /\ Len(p) = n + 1 /\ Last(p) = p[n + 1]
  BY Ends
<1> HIDE DEF q
<1>2. CASE Last(p).rule # VecRule[v]
  <2>1. Users(q, v) = Users(p, v) /\ \A i \in Users(p, v) : q[i] = p[i]
    BY <1>1, <1>2 DEF Users
  <2> QED BY <1>2, <2>1 DEF Kept, q
<1>3. CASE Last(p).rule = VecRule[v]
  <2>1. Users(q, v) = {}
    <3> SUFFICES ASSUME NEW i \in 1 .. n, p[i].rule = VecRule[v], VecOf(p[i]) # <<>> PROVE FALSE
      BY <1>1 DEF Users
    <3>1. i < n + 1 /\ i # Len(p) /\ n + 1 \in 1 .. Len(p) /\ i \in 1 .. Len(p) /\ n + 1 # 1
      BY <1>1
    <3>2. VecRule[v] \in {"CompUnit", "ConstDecl", "VarDecl", "FuncFParams", "FuncRParams"}
      BY DEF VecRule, VecNames
    <3>3. VecRule[v] # "CompUnit"
      BY <1>1, <1>3, <3>1 DEF Nested
    <3>4. VecRule[v] \notin {"ConstDecl", "VarDecl", "FuncFParams"}
      <4>1. VecRule[v] \in Lists => VecRule[v] \in Inner
        BY <1>1, <1>3, <3>1 DEF Nested
      <4> QED BY <4>1 DEF Lists, Inner
    <3>5. p[i].rule = "FuncRParams" /\ p[i].done = 0
      BY <3>1, <3>2, <3>3, <3>4 DEF Nested, ParamRules
    <3>6. VecOf(p[i]) = [k \in 1 .. 0 |-> p[i].vals[Len(p[i].vals) + 1 - k]]
      BY <3>5 DEF VecOf
    <3> QED BY <3>6, EmptyFunction
  <2>2. Users(p, v) = IF VecOf(Last(p)) # <<>> THEN {n + 1} ELSE {}
    <3>1. \A i \in Users(p, v) : i = n + 1
      <4> SUFFICES ASSUME NEW i \in Users(p, v), i # n + 1 PROVE FALSE
        OBVIOUS
      <4>1. i \in Users(q, v)
        BY <1>1 DEF Users
      <4> QED BY <2>1, <4>1
    <3>2. n + 1 \in Users(p, v) <=> VecOf(Last(p)) # <<>>
      BY <1>1, <1>3 DEF Users
    <3> QED BY <3>1, <3>2
  <2>3. t = VecOf(Last(p))
    BY <1>1, <2>2 DEF Kept
  <2> QED BY <1>3, <2>1, <2>3 DEF q
<1> QED BY <1>2, <1>3
-----------------------------------------------------------------------------
(* The three kinds of steps *)

LEMMA NestedSteps ==
  ASSUME NEW p \in Seq(Frames), p # <<>>, Nested(p), NEW f \in Frames
  PROVE  /\ Nested(Front(p))
         /\ f.rule = Last(p).rule => Nested(Append(Front(p), f))
         /\ (/\ f.rule # "CompUnit" /\ (Last(p).rule \in Lists => f.rule \in Inner)
             /\ (Last(p).rule \in ParamRules => Last(p).done = 0)) => Nested(Append(p, f))
<1> DEFINE n == Len(p) - 1
           q == Front(p)
<1>1. /\ n \in Nat /\ Len(q) = n /\ q \in Seq(Frames) /\ \A i \in 1 .. n : q[i] = p[i]
      /\ Len(p) = n + 1 /\ Last(p) = p[n + 1]
  BY Ends
<1> HIDE DEF q, n
<1>2. /\ \A i, j \in 1 .. n + 1 : i < j /\ p[i].rule \in Lists => p[j].rule \in Inner
      /\ \A i \in 1 .. n + 1 : p[i].rule = "CompUnit" <=> i = 1
      /\ \A i \in 1 .. n + 1 : i # n + 1 /\ p[i].rule \in ParamRules => p[i].done = 0
  BY <1>1 DEF Nested
<1>3. Nested(q)
  BY <1>1, <1>2 DEF Nested
<1>4. ASSUME f.rule = Last(p).rule PROVE Nested(Append(q, f))
  <2>1. /\ Len(Append(q, f)) = n + 1 /\ Append(q, f)[n + 1] = f
        /\ \A i \in 1 .. n : Append(q, f)[i] = p[i]
    BY <1>1, Appended
  <2>2. \A i \in 1 .. n + 1 : Append(q, f)[i].rule = p[i].rule
    BY <1>1, <1>4, <2>1
  <2>3. \A i \in 1 .. n + 1 : i # n + 1 => Append(q, f)[i] = p[i]
    BY <1>1, <2>1
  <2> DEFINE r == Append(q, f)
  <2> HIDE DEF r
  <2>4. Nested(r)
    BY <1>1, <1>2, <2>1, <2>2, <2>3 DEF Nested, r
  <2> QED BY <2>4 DEF r
<1>5. ASSUME f.rule # "CompUnit", Last(p).rule \in Lists => f.rule \in Inner,
             Last(p).rule \in ParamRules => Last(p).done = 0
      PROVE  Nested(Append(p, f))
  <2> DEFINE r == Append(p, f)
  <2>1. Len(r) = n + 2 /\ r[n + 2] = f /\ \A i \in 1 .. n + 1 : r[i] = p[i]
    BY <1>1, Appended
  <2> HIDE DEF r
  <2>2. ASSUME NEW i \in 1 .. n + 2, NEW j \in 1 .. n + 2, i < j, r[i].rule \in Lists
        PROVE  r[j].rule \in Inner
    <3>1. i \in 1 .. n + 1 /\ p[i].rule \in Lists
      BY <1>1, <2>1, <2>2
    <3>2. CASE j = n + 2
      <4>1. p[n + 1].rule \in Lists
        <5>1. i = n + 1 \/ p[n + 1].rule \in Inner
          BY <1>1, <1>2, <3>1
        <5> QED BY <3>1, <5>1 DEF Lists
      <4> QED BY <1>1, <1>5, <2>1, <3>2, <4>1
    <3>3. CASE j # n + 2
      BY <1>1, <1>2, <2>1, <2>2, <3>1, <3>3
    <3> QED BY <3>2, <3>3
  <2>3. \A i \in 1 .. n + 2 : r[i].rule = "CompUnit" <=> i = 1
    BY <1>1, <1>2, <1>5, <2>1
  <2>4. \A i \in 1 .. n + 2 : i # n + 2 /\ r[i].rule \in ParamRules => r[i].done = 0
    BY <1>1, <1>2, <1>5, <2>1
  <2> QED BY <2>1, <2>2, <2>3, <2>4 DEF Nested, r
<1> QED BY <1>3, <1>4, <1>5 DEF q

LEMMA AccountedBegun ==
  ASSUME NEW p, NEW st, NEW ve, Accounted(p, st, ve), p # <<>>,
         NEW f \in Frames, f.done = 0, f.vals = <<>>, f.rule # "CompUnit",
         Last(p).rule \in Lists => f.rule \in Inner,
         Last(p).rule \in ParamRules => Last(p).done = 0,
         NEW st2 \in [StackNames -> Seq(Seq(Values))],
         \A s \in StackNames : st2[s] = IF HasVec(f, s) THEN Append(st[s], <<>>) ELSE st[s]
  PROVE  Accounted(Append(p, f), st2, ve)
<1> DEFINE q == Append(p, f)
<1>1. /\ p \in Seq(Frames) /\ Nested(p) /\ \A i \in 1 .. Len(p) : Bounded(p[i])
      /\ st \in [StackNames -> Seq(Seq(Values))] /\ \A s \in StackNames : Held(p, s, st[s])
      /\ ve \in [VecNames -> Seq(Values)] /\ \A v \in VecNames : Kept(p, v, ve[v])
  BY DEF Accounted
<1>2. q \in Seq(Frames) /\ Nested(q)
  BY <1>1, NestedSteps, Appended
<1>3. \A i \in 1 .. Len(q) : Bounded(q[i])
  <2>1. Bounded(f)
    BY DEF Bounded
  <2>2. /\ Len(p) \in Nat /\ Len(q) = Len(p) + 1 /\ q[Len(p) + 1] = f
        /\ \A i \in 1 .. Len(p) : q[i] = p[i]
    BY <1>1, Appended
  <2> HIDE DEF q
  <2>3. ASSUME NEW i \in 1 .. Len(q) PROVE Bounded(q[i])
    <3>1. i \in 1 .. Len(p) \/ q[i] = f
      BY <2>2
    <3>2. CASE i \in 1 .. Len(p)
      <4>1. Bounded(p[i]) /\ q[i] = p[i]
        BY <1>1, <2>2, <3>2
      <4> QED BY <4>1
    <3>3. CASE q[i] = f
      BY <2>1, <3>3
    <3> QED BY <3>1, <3>2, <3>3
  <2> QED BY <2>3
<1>4. \A s \in StackNames : Held(q, s, st2[s])
  <2> SUFFICES ASSUME NEW s \in StackNames PROVE Held(q, s, st2[s])
    OBVIOUS
  <2>1. st[s] \in Seq(Seq(Values)) /\ Held(p, s, st[s])
    BY <1>1
  <2>2. Held(q, s, IF HasVec(f, s) THEN Append(st[s], f.vals) ELSE st[s])
    BY <1>1, <2>1, HeldBegun
  <2> QED BY <2>2
<1>5. \A v \in VecNames : Kept(q, v, ve[v])
  <2>1. VecOf(f) = <<>>
    <3>1. CASE f.rule \in ParamRules
      <4>1. VecOf(f) = [k \in 1 .. 0 |-> f.vals[Len(f.vals) + 1 - k]]
        BY <3>1 DEF VecOf, ParamRules
      <4> QED BY <4>1, EmptyFunction
    <3>2. CASE f.rule \notin ParamRules
      BY <3>2 DEF VecOf, ParamRules
    <3> QED BY <3>1, <3>2
  <2> SUFFICES ASSUME NEW v \in VecNames PROVE Kept(q, v, ve[v])
    OBVIOUS
  <2> QED BY <1>1, <2>1, KeptBegun
<1> HIDE DEF q
<1>6. Accounted(q, st2, ve)
  BY <1>1, <1>2, <1>3, <1>4, <1>5 DEF Accounted
<1> QED BY <1>6 DEF q

\* The innermost rule recognises a part: f is what it is then.
LEMMA AccountedTop ==
  ASSUME NEW p, NEW st, NEW ve, Accounted(p, st, ve), p # <<>>,
         NEW f \in Frames, f.rule = Last(p).rule, Bounded(f),
         NEW st2 \in [StackNames -> Seq(Seq(Values))],
         NEW ve2 \in [VecNames -> Seq(Values)],
         \A s \in StackNames :
           /\ HasVec(Last(p), s) => HasVec(f, s) /\ st2[s] = Append(Front(st[s]), f.vals)
           /\ ~ HasVec(Last(p), s) /\ HasVec(f, s) => st2[s] = Append(st[s], f.vals)
           /\ ~ HasVec(Last(p), s) /\ ~ HasVec(f, s) => st2[s] = st[s],
         \A v \in VecNames : ve2[v] = IF VecRule[v] = f.rule THEN VecOf(f) ELSE ve[v]
  PROVE  Accounted(Append(Front(p), f), st2, ve2)
<1> DEFINE g == Front(p)
           q == Append(g, f)
<1>1. /\ p \in Seq(Frames) /\ Nested(p) /\ \A i \in 1 .. Len(p) : Bounded(p[i])
      /\ st \in [StackNames -> Seq(Seq(Values))] /\ \A s \in StackNames : Held(p, s, st[s])
      /\ ve \in [VecNames -> Seq(Values)] /\ \A v \in VecNames : Kept(p, v, ve[v])
  BY DEF Accounted
<1>2. g \in Seq(Frames) /\ q \in Seq(Frames) /\ Nested(q)
  BY <1>1, NestedSteps, Replaced, Ends
<1>3. ASSUME NEW i \in 1 .. Len(q) PROVE Bounded(q[i])
  <2>1. /\ Len(p) \in Nat \ {0} /\ Len(q) = Len(p) /\ q[Len(p)] = f
        /\ \A j \in 1 .. Len(p) - 1 : q[j] = p[j]
    BY <1>1, Replaced
  <2> HIDE DEF q
  <2>2. CASE i = Len(p)
    BY <2>1, <2>2
  <2>3. CASE i # Len(p)
    <3>1. q[i] = p[i] /\ Bounded(p[i])
      BY <1>1, <2>1, <2>3
    <3> QED BY <3>1
  <2> QED BY <2>2, <2>3
<1> HIDE DEF g
<1>4. ASSUME NEW s \in StackNames PROVE Held(q, s, st2[s])
  <2>1. st[s] \in Seq(Seq(Values)) /\ Held(p, s, st[s])
    BY <1>1
  <2>2. /\ HasVec(Last(p), s) => st[s] # <<>> /\ Held(g, s, Front(st[s]))
        /\ ~ HasVec(Last(p), s) => Held(g, s, st[s])
    BY <1>1, <2>1, HeldReduced DEF g
  <2>3. CASE HasVec(Last(p), s)
    <3>1. PICK t : t = Front(st[s])
      OBVIOUS
    <3>2. t \in Seq(Seq(Values)) /\ Held(g, s, t) /\ HasVec(f, s) /\ st2[s] = Append(t, f.vals)
      BY <2>1, <2>2, <2>3, <3>1, Ends
    <3>3. Held(q, s, IF HasVec(f, s) THEN Append(t, f.vals) ELSE t)
      BY <1>2, <3>2, HeldBegun
    <3> QED BY <3>2, <3>3
  <2>4. CASE ~ HasVec(Last(p), s)
    <3>1. Held(q, s, IF HasVec(f, s) THEN Append(st[s], f.vals) ELSE st[s])
      BY <1>2, <2>1, <2>2, <2>4, HeldBegun
    <3> QED BY <2>4, <3>1
  <2> QED BY <2>3, <2>4
<1>5. ASSUME NEW v \in VecNames PROVE Kept(q, v, ve2[v])
  <2>1. Kept(p, v, ve[v])
    BY <1>1
  <2>2. /\ Last(p).rule = VecRule[v] => Users(g, v) = {}
        /\ Last(p).rule # VecRule[v] => Kept(g, v, ve[v])
    BY <1>1, <2>1, KeptReduced DEF g
  <2>3. CASE f.rule # VecRule[v]
    <3>1. Kept(q, v, ve[v])
      BY <1>2, <2>2, <2>3, KeptBegun
    <3> QED BY <2>3, <3>1
  <2>4. CASE f.rule = VecRule[v]
    <3>1. /\ Len(g) \in Nat /\ Len(q) = Len(g) + 1 /\ q[Len(g) + 1] = f
          /\ \A i \in 1 .. Len(g) : q[i] = g[i]
      BY <1>2, Appended
    <3> HIDE DEF q
    <3>2. Users(q, v) = IF VecOf(f) # <<>> THEN {Len(g) + 1} ELSE {}
      <4>1. \A i \in 1 .. Len(g) : i \notin Users(q, v)
        BY <2>2, <2>4, <3>1 DEF Users
      <4>2. Len(g) + 1 \in Users(q, v) <=> VecOf(f) # <<>>
        BY <2>4, <3>1 DEF Users
      <4>3. Users(q, v) \subseteq 1 .. Len(g) + 1
        BY <3>1 DEF Users
      <4> QED BY <3>1, <4>1, <4>2, <4>3
    <3>3. ve2[v] = VecOf(f)
      BY <2>4
    <3>4. CASE VecOf(f) = <<>>
      <4>1. Users(q, v) = {} /\ ve2[v] = <<>>
        BY <3>2, <3>3, <3>4
      <4> QED BY <4>1 DEF Kept
    <3>5. CASE VecOf(f) # <<>>
      <4>1. Users(q, v) = {Len(g) + 1} /\ ve2[v] = VecOf(q[Len(g) + 1])
        BY <3>1, <3>2, <3>3, <3>5
      <4> QED BY <4>1 DEF Kept
    <3> QED BY <3>4, <3>5
  <2> QED BY <2>3, <2>4
<1> HIDE DEF q
<1>6. Accounted(q, st2, ve2)
  BY <1>2, <1>3, <1>4, <1>5 DEF Accounted
<1> QED BY <1>6 DEF q, g

\* The innermost rule is reduced, and was what its stack or its vector said.
LEMMA AccountedReduced ==
  ASSUME NEW p, NEW st, NEW ve, Accounted(p, st, ve), p # <<>>,
         NEW st2 \in [StackNames -> Seq(Seq(Values))],
         NEW ve2 \in [VecNames -> Seq(Values)],
         \A s \in StackNames : st2[s] = IF HasVec(Last(p), s) THEN Front(st[s]) ELSE st[s],
         \A v \in VecNames : ve2[v] = IF VecRule[v] = Last(p).rule THEN <<>> ELSE ve[v]
  PROVE  Accounted(Front(p), st2, ve2)
<1> DEFINE g == Front(p)
<1>1. /\ p \in Seq(Frames) /\ Nested(p) /\ \A i \in 1 .. Len(p) : Bounded(p[i])
      /\ st \in [StackNames -> Seq(Seq(Values))] /\ \A s \in StackNames : Held(p, s, st[s])
      /\ ve \in [VecNames -> Seq(Values)] /\ \A v \in VecNames : Kept(p, v, ve[v])
  BY DEF Accounted
<1>2. g \in Seq(Frames) /\ \A i \in 1 .. Len(g) : Bounded(g[i])
  <2>1. /\ Len(p) \in Nat \ {0} /\ g \in Seq(Frames) /\ Len(g) = Len(p) - 1
        /\ \A i \in 1 .. Len(p) - 1 : g[i] = p[i]
    BY <1>1, Ends
  <2> HIDE DEF g
  <2>2. ASSUME NEW i \in 1 .. Len(g) PROVE Bounded(g[i])
    <3>1. i \in 1 .. Len(p) - 1 /\ i \in 1 .. Len(p)
      BY <2>1
    <3>2. g[i] = p[i] /\ Bounded(p[i])
      BY <1>1, <2>1, <3>1
    <3> QED BY <3>2
  <2> QED BY <2>1, <2>2
<1>3. Nested(g)
  <2>1. p[1] \in Frames
    BY <1>1, EmptySeq
  <2> QED BY <1>1, <2>1, NestedSteps
<1> HIDE DEF g
<1>4. ASSUME NEW s \in StackNames PROVE Held(g, s, st2[s])
  <2>1. st[s] \in Seq(Seq(Values)) /\ Held(p, s, st[s])
    BY <1>1
  <2>2. /\ HasVec(Last(p), s) => Held(g, s, Front(st[s]))
        /\ ~ HasVec(Last(p), s) => Held(g, s, st[s])
    BY <1>1, <2>1, HeldReduced DEF g
  <2> QED BY <2>2
<1>5. ASSUME NEW v \in VecNames PROVE Kept(g, v, ve2[v])
  <2>1. Kept(p, v, ve[v])
    BY <1>1
  <2>2. /\ Last(p).rule = VecRule[v] => Users(g, v) = {}
        /\ Last(p).rule # VecRule[v] => Kept(g, v, ve[v])
    BY <1>1, <2>1, KeptReduced DEF g
  <2>3. CASE Last(p).rule # VecRule[v]
    BY <2>2, <2>3
  <2>4. CASE Last(p).rule = VecRule[v]
    <3>1. Users(g, v) = {} /\ ve2[v] = <<>>
      BY <2>2, <2>4
    <3> QED BY <3>1 DEF Kept
  <2> QED BY <2>3, <2>4
<1>6. Accounted(g, st2, ve2)
  BY <1>2, <1>3, <1>4, <1>5 DEF Accounted
<1> QED BY <1>6 DEF g

LEMMA AccountedReads ==
  ASSUME NEW p, NEW st, NEW ve, Accounted(p, st, ve), p # <<>>
  PROVE  /\ Last(p) \in Frames /\ Bounded(Last(p))
         /\ \A s \in StackNames : HasVec(Last(p), s) => st[s] # <<>> /\ Last(st[s]) = Last(p).vals
         /\ \A v \in VecNames : VecRule[v] = Last(p).rule => ve[v] = VecOf(Last(p))
<1>1. /\ p \in Seq(Frames) /\ Nested(p) /\ \A i \in 1 .. Len(p) : Bounded(p[i])
      /\ st \in [StackNames -> Seq(Seq(Values))] /\ \A s \in StackNames : Held(p, s, st[s])
      /\ ve \in [VecNames -> Seq(Values)] /\ \A v \in VecNames : Kept(p, v, ve[v])
  BY DEF Accounted
<1>2. Last(p) \in Frames /\ Bounded(Last(p))
  <2>1. Last(p) \in Frames /\ Last(p) = p[Len(p)] /\ Len(p) \in 1 .. Len(p)
    BY <1>1, Ends
  <2> QED BY <1>1, <2>1
<1>3. ASSUME NEW s \in StackNames, HasVec(Last(p), s)
      PROVE  st[s] # <<>> /\ Last(st[s]) = Last(p).vals
  <2>1. st[s] \in Seq(Seq(Values)) /\ Held(p, s, st[s])
    BY <1>1
  <2> QED BY <1>1, <1>3, <2>1, HeldReduced
<1>4. ASSUME NEW v \in VecNames, VecRule[v] = Last(p).rule PROVE ve[v] = VecOf(Last(p))
  BY <1>1, <1>4, KeptReduced
<1> QED BY <1>2, <1>3, <1>4

\* break or continue: the innermost while takes a member, whatever rules are
\* open inside it.
LEMMA AccountedLoopExit ==
  ASSUME NEW p, NEW st, NEW ve, Accounted(p, st, ve), NEW x \in Values,
         NEW w \in 1 .. Len(p), p[w].rule = "While",
         \A i \in 1 .. Len(p) : p[i].rule = "While" => i <= w,
         NEW st2,
         st2 = [st EXCEPT !["last_while"] = Append(Front(@), Append(Last(@), x))]
  PROVE  /\ st2 \in [StackNames -> Seq(Seq(Values))]
         /\ Accounted([p EXCEPT ![w].vals = Append(@, x)], st2, ve)
<1> DEFINE f == [p[w] EXCEPT !.vals = Append(@, x)]
           q == [p EXCEPT ![w].vals = Append(@, x)]
           old == st["last_while"]
<1>1. /\ p \in Seq(Frames) /\ Nested(p) /\ \A i \in 1 .. Len(p) : Bounded(p[i])
      /\ st \in [StackNames -> Seq(Seq(Values))] /\ \A s \in StackNames : Held(p, s, st[s])
      /\ ve \in [VecNames -> Seq(Values)] /\ \A v \in VecNames : Kept(p, v, ve[v])
  BY DEF Accounted
<1>2. /\ p[w] \in Frames /\ f \in Frames /\ f.rule = "While" /\ f.done = p[w].done
      /\ f.vals = Append(p[w].vals, x)
  <2>1. p[w] \in Frames
    BY <1>1
  <2>2. Append(p[w].vals, x) \in Seq(Values)
    BY <2>1 DEF Frames
  <2>3. f \in Frames
    BY <2>1, <2>2 DEF Frames
  <2>4. f.rule = p[w].rule /\ f.done = p[w].done /\ f.vals = Append(p[w].vals, x)
    BY <2>1 DEF Frames
  <2> QED BY <2>1, <2>3, <2>4
<1>3. /\ q \in Seq(Frames) /\ Len(q) = Len(p) /\ Len(p) \in Nat
      /\ \A i \in 1 .. Len(p) : q[i] = IF i = w THEN f ELSE p[i]
  <2>1. q = [p EXCEPT ![w] = f]
    BY <1>1
  <2> HIDE DEF q, f
  <2> QED BY <1>1, <1>2, <2>1, ExceptSeq
<1> HIDE DEF q, f
<1>4. \A i \in 1 .. Len(p) : q[i].rule = p[i].rule /\ q[i].done = p[i].done
  BY <1>2, <1>3
<1>5. Nested(q)
  BY <1>1, <1>3, <1>4 DEF Nested
<1>6. ASSUME NEW i \in 1 .. Len(q) PROVE Bounded(q[i])
  <2>1. Bounded(p[i]) /\ i \in 1 .. Len(p)
    BY <1>1, <1>3
  <2>2. CASE i = w
    BY <1>2, <1>3, <1>4, <2>1, <2>2 DEF Bounded, ParamRules
  <2>3. CASE i # w
    BY <1>3, <2>1, <2>3
  <2> QED BY <2>2, <2>3
<1>7. ASSUME NEW s \in StackNames, NEW i \in 1 .. Len(p)
      PROVE  HasVec(q[i], s) <=> HasVec(p[i], s)
  <2>1. CASE i = w
    BY <1>2, <1>3, <1>4, <2>1 DEF HasVec
  <2>2. CASE i # w
    BY <1>3, <2>2
  <2> QED BY <2>1, <2>2
<1>8. ASSUME NEW s \in StackNames, NEW m \in 0 .. Len(p)
      PROVE  HoldersIn(q, s, m) = HoldersIn(p, s, m)
  BY <1>3, <1>7 DEF HoldersIn
<1>9. w \in HoldersIn(p, "last_while", Len(p)) /\ "last_while" \in StackNames
  BY <1>1 DEF HoldersIn, HasVec, StackOf, StackNames
<1>10. \A i \in HoldersIn(p, "last_while", Len(p)) : p[i].rule = "While" /\ i <= w
  <2> SUFFICES ASSUME NEW i \in HoldersIn(p, "last_while", Len(p))
               PROVE  p[i].rule = "While" /\ i <= w
    OBVIOUS
  <2>1. i \in 1 .. Len(p) /\ StackOf(p[i].rule) = "last_while"
    BY DEF HoldersIn, HasVec
  <2>2. p[i].rule = "While"
    BY <2>1 DEF StackOf
  <2> QED BY <2>1, <2>2
<1>11. Len(old) = Cardinality(HoldersIn(p, "last_while", w))
  <2>1. HoldersIn(p, "last_while", Len(p)) = HoldersIn(p, "last_while", w)
    BY <1>3, <1>10 DEF HoldersIn
  <2> QED BY <1>1, <1>9, <2>1 DEF Held
<1>12. /\ old \in Seq(Seq(Values)) /\ old # <<>> /\ Len(old) \in Nat \ {0}
       /\ Last(old) = p[w].vals /\ f.vals \in Seq(Values)
  <2>1. old \in Seq(Seq(Values)) /\ old[Len(old)] = p[w].vals
    BY <1>1, <1>9, <1>11 DEF Held
  <2>2. Cardinality(HoldersIn(p, "last_while", w)) # 0
    BY <1>3, <1>9, HoldersOrdered
  <2> QED BY <1>2, <1>11, <2>1, <2>2, EmptySeq DEF Last, Frames
<1> HIDE DEF old
<1> DEFINE new == Append(Front(old), f.vals)
<1>13. /\ new \in Seq(Seq(Values)) /\ Len(new) = Len(old) /\ new[Len(old)] = f.vals
       /\ \A i \in 1 .. Len(old) - 1 : new[i] = old[i]
  <2>1. PICK S : S = Seq(Values)
    OBVIOUS
  <2>2. old \in Seq(S) /\ f.vals \in S
    BY <1>12, <2>1
  <2>3. /\ new \in Seq(S) /\ Len(new) = Len(old) /\ new[Len(old)] = f.vals
        /\ \A i \in 1 .. Len(old) - 1 : new[i] = old[i]
    BY ONLY <1>12, <2>2, Replaced
  <2> QED BY <2>1, <2>3
<1>14. /\ st2 \in [StackNames -> Seq(Seq(Values))]
       /\ \A s \in StackNames : st2[s] = IF s = "last_while" THEN new ELSE st[s]
  <2>1. new = Append(Front(old), Append(Last(old), x))
    BY <1>2, <1>12
  <2>2. st2 = [st EXCEPT !["last_while"] = new]
    BY <2>1 DEF old
  <2> HIDE DEF new
  <2> QED BY <1>1, <1>13, <2>2
<1> HIDE DEF new
<1>15. Held(q, "last_while", new)
  <2>1. Len(new) = Cardinality(HoldersIn(q, "last_while", Len(q)))
    <3>1. HoldersIn(q, "last_while", Len(q)) = HoldersIn(p, "last_while", Len(p))
      BY <1>3, <1>8, <1>9
    <3>2. Len(old) = Cardinality(HoldersIn(p, "last_while", Len(p)))
      BY <1>1, <1>9 DEF Held, old
    <3> QED BY <1>13, <3>1, <3>2
  <2>2. ASSUME NEW i \in HoldersIn(q, "last_while", Len(q))
        PROVE  new[Cardinality(HoldersIn(q, "last_while", i))] = q[i].vals
    <3>1. /\ i \in HoldersIn(p, "last_while", Len(p)) /\ i \in 1 .. Len(p)
          /\ HoldersIn(q, "last_while", i) = HoldersIn(p, "last_while", i)
      <4>1. i \in HoldersIn(p, "last_while", Len(p))
        BY <1>3, <1>8, <1>9, <2>2
      <4>2. i \in 1 .. Len(p)
        BY <4>1 DEF HoldersIn
      <4> QED BY <1>3, <1>8, <1>9, <4>1, <4>2
    <3>2. CASE i = w
      BY <1>3, <1>11, <1>13, <3>1, <3>2
    <3>3. CASE i # w
      <4>1. i < w
        BY <1>10, <3>1, <3>3
      <4>2. /\ Cardinality(HoldersIn(p, "last_while", i)) < Len(old)
            /\ Cardinality(HoldersIn(p, "last_while", i)) \in 1 .. Len(old)
        <5>1. /\ Cardinality(HoldersIn(p, "last_while", i)) < Cardinality(HoldersIn(p, "last_while", w))
              /\ Cardinality(HoldersIn(p, "last_while", i))
                    \in 1 .. Cardinality(HoldersIn(p, "last_while", Len(p)))
          BY <1>3, <1>9, <3>1, <4>1, HoldersOrdered
        <5> QED BY <1>1, <1>9, <1>11, <5>1 DEF Held, old
      <4>3. old[Cardinality(HoldersIn(p, "last_while", i))] = p[i].vals
        BY <1>1, <1>9, <3>1 DEF Held, old
      <4>4. Cardinality(HoldersIn(p, "last_while", i)) \in 1 .. Len(old) - 1
        BY <1>12, <4>2
      <4>5. q[i] = p[i]
        BY <1>3, <3>1, <3>3
      <4> QED BY <1>13, <3>1, <4>3, <4>4, <4>5
    <3> QED BY <3>2, <3>3
  <2> QED BY <2>1, <2>2 DEF Held
<1>16. ASSUME NEW s \in StackNames PROVE Held(q, s, st2[s])
  <2>1. CASE s = "last_while"
    BY <1>14, <1>15, <2>1
  <2>2. CASE s # "last_while"
    <3>1. Held(p, s, st[s]) /\ st2[s] = st[s]
      BY <1>1, <1>14, <2>2
    <3>2. ASSUME NEW i \in HoldersIn(q, s, Len(q))
          PROVE  /\ i \in HoldersIn(p, s, Len(p)) /\ q[i] = p[i]
                 /\ HoldersIn(q, s, i) = HoldersIn(p, s, i)
      <4>1. i \in 1 .. Len(p) /\ HasVec(q[i], s)
        BY <1>3, <3>2 DEF HoldersIn
      <4>2. HasVec(p[i], s)
        BY <1>7, <4>1
      <4>3. i # w
        BY <2>2, <4>2 DEF HasVec, StackOf
      <4> QED BY <1>3, <1>8, <4>1, <4>2, <4>3 DEF HoldersIn
    <3>3. HoldersIn(q, s, Len(q)) = HoldersIn(p, s, Len(p))
      BY <1>3, <1>8
    <3> QED BY <1>3, <3>1, <3>2, <3>3 DEF Held
  <2> QED BY <2>1, <2>2
<1>17. ASSUME NEW v \in VecNames PROVE Kept(q, v, ve[v])
  <2>1. VecRule[v] # "While"
    BY DEF VecRule, VecNames
  <2>2. Users(q, v) = Users(p, v) /\ \A i \in Users(p, v) : q[i] = p[i]
    BY <1>2, <1>3, <1>4, <2>1 DEF Users
  <2>3. Kept(p, v, ve[v])
    BY <1>1
  <2> QED BY <2>2, <2>3 DEF Kept
<1>18. Accounted(q, st2, ve)
  BY <1>1, <1>3, <1>5, <1>6, <1>14, <1>16, <1>17 DEF Accounted
<1> QED BY <1>14, <1>18 DEF q
-----------------------------------------------------------------------------
(* The rules of the grammar *)

VecRules == {"CompUnit", "ConstDecl", "VarDecl", "FuncFParams", "FuncRParams"}
ListKinds == {"FuncFParam", "Exp", "ConstDef", "VarDef", "ConstInitVal", "InitVal"}
Early == {"Block", "While", "FuncFParam"}

LEMMA GrammarIs ==
  ASSUME NEW r, NEW d, NEW kind, <<r, d, kind>> \in Grammar
  PROVE  /\ d \in 0 .. 2 /\ kind \in Kinds /\ kind # "CompUnit"
         /\ r \in ParamRules => d = 0
         /\ r \in Lists => kind \in ListKinds
  BY DEF Grammar, ParamRules, Lists, Inner, ListKinds, Kinds

LEMMA RuleNames ==
  {"CompUnit", "FuncDef", "FuncFParams", "FuncFParam", "Block", "While", "If", "Stmt", "ConstDecl",
   "VarDecl", "ConstDef", "VarDef", "ConstInitVal", "InitVal", "LVal", "FuncRParams"} \subseteq Rules
<1>1. \A r, d, kind : <<r, d, kind>> \in Grammar => r \in Rules
  <2> SUFFICES ASSUME NEW r, NEW d, NEW kind, <<r, d, kind>> \in Grammar PROVE r \in Rules
    OBVIOUS
  <2>1. <<r, d, kind>>[1] = r
    OBVIOUS
  <2> QED BY <2>1 DEF Rules
<1>2. /\ <<"CompUnit", 0, "Decl">> \in Grammar /\ <<"FuncDef", 0, "Block">> \in Grammar
      /\ <<"FuncFParams", 0, "FuncFParam">> \in Grammar /\ <<"FuncFParam", 0, "Exp">> \in Grammar
      /\ <<"Block", 0, "Stmt">> \in Grammar /\ <<"While", 0, "Exp">> \in Grammar
      /\ <<"If", 0, "Exp">> \in Grammar /\ <<"Stmt", 0, "Exp">> \in Grammar
      /\ <<"ConstDecl", 0, "ConstDef">> \in Grammar /\ <<"VarDecl", 0, "VarDef">> \in Grammar
      /\ <<"ConstDef", 0, "Exp">> \in Grammar /\ <<"VarDef", 0, "Exp">> \in Grammar
      /\ <<"ConstInitVal", 0, "Exp">> \in Grammar /\ <<"InitVal", 0, "Exp">> \in Grammar
      /\ <<"LVal", 0, "Exp">> \in Grammar /\ <<"FuncRParams", 0, "Exp">> \in Grammar
  BY DEF Grammar
<1> QED BY <1>1, <1>2

LEMMA VecRulesAre ==
  /\ \A v \in VecNames : VecRule[v] \in VecRules
  /\ \A v, w \in VecNames : VecRule[v] = VecRule[w] => v = w
  /\ \A r \in VecRules : \A s \in StackNames : StackOf(r) # s
<1>1. \A v \in VecNames : VecRule[v] \in VecRules
  BY DEF VecRule, VecRules, VecNames
<1>2. \A v, w \in VecNames : VecRule[v] = VecRule[w] => v = w
  BY DEF VecRule, VecNames
<1>3. \A r \in VecRules : \A s \in StackNames : StackOf(r) # s
  BY DEF VecRules, StackNames, StackOf
<1> QED BY <1>1, <1>2, <1>3

LEMMA TopType ==
  ASSUME Inv, parse # <<>>
  PROVE  /\ Top \in Frames /\ Bounded(Top)
         /\ \A s \in StackNames : HasVec(Top, s) => stack[s] # <<>> /\ Last(stack[s]) = Top.vals
         /\ \A v \in VecNames : VecRule[v] = Top.rule => vec[v] = VecOf(Top)
         /\ stack \in [StackNames -> Seq(Seq(Values))] /\ vec \in [VecNames -> Seq(Values)]
         /\ parse \in Seq(Frames)
<1>1. Accounted(parse, stack, vec)
  BY DEF Inv
<1> QED BY <1>1, AccountedReads DEF Top, Accounted

(* A rule begins, or a value without a list of its own is reduced *)

LEMMA BeginStep ==
  ASSUME Inv, NEW kind, NEW rule \in Rules, MayBegin(kind), Begin(rule),
         rule # "CompUnit", kind \in ListKinds => rule \in Inner,
         IF rule \in Early THEN PushVec(StackOf(rule), <<>>) ELSE UNCHANGED stack,
         UNCHANGED <<val, vec, node, next>>
  PROVE  Inv'
<1> DEFINE f == [rule |-> rule, done |-> 0, vals |-> <<>>]
<1>1. Accounted(parse, stack, vec) /\ parse # <<>> /\ <<Top.rule, Top.done, kind>> \in Grammar
  BY DEF Inv, MayBegin
<1>2. f \in Frames /\ f.done = 0 /\ f.vals = <<>> /\ f.rule = rule
  BY DEF Frames
<1>3. /\ Last(parse).rule \in Lists => f.rule \in Inner
      /\ Last(parse).rule \in ParamRules => Last(parse).done = 0
  BY <1>1, GrammarIs DEF Top
<1>4. \A s \in StackNames : HasVec(f, s) <=> rule \in Early /\ s = StackOf(rule)
  BY DEF HasVec, Early
<1>5. /\ stack' \in [StackNames -> Seq(Seq(Values))]
      /\ \A s \in StackNames :
           stack'[s] = IF HasVec(f, s) THEN Append(stack[s], <<>>) ELSE stack[s]
  <2>1. stack \in [StackNames -> Seq(Seq(Values))] /\ <<>> \in Seq(Values)
    BY <1>1 DEF Accounted
  <2>2. CASE rule \in Early
    <3>1. StackOf(rule) \in StackNames
      BY <2>2 DEF Early, StackOf, StackNames
    <3>2. stack' = [stack EXCEPT ![StackOf(rule)] = Append(@, <<>>)]
      BY <2>2 DEF PushVec
    <3> QED BY <1>4, <2>1, <2>2, <3>1, <3>2
  <2>3. CASE rule \notin Early
    BY <1>4, <2>1, <2>3
  <2> QED BY <2>2, <2>3
<1> HIDE DEF f
<1>6. Accounted(Append(parse, f), stack', vec)
  BY <1>1, <1>2, <1>3, <1>5, AccountedBegun
<1>7. parse' = Append(parse, f)
  BY DEF Begin, f
<1> QED BY <1>6, <1>7 DEF Inv, ListsAreSource

LEMMA ReducedValue ==
  ASSUME Inv, NEW kind \in Kinds, Reduce(kind)
  PROVE  val' \in Values /\ next' \in Nat
  BY DEF Inv, Reduce, Value, Values

LEMMA LeafStep ==
  ASSUME Inv, NEW kind \in Kinds, Reduce(kind), UNCHANGED <<parse, stack, vec, node>>
  PROVE  Inv'
  BY ReducedValue DEF Inv, ListsAreSource

(* A part of the innermost rule is recognised *)

LEMMA TakenTop ==
  ASSUME Inv, parse # <<>>, NEW done \in Nat, NEW vals \in Seq(Values)
  PROVE  \E f \in Frames : /\ f = [Top EXCEPT !.done = done, !.vals = vals]
                          /\ f.rule = Top.rule /\ f.done = done /\ f.vals = vals
<1> DEFINE f == [Top EXCEPT !.done = done, !.vals = vals]
<1>1. Top \in Frames
  BY TopType
<1>2. f \in Frames
  BY <1>1 DEF Frames
<1>3. f.rule = Top.rule /\ f.done = done /\ f.vals = vals
  BY <1>1 DEF Frames
<1> QED BY <1>2, <1>3

\* A rule with a vector on a stack takes a member.
LEMMA TakeMember ==
  ASSUME Inv, NEW s \in StackNames, parse # <<>>, val \in Values, StackOf(Top.rule) = s,
         IF HasVec(Top, s) THEN AddToTop(s, val) ELSE Top.vals = <<>> /\ PushVec(s, <<val>>),
         Take(0, Append(Top.vals, val)), UNCHANGED vec
  PROVE  Inv'
<1> DEFINE new == Append(Top.vals, val)
<1>1. /\ Accounted(parse, stack, vec) /\ Top \in Frames /\ Top = Last(parse)
      /\ stack \in [StackNames -> Seq(Seq(Values))] /\ vec \in [VecNames -> Seq(Values)]
      /\ HasVec(Top, s) => stack[s] # <<>> /\ Last(stack[s]) = Top.vals
  BY TopType DEF Inv, Top
<1>2. Top.vals \in Seq(Values) /\ new \in Seq(Values) /\ new # <<>> /\ <<val>> \in Seq(Values)
  <2>1. Top.vals \in Seq(Values)
    BY <1>1 DEF Frames
  <2> QED BY <2>1, Appended
<1>3. PICK f \in Frames : /\ f = [Top EXCEPT !.done = 0, !.vals = new]
                         /\ f.rule = Top.rule /\ f.done = 0 /\ f.vals = new
  <2> HIDE DEF new
  <2>1. 0 \in Nat
    OBVIOUS
  <2> QED BY ONLY Inv, parse # <<>>, <1>2, <2>1, TakenTop, ZenonT(30)
<1>4. parse' = Append(Front(parse), f) /\ val' = NoValue /\ UNCHANGED <<node, next>>
  BY <1>3 DEF Take
<1>5. Bounded(f)
  BY <1>2, <1>3 DEF Bounded
<1>6. HasVec(f, s) /\ \A t \in StackNames : t # s => ~ HasVec(f, t) /\ ~ HasVec(Top, t)
  BY <1>2, <1>3 DEF HasVec
<1>7. \A v \in VecNames : VecRule[v] # f.rule
  BY <1>3, VecRulesAre
<1>8. /\ f \in Frames /\ f.rule = Last(parse).rule /\ parse # <<>> /\ Accounted(parse, stack, vec)
       /\ vec \in [VecNames -> Seq(Values)]
       /\ \A v \in VecNames : vec[v] = IF VecRule[v] = f.rule THEN VecOf(f) ELSE vec[v]
  BY <1>1, <1>3, <1>7
<1>9. CASE HasVec(Top, s)
  <2>1. stack[s] \in Seq(Seq(Values)) /\ stack[s] # <<>> /\ Last(stack[s]) = Top.vals
    BY <1>1, <1>9
  <2>2. stack' = [stack EXCEPT ![s] = Append(Front(stack[s]), new)]
    BY <1>1, <1>9, <2>1 DEF AddToTop
  <2>3. PICK t : t = Append(Front(stack[s]), new)
    OBVIOUS
  <2>4. t \in Seq(Seq(Values))
    BY <1>2, <2>1, <2>3, Ends, Appended
  <2> HIDE DEF new
  <2>5. /\ stack' \in [StackNames -> Seq(Seq(Values))] /\ stack'[s] = t
        /\ \A u \in StackNames : u # s => stack'[u] = stack[u]
    BY <1>1, <2>2, <2>3, <2>4
  <2>6. \A u \in StackNames :
          /\ HasVec(Last(parse), u) =>
               HasVec(f, u) /\ stack'[u] = Append(Front(stack[u]), f.vals)
          /\ ~ HasVec(Last(parse), u) /\ HasVec(f, u) => stack'[u] = Append(stack[u], f.vals)
          /\ ~ HasVec(Last(parse), u) /\ ~ HasVec(f, u) => stack'[u] = stack[u]
    BY <1>1, <1>3, <1>6, <1>9, <2>3, <2>5
  <2>7. Accounted(Append(Front(parse), f), stack', vec)
    BY ONLY <1>5, <1>8, <2>5, <2>6, AccountedTop
  <2> QED BY <1>4, <2>7 DEF Inv, ListsAreSource
<1>10. CASE ~ HasVec(Top, s)
  <2>1. new = <<val>>
    <3>1. /\ Len(<<val>>) = 1 /\ <<val>>[1] = val /\ <<val>> \in Seq(Values)
          /\ Len(new) = 1 /\ new[1] = val
      <4>1. Top.vals = <<>> /\ Len(Top.vals) = 0
        BY <1>10, EmptySeq
      <4> QED BY <1>1, <4>1
    <3> HIDE DEF new
    <3> QED BY <1>2, <3>1, SeqEqual
  <2>2. stack' = [stack EXCEPT ![s] = Append(stack[s], new)]
    BY <1>10, <2>1 DEF PushVec
  <2>3. stack[s] \in Seq(Seq(Values))
    BY <1>1
  <2>4. PICK t : t = Append(stack[s], new)
    OBVIOUS
  <2>5. t \in Seq(Seq(Values))
    BY <1>2, <2>3, <2>4, Appended
  <2> HIDE DEF new
  <2>6. /\ stack' \in [StackNames -> Seq(Seq(Values))] /\ stack'[s] = t
        /\ \A u \in StackNames : u # s => stack'[u] = stack[u]
    BY <1>1, <2>2, <2>4, <2>5
  <2>7. \A u \in StackNames :
          /\ HasVec(Last(parse), u) =>
               HasVec(f, u) /\ stack'[u] = Append(Front(stack[u]), f.vals)
          /\ ~ HasVec(Last(parse), u) /\ HasVec(f, u) => stack'[u] = Append(stack[u], f.vals)
          /\ ~ HasVec(Last(parse), u) /\ ~ HasVec(f, u) => stack'[u] = stack[u]
    BY <1>1, <1>3, <1>6, <1>10, <2>4, <2>6
  <2>8. Accounted(Append(Front(parse), f), stack', vec)
    BY ONLY <1>5, <1>8, <2>6, <2>7, AccountedTop
  <2> QED BY <1>4, <2>8 DEF Inv, ListsAreSource
<1> QED BY <1>9, <1>10

\* A part that is no member of a list.
LEMMA TakePart ==
  ASSUME Inv, parse # <<>>, NEW done \in 0 .. 3, NEW vals, Take(done, vals),
         Top.rule \notin VecRules, vals = Top.vals \/ (Top.rule = "FuncDef" /\ vals = <<>>),
         UNCHANGED <<stack, vec>>
  PROVE  Inv'
<1>1. /\ Accounted(parse, stack, vec) /\ Top \in Frames /\ Top = Last(parse)
      /\ stack \in [StackNames -> Seq(Seq(Values))] /\ vec \in [VecNames -> Seq(Values)]
      /\ \A s \in StackNames : HasVec(Top, s) => stack[s] # <<>> /\ Last(stack[s]) = Top.vals
  BY TopType DEF Inv, Top
<1>2. vals \in Seq(Values) /\ done \in Nat
  <2>1. <<>> \in Seq(Values)
    BY EmptySeq
  <2>2. Top.vals \in Seq(Values)
    BY <1>1 DEF Frames
  <2>3. CASE vals = Top.vals
    BY <2>2, <2>3
  <2>4. CASE vals = <<>>
    BY <2>1, <2>4
  <2> QED BY <2>3, <2>4
<1>3. PICK f \in Frames : /\ f = [Top EXCEPT !.done = done, !.vals = vals]
                         /\ f.rule = Top.rule /\ f.done = done /\ f.vals = vals
  BY ONLY Inv, parse # <<>>, <1>2, TakenTop, ZenonT(30)
<1>4. parse' = Append(Front(parse), f) /\ val' = NoValue /\ UNCHANGED <<node, next>>
  BY <1>3 DEF Take
<1>5. Bounded(f)
  BY <1>3 DEF Bounded, ParamRules, VecRules
<1>6. \A v \in VecNames : VecRule[v] # f.rule
  BY <1>3, VecRulesAre
<1>7. ASSUME NEW s \in StackNames
      PROVE  /\ HasVec(f, s) <=> HasVec(Top, s)
             /\ HasVec(Top, s) => stack[s] = Append(Front(stack[s]), f.vals)
  <2>1. CASE Top.rule = "FuncDef"
    BY <1>3, <2>1 DEF HasVec, StackOf, StackNames
  <2>2. CASE Top.rule # "FuncDef"
    <3>1. f.vals = Top.vals
      BY <1>3, <2>2
    <3>2. HasVec(f, s) <=> HasVec(Top, s)
      BY <1>3, <3>1 DEF HasVec
    <3>3. ASSUME HasVec(Top, s) PROVE stack[s] = Append(Front(stack[s]), f.vals)
      <4>1. PICK t : t = stack[s]
        OBVIOUS
      <4>2. t \in Seq(Seq(Values)) /\ t # <<>> /\ Last(t) = f.vals /\ f.vals \in Seq(Values)
        BY <1>1, <1>2, <1>3, <3>1, <3>3, <4>1
      <4>3. t = Append(Front(t), f.vals)
        <5>1. PICK S : S = Seq(Values)
          OBVIOUS
        <5>2. t \in Seq(S) /\ t # <<>> /\ Last(t) = f.vals /\ f.vals \in S
          BY <4>2, <5>1
        <5> QED BY ONLY <5>2, FrontLast
      <4> QED BY <4>1, <4>3
    <3> QED BY <3>2, <3>3
  <2> QED BY <2>1, <2>2
<1>8. Accounted(Append(Front(parse), f), stack, vec)
  BY <1>1, <1>3, <1>5, <1>6, <1>7, AccountedTop
<1> QED BY <1>4, <1>8 DEF Inv, ListsAreSource

\* A rule with a vector of its own: ve is the vector behind the step.
LEMMA TakeVec ==
  ASSUME Inv, parse # <<>>, NEW f \in Frames, f.rule = Top.rule, Bounded(f),
         NEW v \in VecNames, VecRule[v] = Top.rule, VecOf(f) \in Seq(Values),
         vec' = [vec EXCEPT ![v] = VecOf(f)],
         parse' = Append(Front(parse), f), val' \in Values \cup {NoValue},
         UNCHANGED <<stack, node, next>>
  PROVE  Inv'
<1>1. /\ Accounted(parse, stack, vec) /\ Top \in Frames /\ Top = Last(parse)
      /\ stack \in [StackNames -> Seq(Seq(Values))] /\ vec \in [VecNames -> Seq(Values)]
  BY TopType DEF Inv, Top
<1>2. \A s \in StackNames : ~ HasVec(f, s) /\ ~ HasVec(Top, s)
  BY VecRulesAre DEF HasVec
<1>3. \A w \in VecNames : VecRule[w] = f.rule <=> w = v
  BY VecRulesAre
<1>4. /\ vec' \in [VecNames -> Seq(Values)]
      /\ \A w \in VecNames : vec'[w] = IF VecRule[w] = f.rule THEN VecOf(f) ELSE vec[w]
  BY <1>1, <1>3
<1>5. Accounted(Append(Front(parse), f), stack, vec')
  BY <1>1, <1>2, <1>4, AccountedTop
<1> QED BY <1>5 DEF Inv, ListsAreSource

(* The innermost rule is reduced *)

LEMMA NodeType ==
  ASSUME Inv, parse # <<>>, NEW kids, kids = Top.vals,
         node' = [rule |-> Top.rule, kids |-> kids, vals |-> Top.vals]
  PROVE  node' \in Nodes /\ ListsAreSource'
  BY TopType DEF Frames, Nodes, ListsAreSource

LEMMA PopStep ==
  ASSUME Inv, parse # <<>>, NEW s \in StackNames, HasVec(Top, s), NEW kind \in Kinds,
         ReduceList(kind, Last(stack[s])), PopVec(s), UNCHANGED vec
  PROVE  Inv'
<1>1. /\ Accounted(parse, stack, vec) /\ Top = Last(parse)
      /\ stack \in [StackNames -> Seq(Seq(Values))] /\ vec \in [VecNames -> Seq(Values)]
      /\ stack[s] # <<>> /\ Last(stack[s]) = Top.vals
  BY TopType DEF Inv, Top
<1>2. /\ parse' = Front(parse) /\ val' \in Values /\ next' \in Nat
      /\ node' \in Nodes /\ ListsAreSource'
  BY <1>1, ReducedValue, NodeType DEF ReduceList
<1>3. \A t \in StackNames : HasVec(Top, t) <=> t = s
  BY DEF HasVec
<1>4. \A v \in VecNames : VecRule[v] # Top.rule
  BY VecRulesAre DEF HasVec
<1>5. /\ stack' \in [StackNames -> Seq(Seq(Values))]
      /\ \A t \in StackNames : stack'[t] = IF HasVec(Top, t) THEN Front(stack[t]) ELSE stack[t]
  <2>1. PICK t : t = Front(stack[s])
    OBVIOUS
  <2>2. t \in Seq(Seq(Values))
    <3>1. stack[s] \in Seq(Seq(Values))
      BY <1>1
    <3> QED BY <1>1, <2>1, <3>1, Ends
  <2>3. stack' = [stack EXCEPT ![s] = t]
    BY <2>1 DEF PopVec
  <2> QED BY <1>1, <1>3, <2>1, <2>2, <2>3
<1>6. Accounted(Front(parse), stack', vec)
  BY <1>1, <1>4, <1>5, AccountedReduced
<1> QED BY <1>2, <1>6 DEF Inv

LEMMA PlainStep ==
  ASSUME Inv, parse # <<>>, Top.rule \notin VecRules, \A s \in StackNames : ~ HasVec(Top, s),
         NEW kind \in Kinds, Reduce(kind), parse' = Front(parse), UNCHANGED <<stack, vec, node>>
  PROVE  Inv'
<1>1. /\ Accounted(parse, stack, vec) /\ Top = Last(parse)
      /\ stack \in [StackNames -> Seq(Seq(Values))] /\ vec \in [VecNames -> Seq(Values)]
  BY TopType DEF Inv, Top
<1>2. \A v \in VecNames : VecRule[v] # Top.rule
  BY VecRulesAre
<1>3. Accounted(Front(parse), stack, vec)
  BY <1>1, <1>2, AccountedReduced
<1> QED BY <1>3, ReducedValue DEF Inv, ListsAreSource

LEMMA ClearStep ==
  ASSUME Inv, parse # <<>>, NEW v \in VecNames, VecRule[v] = Top.rule, NEW kind \in Kinds,
         NEW kids, kids = Top.vals, ReduceList(kind, kids),
         vec' = [vec EXCEPT ![v] = <<>>], UNCHANGED stack
  PROVE  Inv'
<1>1. /\ Accounted(parse, stack, vec) /\ Top = Last(parse)
      /\ stack \in [StackNames -> Seq(Seq(Values))] /\ vec \in [VecNames -> Seq(Values)]
  BY TopType DEF Inv, Top
<1>2. /\ parse' = Front(parse) /\ val' \in Values /\ next' \in Nat
      /\ node' \in Nodes /\ ListsAreSource'
  BY ReducedValue, NodeType DEF ReduceList
<1>3. \A s \in StackNames : ~ HasVec(Top, s)
  BY VecRulesAre DEF HasVec
<1>4. /\ vec' \in [VecNames -> Seq(Values)]
      /\ \A w \in VecNames : vec'[w] = IF VecRule[w] = Top.rule THEN <<>> ELSE vec[w]
  <2>1. \A w \in VecNames : VecRule[w] = Top.rule <=> w = v
    BY VecRulesAre
  <2> QED BY <1>1, <2>1
<1>5. Accounted(Front(parse), stack, vec')
  BY <1>1, <1>3, <1>4, AccountedReduced
<1> QED BY <1>2, <1>5 DEF Inv
-----------------------------------------------------------------------------
(* The actions *)

LEMMA Takes ==
  ASSUME Inv, NEW rules, NEW kinds, MayTake(rules, kinds), "none" \notin kinds
  PROVE  /\ parse # <<>> /\ Top.rule \in rules /\ val \in Values /\ val.kind \in kinds
         /\ <<Top.rule, Top.done, val.kind>> \in Grammar /\ Top \in Frames /\ Bounded(Top)
<1>1. parse # <<>> /\ Top.rule \in rules /\ val.kind \in kinds /\ <<Top.rule, Top.done, val.kind>> \in Grammar
  BY DEF MayTake, Innermost
<1>2. val # NoValue
  BY <1>1 DEF NoValue, Value
<1> QED BY <1>1, <1>2, TopType DEF Inv

LEMMA BeginActions ==
  ASSUME Inv,
         BeginExp \/ BeginFuncDef \/ BeginFuncFParams \/ BeginFuncFParam \/ BeginDecl \/ BeginDef
           \/ BeginInitVal \/ BeginBlock \/ BeginStmt \/ BeginWhile
  PROVE  Inv'
<1> USE RuleNames DEF ListKinds, Inner, Early
<1>1. CASE BeginExp
  <2>1. PICK rule \in {"LVal", "FuncRParams"} : Begin(rule)
    BY <1>1 DEF BeginExp
  <2> QED BY <1>1, <2>1, BeginStep DEF BeginExp
<1>2. CASE BeginFuncDef
  BY <1>2, BeginStep DEF BeginFuncDef
<1>3. CASE BeginFuncFParams
  BY <1>3, BeginStep DEF BeginFuncFParams
<1>4. CASE BeginFuncFParam
  <2>1. StackOf("FuncFParam") = "const_exp"
    BY DEF StackOf
  <2> QED BY <1>4, <2>1, BeginStep DEF BeginFuncFParam
<1>5. CASE BeginDecl
  <2>1. PICK rule \in {"ConstDecl", "VarDecl"} : Begin(rule)
    BY <1>5 DEF BeginDecl
  <2> QED BY <1>5, <2>1, BeginStep DEF BeginDecl
<1>6. CASE BeginDef
  <2>1. CASE MayBegin("ConstDef") /\ Begin("ConstDef")
    BY <1>6, <2>1, BeginStep DEF BeginDef
  <2>2. CASE MayBegin("VarDef") /\ Begin("VarDef")
    BY <1>6, <2>2, BeginStep DEF BeginDef
  <2> QED BY <1>6, <2>1, <2>2 DEF BeginDef
<1>7. CASE BeginInitVal
  <2>1. CASE MayBegin("ConstInitVal") /\ Begin("ConstInitVal")
    BY <1>7, <2>1, BeginStep DEF BeginInitVal
  <2>2. CASE MayBegin("InitVal") /\ Begin("InitVal")
    BY <1>7, <2>2, BeginStep DEF BeginInitVal
  <2> QED BY <1>7, <2>1, <2>2 DEF BeginInitVal
<1>8. CASE BeginBlock
  <2>1. StackOf("Block") = "block_item"
    BY DEF StackOf
  <2> QED BY <1>8, <2>1, BeginStep DEF BeginBlock
<1>9. CASE BeginStmt
  <2>1. PICK rule \in {"Stmt", "If"} : Begin(rule)
    BY <1>9 DEF BeginStmt
  <2> QED BY <1>9, <2>1, BeginStep DEF BeginStmt
<1>10. CASE BeginWhile
  <2>1. StackOf("While") = "last_while"
    BY DEF StackOf
  <2> QED BY <1>10, <2>1, BeginStep DEF BeginWhile
<1> QED BY <1>1, <1>2, <1>3, <1>4, <1>5, <1>6, <1>7, <1>8, <1>9, <1>10

LEMMA LeafActions ==
  ASSUME Inv, ReduceExp \/ ReduceFuncFParam \/ ReduceEmptyInitVal \/ ReduceEmptyStmt
  PROVE  Inv'
<1> USE LeafStep DEF Kinds
<1>1. CASE ReduceExp
  BY <1>1 DEF ReduceExp
<1>2. CASE ReduceFuncFParam
  BY <1>2 DEF ReduceFuncFParam
<1>3. CASE ReduceEmptyInitVal
  BY <1>3 DEF ReduceEmptyInitVal
<1>4. CASE ReduceEmptyStmt
  BY <1>4 DEF ReduceEmptyStmt
<1> QED BY <1>1, <1>2, <1>3, <1>4

LEMMA MemberActions ==
  ASSUME Inv, TakeIndex \/ TakeParamDim \/ TakeDim \/ TakeInitVal \/ TakeBlockItem
  PROVE  Inv'
<1>1. CASE TakeIndex
  <2>1. /\ parse # <<>> /\ Top.rule = "LVal" /\ val \in Values
        /\ Take(0, Append(Top.vals, val)) /\ UNCHANGED vec
        /\ IF Top.vals = <<>> THEN PushVec("exp", <<val>>) ELSE AddToTop("exp", val)
    BY <1>1, Takes DEF TakeIndex
  <2>2. StackOf(Top.rule) = "exp" /\ "exp" \in StackNames /\ (HasVec(Top, "exp") <=> Top.vals # <<>>)
    BY <2>1 DEF StackOf, StackNames, HasVec
  <2> QED BY <2>1, <2>2, TakeMember
<1>2. CASE TakeParamDim
  <2>1. /\ parse # <<>> /\ Top.rule = "FuncFParam" /\ val \in Values
        /\ Take(0, Append(Top.vals, val)) /\ UNCHANGED vec /\ AddToTop("const_exp", val)
    BY <1>2, Takes DEF TakeParamDim
  <2>2. /\ StackOf(Top.rule) = "const_exp" /\ "const_exp" \in StackNames
        /\ HasVec(Top, "const_exp")
    BY <2>1 DEF StackOf, StackNames, HasVec
  <2> QED BY <2>1, <2>2, TakeMember
<1>3. CASE TakeDim
  <2>1. /\ parse # <<>> /\ Top.rule \in {"ConstDef", "VarDef"} /\ val \in Values
        /\ Take(0, Append(Top.vals, val)) /\ UNCHANGED vec
        /\ IF Top.vals = <<>> THEN PushVec("const_exp", <<val>>) ELSE AddToTop("const_exp", val)
    BY <1>3, Takes DEF TakeDim
  <2>2. /\ StackOf(Top.rule) = "const_exp" /\ "const_exp" \in StackNames
        /\ HasVec(Top, "const_exp") <=> Top.vals # <<>>
    BY <2>1 DEF StackOf, StackNames, HasVec
  <2> QED BY <2>1, <2>2, TakeMember
<1>4. CASE TakeInitVal
  <2> DEFINE s == InitStack(Top.rule)
  <2>1. /\ parse # <<>> /\ Top.rule \in {"ConstInitVal", "InitVal"} /\ val \in Values
        /\ Take(0, Append(Top.vals, val)) /\ UNCHANGED vec
        /\ IF Top.vals = <<>> THEN PushVec(s, <<val>>) ELSE AddToTop(s, val)
    BY <1>4, Takes DEF TakeInitVal
  <2>2. StackOf(Top.rule) = s /\ s \in StackNames /\ (HasVec(Top, s) <=> Top.vals # <<>>)
    BY <2>1 DEF StackOf, StackNames, HasVec, InitStack
  <2> HIDE DEF s
  <2> QED BY <2>1, <2>2, TakeMember
<1>5. CASE TakeBlockItem
  <2>1. /\ parse # <<>> /\ Top.rule = "Block" /\ val \in Values
        /\ Take(0, Append(Top.vals, val)) /\ UNCHANGED vec /\ AddToTop("block_item", val)
    BY <1>5, Takes DEF TakeBlockItem
  <2>2. /\ StackOf(Top.rule) = "block_item" /\ "block_item" \in StackNames
        /\ HasVec(Top, "block_item")
    BY <2>1 DEF StackOf, StackNames, HasVec
  <2> QED BY <2>1, <2>2, TakeMember
<1> QED BY <1>1, <1>2, <1>3, <1>4, <1>5

LEMMA PartActions ==
  ASSUME Inv, TakeFuncPart \/ TakeInit \/ TakeStmtPart
  PROVE  Inv'
<1>1. CASE TakeFuncPart
  <2> DEFINE done == IF val.kind = "Block" THEN 2 ELSE 1
  <2>1. /\ parse # <<>> /\ Top.rule = "FuncDef" /\ Take(done, <<>>) /\ UNCHANGED <<stack, vec>>
    BY <1>1, Takes DEF TakeFuncPart
  <2>2. done \in 0 .. 3 /\ Top.rule \notin VecRules
    BY <2>1 DEF VecRules
  <2> HIDE DEF done
  <2> QED BY <2>1, <2>2, TakePart
<1>2. CASE TakeInit
  <2>1. /\ parse # <<>> /\ Top.rule \in {"ConstDef", "VarDef"} /\ Take(1, Top.vals)
        /\ UNCHANGED <<stack, vec>>
    BY <1>2, Takes DEF TakeInit
  <2>2. 1 \in 0 .. 3 /\ Top.rule \notin VecRules
    BY <2>1 DEF VecRules
  <2> QED BY <2>1, <2>2, TakePart
<1>3. CASE TakeStmtPart
  <2> DEFINE done == Top.done + 1
  <2>1. /\ parse # <<>> /\ Top.rule \in {"Stmt", "If", "While"} /\ Take(done, Top.vals)
        /\ UNCHANGED <<stack, vec>> /\ <<Top.rule, Top.done, val.kind>> \in Grammar
    BY <1>3, Takes DEF TakeStmtPart
  <2>2. done \in 0 .. 3 /\ Top.rule \notin VecRules
    BY <2>1, GrammarIs DEF VecRules
  <2> HIDE DEF done
  <2> QED BY <2>1, <2>2, TakePart
<1> QED BY <1>1, <1>2, <1>3

\* The members of a parameter list, pushed from the last one on.
LEMMA ParamVec ==
  ASSUME NEW f \in Frames, f.rule \in ParamRules, f.done \in 0 .. Len(f.vals)
  PROVE  /\ f.done = 0 => VecOf(f) = <<>>
         /\ VecOf(f) \in Seq(Values) /\ Len(VecOf(f)) = f.done
         /\ \A k \in 1 .. f.done : VecOf(f)[k] = f.vals[Len(f.vals) + 1 - k]
<1> DEFINE n == Len(f.vals)
           t == [k \in 1 .. f.done |-> f.vals[n + 1 - k]]
<1>1. f.vals \in Seq(Values) /\ n \in Nat /\ f.done \in Nat /\ \A k \in 1 .. n : f.vals[k] \in Values
  BY DEF Frames
<1>2. VecOf(f) = t
  BY DEF VecOf, ParamRules
<1>3. \A k \in 1 .. f.done : n + 1 - k \in 1 .. n
  BY <1>1
<1>4. t \in Seq(Values) /\ Len(t) = f.done
  <2>1. \A k \in 1 .. f.done : f.vals[n + 1 - k] \in Values
    BY <1>1, <1>3
  <2>2. t \in [1 .. f.done -> Values]
    BY <2>1
  <2> HIDE DEF t
  <2> QED BY <1>1, <2>2
<1>5. f.done = 0 => t = <<>>
  BY <1>4, EmptySeq
<1> QED BY <1>2, <1>4, <1>5

LEMMA ParamPushed ==
  ASSUME NEW f \in Frames, f.rule \in ParamRules, f.done \in 0 .. Len(f.vals) - 1,
         NEW g \in Frames, g.rule = f.rule, g.vals = f.vals, g.done = f.done + 1
  PROVE  VecOf(g) = Append(VecOf(f), f.vals[Len(f.vals) - f.done])
<1> DEFINE x == f.vals[Len(f.vals) - f.done]
<1>1. /\ f.vals \in Seq(Values) /\ Len(f.vals) \in Nat /\ f.done \in Nat /\ x \in Values
      /\ f.done \in 0 .. Len(f.vals) /\ g.done \in 0 .. Len(g.vals)
  BY DEF Frames
<1>2. /\ VecOf(f) \in Seq(Values) /\ Len(VecOf(f)) = f.done
      /\ \A k \in 1 .. f.done : VecOf(f)[k] = f.vals[Len(f.vals) + 1 - k]
  BY <1>1, ParamVec
<1>3. /\ VecOf(g) \in Seq(Values) /\ Len(VecOf(g)) = f.done + 1
      /\ \A k \in 1 .. f.done + 1 : VecOf(g)[k] = f.vals[Len(f.vals) + 1 - k]
  BY <1>1, ParamVec
<1>4. /\ Append(VecOf(f), x) \in Seq(Values) /\ Len(Append(VecOf(f), x)) = f.done + 1
      /\ \A k \in 1 .. f.done : Append(VecOf(f), x)[k] = VecOf(f)[k]
      /\ Append(VecOf(f), x)[f.done + 1] = x
  BY <1>1, <1>2, Appended
<1>5. ASSUME NEW k \in 1 .. f.done + 1 PROVE VecOf(g)[k] = Append(VecOf(f), x)[k]
  <2>1. CASE k = f.done + 1
    <3>1. Len(f.vals) + 1 - k = Len(f.vals) - f.done
      BY <1>1, <2>1
    <3> QED BY <1>3, <1>4, <2>1, <3>1
  <2>2. CASE k # f.done + 1
    <3>1. k \in 1 .. f.done
      BY <1>1, <2>2
    <3> QED BY <1>2, <1>3, <1>4, <3>1
  <2> QED BY <2>1, <2>2
<1> HIDE DEF x
<1> QED BY <1>3, <1>4, <1>5, SeqEqual DEF x

\* and read from the top of the stack.
LEMMA ParamList ==
  ASSUME NEW f \in Frames, f.rule \in ParamRules, f.vals # <<>>, f.done = Len(f.vals) - 1
  PROVE  Reverse(Append(VecOf(f), f.vals[1])) = f.vals
<1> DEFINE n == Len(f.vals)
           t == Append(VecOf(f), f.vals[1])
<1>1. f.vals \in Seq(Values) /\ n \in Nat \ {0} /\ f.vals[1] \in Values
  <2>1. f.vals \in Seq(Values)
    BY DEF Frames
  <2> QED BY <2>1, EmptySeq
<1>2. /\ VecOf(f) \in Seq(Values) /\ Len(VecOf(f)) = n - 1
      /\ \A k \in 1 .. n - 1 : VecOf(f)[k] = f.vals[n + 1 - k]
  BY <1>1, ParamVec
<1>3. /\ t \in Seq(Values) /\ Len(t) = n /\ t[n] = f.vals[1]
      /\ \A k \in 1 .. n - 1 : t[k] = f.vals[n + 1 - k]
  BY <1>1, <1>2, Appended
<1> HIDE DEF t
<1>4. \A k \in 1 .. n : t[n - k + 1] = f.vals[k]
  <2> SUFFICES ASSUME NEW k \in 1 .. n PROVE t[n - k + 1] = f.vals[k]
    OBVIOUS
  <2>1. CASE k = 1
    <3>1. n - k + 1 = n
      BY <1>1, <2>1
    <3> QED BY <1>3, <2>1, <3>1
  <2>2. CASE k # 1
    <3>1. n - k + 1 \in 1 .. n - 1 /\ n + 1 - (n - k + 1) = k
      BY <1>1, <2>2
    <3> QED BY <1>3, <3>1
  <2> QED BY <2>1, <2>2
<1>5. Reverse(t) = [k \in 1 .. n |-> t[n - k + 1]]
  BY <1>3 DEF Reverse
<1>6. Reverse(t) = [k \in 1 .. n |-> f.vals[k]]
  BY <1>4, <1>5
<1>7. f.vals = [k \in 1 .. n |-> f.vals[k]]
  BY <1>1
<1> QED BY <1>6, <1>7 DEF t

LEMMA ParamNames ==
  ASSUME Top.rule \in ParamRules,
         NEW v, v = IF Top.rule = "FuncRParams" THEN "func_r_params" ELSE "func_f_params"
  PROVE  v \in VecNames /\ VecRule[v] = Top.rule
  BY DEF ParamRules, VecNames, VecRule

LEMMA ParamActions ==
  ASSUME Inv, TakeParam \/ ReduceParamSeq
  PROVE  Inv'
<1> DEFINE v == IF Top.rule = "FuncRParams" THEN "func_r_params" ELSE "func_f_params"
<1>1. CASE TakeParam
  <2>1. /\ parse # <<>> /\ Top.rule \in ParamRules /\ val \in Values /\ Top \in Frames
        /\ Take(0, Append(Top.vals, val)) /\ UNCHANGED <<stack, vec>>
        /\ <<Top.rule, Top.done, val.kind>> \in Grammar
    BY <1>1, Takes DEF TakeParam, ParamRules
  <2>2. v \in VecNames /\ VecRule[v] = Top.rule
    BY <2>1, ParamNames
  <2> HIDE DEF v
  <2>3. PICK vals \in Seq(Values) : vals = Append(Top.vals, val) /\ vals # <<>>
    BY <2>1, Appended DEF Frames
  <2>4. PICK f \in Frames : /\ f = [Top EXCEPT !.done = 0, !.vals = vals]
                           /\ f.rule = Top.rule /\ f.done = 0 /\ f.vals = vals
    <3>1. 0 \in Nat
      OBVIOUS
    <3> QED BY <2>1, <3>1, TakenTop
  <2>5. VecOf(f) = <<>> /\ Bounded(f)
    <3>1. 0 \in 0 .. Len(f.vals)
      BY <2>3, <2>4
    <3> QED BY <2>1, <2>3, <2>4, <3>1, ParamVec DEF Bounded
  <2>6. vec[v] = <<>>
    <3>1. Top.done = 0 /\ 0 \in 0 .. Len(Top.vals)
      BY <2>1, GrammarIs DEF Frames
    <3>2. VecOf(Top) = <<>>
      BY <2>1, <3>1, ParamVec
    <3> QED BY <2>1, <2>2, <3>2, TopType
  <2>7. vec' = [vec EXCEPT ![v] = VecOf(f)]
    BY <2>1, <2>5, <2>6, TopType
  <2>8. VecOf(f) \in Seq(Values)
    BY <2>5, EmptySeq
  <2>9. parse' = Append(Front(parse), f) /\ val' = NoValue /\ UNCHANGED <<node, next>>
    BY <2>1, <2>3, <2>4 DEF Take
  <2> QED BY <2>1, <2>2, <2>4, <2>5, <2>7, <2>8, <2>9, TakeVec
<1>2. CASE ReduceParamSeq
  <2>1. /\ parse # <<>> /\ Top.rule \in ParamRules /\ Top.done < Len(Top.vals) - 1
        /\ vec' = [vec EXCEPT ![v] = Append(@, Top.vals[Len(Top.vals) - Top.done])]
        /\ parse' = Append(Front(parse), [Top EXCEPT !.done = @ + 1])
        /\ UNCHANGED <<val, stack, node, next>>
    BY <1>2 DEF ReduceParamSeq, MayReduce, Innermost, ParamRules
  <2>2. v \in VecNames /\ VecRule[v] = Top.rule
    BY <2>1, ParamNames
  <2> HIDE DEF v
  <2>3. /\ Top \in Frames /\ vec \in [VecNames -> Seq(Values)] /\ vec[v] = VecOf(Top)
        /\ Top.vals \in Seq(Values) /\ Top.done \in Nat
    BY <2>1, <2>2, TopType DEF Frames
  <2> DEFINE f == [Top EXCEPT !.done = @ + 1]
  <2>4. f \in Frames
    BY <2>3 DEF Frames
  <2>5. f.rule = Top.rule /\ f.done = Top.done + 1 /\ f.vals = Top.vals
    BY <2>3 DEF Frames
  <2> HIDE DEF f
  <2>6. VecOf(f) = Append(VecOf(Top), Top.vals[Len(Top.vals) - Top.done])
    <3>1. Top.done \in 0 .. Len(Top.vals) - 1
      BY <2>1, <2>3
    <3> QED BY <2>1, <2>3, <2>4, <2>5, <3>1, ParamPushed
  <2>7. vec' = [vec EXCEPT ![v] = VecOf(f)]
    BY <2>1, <2>3, <2>6
  <2>8. VecOf(f) \in Seq(Values) /\ Bounded(f)
    <3>1. f.done \in 0 .. Len(f.vals) /\ f.vals # <<>>
      BY <2>1, <2>3, <2>5, EmptySeq
    <3> QED BY <2>1, <2>4, <2>5, <3>1, ParamVec DEF Bounded
  <2>9. parse' = Append(Front(parse), f) /\ val' \in Values \cup {NoValue}
    BY <2>1 DEF f, Inv
  <2> QED BY <2>1, <2>2, <2>4, <2>5, <2>7, <2>8, <2>9, TakeVec
<1> QED BY <1>1, <1>2

LEMMA VecActions ==
  ASSUME Inv, TakeDef \/ TakeCompUnitEle
  PROVE  Inv'
<1>1. CASE TakeDef
  <2> DEFINE v == DefVec(Top.rule)
  <2>1. /\ parse # <<>> /\ Top.rule \in {"ConstDecl", "VarDecl"} /\ val \in Values /\ Top \in Frames
        /\ Take(0, Append(Top.vals, val)) /\ vec' = [vec EXCEPT ![v] = Append(@, val)]
        /\ UNCHANGED stack
    BY <1>1, Takes DEF TakeDef
  <2>2. v \in VecNames /\ VecRule[v] = Top.rule
    BY <2>1 DEF DefVec, VecNames, VecRule
  <2> HIDE DEF v
  <2>3. PICK vals \in Seq(Values) : vals = Append(Top.vals, val) /\ vals # <<>>
    BY <2>1, Appended DEF Frames
  <2>4. PICK f \in Frames : /\ f = [Top EXCEPT !.done = 0, !.vals = vals]
                           /\ f.rule = Top.rule /\ f.done = 0 /\ f.vals = vals
    <3>1. 0 \in Nat
      OBVIOUS
    <3> QED BY <2>1, <3>1, TakenTop
  <2>5. VecOf(f) = vals /\ VecOf(Top) = Top.vals /\ Bounded(f)
    BY <2>1, <2>4 DEF VecOf, Bounded, ParamRules
  <2>6. vec[v] = Top.vals /\ vec \in [VecNames -> Seq(Values)]
    BY <2>1, <2>2, <2>5, TopType
  <2>7. vec' = [vec EXCEPT ![v] = VecOf(f)]
    BY <2>1, <2>3, <2>5, <2>6
  <2>8. parse' = Append(Front(parse), f) /\ val' = NoValue /\ UNCHANGED <<node, next>>
    BY <2>1, <2>3, <2>4 DEF Take
  <2> QED BY <2>1, <2>2, <2>4, <2>5, <2>7, <2>8, TakeVec
<1>2. CASE TakeCompUnitEle
  <2>1. /\ parse # <<>> /\ Top.rule = "CompUnit" /\ val \in Values /\ Top \in Frames
        /\ Take(0, Append(Top.vals, val)) /\ UNCHANGED stack
        /\ IF Top.vals = <<>> THEN UNCHANGED vec
           ELSE vec' = [vec EXCEPT !["comp_unit"] = Append(@, val)]
    BY <1>2, Takes DEF TakeCompUnitEle
  <2>2. "comp_unit" \in VecNames /\ VecRule["comp_unit"] = Top.rule
    BY <2>1 DEF VecNames, VecRule
  <2>3. Top.vals \in Seq(Values)
    BY <2>1 DEF Frames
  <2>4. PICK vals \in Seq(Values) : vals = Append(Top.vals, val) /\ vals # <<>>
    BY <2>1, <2>3, Appended
  <2>5. PICK f \in Frames : /\ f = [Top EXCEPT !.done = 0, !.vals = vals]
                           /\ f.rule = Top.rule /\ f.done = 0 /\ f.vals = vals
    <3>1. 0 \in Nat
      OBVIOUS
    <3> QED BY <2>1, <3>1, TakenTop
  <2>6. /\ VecOf(f) = Tail(vals) /\ Bounded(f)
        /\ VecOf(Top) = IF Top.vals = <<>> THEN <<>> ELSE Tail(Top.vals)
    BY <2>1, <2>4, <2>5 DEF VecOf, Bounded, ParamRules
  <2>7. vec["comp_unit"] = VecOf(Top) /\ vec \in [VecNames -> Seq(Values)]
    BY <2>1, <2>2, TopType
  <2>8. VecOf(f) \in Seq(Values) /\ vec' = [vec EXCEPT !["comp_unit"] = VecOf(f)]
    <3>1. CASE Top.vals = <<>>
      <4>1. Len(vals) = 1
        BY <2>1, <2>3, <2>4, <3>1, EmptySeq, Appended
      <4>2. Tail(vals) \in Seq(Values) /\ Len(Tail(vals)) = 0
        BY <2>4, <4>1, HeadTailProperties
      <4>3. Tail(vals) = <<>>
        BY <4>2, EmptySeq
      <4>4. VecOf(f) = vec["comp_unit"]
        BY <2>6, <2>7, <3>1, <4>3
      <4> QED BY <2>1, <2>2, <2>7, <3>1, <4>4
    <3>2. CASE Top.vals # <<>>
      <4>1. Tail(vals) = Append(Tail(Top.vals), val)
        BY <2>1, <2>3, <2>4, <3>2, TailAppended
      <4>2. Tail(vals) \in Seq(Values)
        BY <2>4, HeadTailProperties
      <4> QED BY <2>1, <2>6, <2>7, <3>2, <4>1, <4>2
    <3> QED BY <3>1, <3>2
  <2>9. parse' = Append(Front(parse), f) /\ val' = NoValue /\ UNCHANGED <<node, next>>
    BY <2>1, <2>4, <2>5 DEF Take
  <2> QED BY <2>1, <2>2, <2>5, <2>6, <2>8, <2>9, TakeVec
<1> QED BY <1>1, <1>2

LEMMA Reduces ==
  ASSUME Inv, NEW rules, MayReduce(rules)
  PROVE  parse # <<>> /\ Top.rule \in rules /\ Complete(Top) /\ Top \in Frames
  BY TopType DEF MayReduce, Innermost

LEMMA PopActions ==
  ASSUME Inv, ReduceLVal \/ ReduceArrayParam \/ ReduceInitVal \/ ReduceBlock \/ ReduceWhile
  PROVE  Inv'
<1> USE DEF Kinds
<1>1. CASE ReduceLVal
  <2>1. parse # <<>> /\ Top.rule = "LVal" /\ Complete(Top)
    BY <1>1, Reduces DEF ReduceLVal
  <2>2. "exp" \in StackNames /\ HasVec(Top, "exp")
    BY <2>1 DEF StackOf, StackNames, HasVec, Complete
  <2> QED BY <1>1, <2>1, <2>2, PopStep DEF ReduceLVal
<1>2. CASE ReduceArrayParam
  <2>1. parse # <<>> /\ Top.rule = "FuncFParam"
    BY <1>2, Reduces DEF ReduceArrayParam
  <2>2. "const_exp" \in StackNames /\ HasVec(Top, "const_exp")
    BY <2>1 DEF StackOf, StackNames, HasVec
  <2> QED BY <1>2, <2>1, <2>2, PopStep DEF ReduceArrayParam
<1>3. CASE ReduceInitVal
  <2> DEFINE s == InitStack(Top.rule)
  <2>1. /\ parse # <<>> /\ Top.rule \in {"ConstInitVal", "InitVal"} /\ Complete(Top)
        /\ ReduceList(Top.rule, Last(stack[s])) /\ PopVec(s) /\ UNCHANGED vec
    BY <1>3, Reduces DEF ReduceInitVal
  <2>2. s \in StackNames /\ HasVec(Top, s)
    BY <2>1 DEF StackOf, StackNames, HasVec, Complete, InitStack
  <2> HIDE DEF s
  <2> QED BY <2>1, <2>2, PopStep
<1>4. CASE ReduceBlock
  <2>1. parse # <<>> /\ Top.rule = "Block"
    BY <1>4, Reduces DEF ReduceBlock
  <2>2. "block_item" \in StackNames /\ HasVec(Top, "block_item")
    BY <2>1 DEF StackOf, StackNames, HasVec
  <2> QED BY <1>4, <2>1, <2>2, PopStep DEF ReduceBlock
<1>5. CASE ReduceWhile
  <2>1. parse # <<>> /\ Top.rule = "While"
    BY <1>5, Reduces DEF ReduceWhile
  <2>2. "last_while" \in StackNames /\ HasVec(Top, "last_while")
    BY <2>1 DEF StackOf, StackNames, HasVec
  <2> QED BY <1>5, <2>1, <2>2, PopStep DEF ReduceWhile
<1> QED BY <1>1, <1>2, <1>3, <1>4, <1>5

LEMMA PlainActions ==
  ASSUME Inv, ReduceFuncDef \/ ReduceStmt \/ ReduceDef
  PROVE  Inv'
<1> USE DEF Kinds
<1>1. CASE ReduceFuncDef
  <2>1. parse # <<>> /\ Top.rule = "FuncDef"
    BY <1>1, Reduces DEF ReduceFuncDef
  <2>2. Top.rule \notin VecRules /\ \A s \in StackNames : ~ HasVec(Top, s)
    BY <2>1 DEF StackOf, StackNames, HasVec, VecRules
  <2> QED BY <1>1, <2>1, <2>2, PlainStep DEF ReduceFuncDef
<1>2. CASE ReduceStmt
  <2>1. parse # <<>> /\ Top.rule \in {"Stmt", "If"}
    BY <1>2, Reduces DEF ReduceStmt
  <2>2. Top.rule \notin VecRules /\ \A s \in StackNames : ~ HasVec(Top, s)
    BY <2>1 DEF StackOf, StackNames, HasVec, VecRules
  <2> QED BY <1>2, <2>1, <2>2, PlainStep DEF ReduceStmt
<1>3. CASE ReduceDef
  <2>1. parse # <<>> /\ Top.rule \in {"ConstDef", "VarDef"} /\ UNCHANGED vec
    BY <1>3, Reduces DEF ReduceDef
  <2>2. CASE Top.vals = <<>>
    <3>1. Top.rule \notin VecRules /\ \A s \in StackNames : ~ HasVec(Top, s)
      BY <2>1, <2>2 DEF HasVec, VecRules
    <3>2. Reduce(Top.rule) /\ parse' = Front(parse) /\ UNCHANGED <<stack, vec, node>>
      BY <1>3, <2>2 DEF ReduceDef
    <3> QED BY <2>1, <3>1, <3>2, PlainStep
  <2>3. CASE Top.vals # <<>>
    <3>1. "const_exp" \in StackNames /\ HasVec(Top, "const_exp")
      BY <2>1, <2>3 DEF StackOf, StackNames, HasVec
    <3>2. ReduceList(Top.rule, Last(stack["const_exp"])) /\ PopVec("const_exp")
      BY <1>3, <2>3 DEF ReduceDef
    <3> QED BY <2>1, <3>1, <3>2, PopStep
  <2> QED BY <2>2, <2>3
<1> QED BY <1>1, <1>2, <1>3

LEMMA ClearActions ==
  ASSUME Inv, ReduceFuncRParams \/ ReduceFuncFParams \/ ReduceDecl \/ ReduceCompUnit
  PROVE  Inv'
<1> USE DEF Kinds
<1>1. CASE ReduceFuncRParams
  <2>1. /\ parse # <<>> /\ Top.rule = "FuncRParams" /\ Top.vals # <<>> /\ Top \in Frames
        /\ Top.done = Len(Top.vals) - 1
    BY <1>1, Reduces DEF ReduceFuncRParams, Complete
  <2>2. "func_r_params" \in VecNames /\ VecRule["func_r_params"] = Top.rule /\ Top.rule \in ParamRules
    BY <2>1 DEF VecNames, VecRule, ParamRules
  <2>3. vec["func_r_params"] = VecOf(Top)
    BY <2>1, <2>2, TopType
  <2>4. Reverse(Append(vec["func_r_params"], Top.vals[1])) = Top.vals
    BY <2>1, <2>2, <2>3, ParamList
  <2> QED BY <1>1, <2>1, <2>2, <2>4, ClearStep DEF ReduceFuncRParams
<1>2. CASE ReduceFuncFParams
  <2>1. /\ parse # <<>> /\ Top.rule = "FuncFParams" /\ Top.vals # <<>> /\ Top \in Frames
        /\ Top.done = Len(Top.vals) - 1
    BY <1>2, Reduces DEF ReduceFuncFParams, Complete
  <2>2. "func_f_params" \in VecNames /\ VecRule["func_f_params"] = Top.rule /\ Top.rule \in ParamRules
    BY <2>1 DEF VecNames, VecRule, ParamRules
  <2>3. vec["func_f_params"] = VecOf(Top)
    BY <2>1, <2>2, TopType
  <2>4. Reverse(Append(vec["func_f_params"], Top.vals[1])) = Top.vals
    BY <2>1, <2>2, <2>3, ParamList
  <2> QED BY <1>2, <2>1, <2>2, <2>4, ClearStep DEF ReduceFuncFParams
<1>3. CASE ReduceDecl
  <2> DEFINE v == DefVec(Top.rule)
  <2>1. /\ parse # <<>> /\ Top.rule \in {"ConstDecl", "VarDecl"}
        /\ ReduceList("Decl", vec[v]) /\ vec' = [vec EXCEPT ![v] = <<>>] /\ UNCHANGED stack
    BY <1>3, Reduces DEF ReduceDecl
  <2>2. v \in VecNames /\ VecRule[v] = Top.rule
    BY <2>1 DEF DefVec, VecNames, VecRule
  <2> HIDE DEF v
  <2>3. vec[v] = Top.vals
    <3>1. VecOf(Top) = Top.vals
      BY <2>1 DEF VecOf
    <3> QED BY <2>1, <2>2, <3>1, TopType
  <2> QED BY <2>1, <2>2, <2>3, ClearStep
<1>4. CASE ReduceCompUnit
  <2>1. /\ parse # <<>> /\ Top.rule = "CompUnit" /\ Top.vals # <<>> /\ Top \in Frames
    BY <1>4, Reduces DEF ReduceCompUnit, Complete
  <2>2. "comp_unit" \in VecNames /\ VecRule["comp_unit"] = Top.rule
    BY <2>1 DEF VecNames, VecRule
  <2>3. vec["comp_unit"] = Tail(Top.vals)
    <3>1. VecOf(Top) = Tail(Top.vals)
      BY <2>1 DEF VecOf
    <3> QED BY <2>1, <2>2, <3>1, TopType
  <2>4. <<Top.vals[1]>> \o vec["comp_unit"] = Top.vals
    <3>1. Top.vals \in Seq(Values) /\ Top.vals[1] \in Values /\ Head(Top.vals) = Top.vals[1]
      <4>1. Top.vals \in Seq(Values)
        BY <2>1 DEF Frames
      <4> QED BY <2>1, <4>1, EmptySeq
    <3> QED BY <2>1, <2>3, <3>1, Prepended
  <2> QED BY <1>4, <2>1, <2>2, <2>4, ClearStep DEF ReduceCompUnit
<1> QED BY <1>1, <1>2, <1>3, <1>4

LEMMA LoopExitAction ==
  ASSUME Inv, ReduceLoopExit
  PROVE  Inv'
<1>1. /\ Reduce("Stmt") /\ AddToTop("last_while", val') /\ UNCHANGED <<vec, node>>
  BY DEF ReduceLoopExit
<1>2. Accounted(parse, stack, vec) /\ parse \in Seq(Frames)
  BY DEF Inv, Accounted
<1>3. val' \in Values /\ next' \in Nat
  <2>1. "Stmt" \in Kinds
    BY DEF Kinds
  <2> QED BY <1>1, <2>1, ReducedValue
<1>4. PICK w \in Whiles : /\ \A i \in Whiles : i <= w
                         /\ parse' = [parse EXCEPT ![w].vals = Append(@, val')]
  BY DEF ReduceLoopExit
<1>5. /\ w \in 1 .. Len(parse) /\ parse[w].rule = "While"
      /\ \A i \in 1 .. Len(parse) : parse[i].rule = "While" => i <= w
  BY <1>2, <1>4 DEF Whiles
<1>6. PICK x : x = val'
  OBVIOUS
<1>7. stack' = [stack EXCEPT !["last_while"] = Append(Front(@), Append(Last(@), x))]
  BY <1>1, <1>6 DEF AddToTop
<1>8. Accounted([parse EXCEPT ![w].vals = Append(@, x)], stack', vec)
  BY ONLY <1>2, <1>3, <1>5, <1>6, <1>7, AccountedLoopExit
<1> QED BY <1>1, <1>3, <1>4, <1>6, <1>8 DEF Inv, ListsAreSource
-----------------------------------------------------------------------------
(* The invariant and what follows from it *)

LEMMA InvInit == Init => Inv
<1> SUFFICES ASSUME Init PROVE Inv
  OBVIOUS
<1> DEFINE f == [rule |-> "CompUnit", done |-> 0, vals |-> <<>>]
<1>1. f \in Frames
  BY RuleNames DEF Frames
<1>2. parse \in Seq(Frames) /\ Len(parse) = 1 /\ parse[1] = f
  BY <1>1 DEF Init
<1>3. Nested(parse) /\ \A i \in 1 .. Len(parse) : Bounded(parse[i])
  BY <1>2 DEF Nested, Bounded, ParamRules, Lists, Inner
<1>4. stack \in [StackNames -> Seq(Seq(Values))] /\ \A s \in StackNames : Held(parse, s, stack[s])
  <2>1. ASSUME NEW s \in StackNames PROVE Held(parse, s, stack[s])
    <3>1. HoldersIn(parse, s, 1) = {}
      BY <1>2 DEF HoldersIn, HasVec, StackOf, StackNames
    <3> QED BY <1>2, <3>1, FS_EmptySet DEF Held, Init
  <2> QED BY <2>1 DEF Init
<1>5. vec \in [VecNames -> Seq(Values)] /\ \A v \in VecNames : Kept(parse, v, vec[v])
  <2>1. ASSUME NEW v \in VecNames PROVE Kept(parse, v, vec[v])
    <3>1. Users(parse, v) = {}
      BY <1>2 DEF Users, VecOf
    <3> QED BY <3>1 DEF Kept, Init
  <2> QED BY <2>1 DEF Init
<1> QED BY <1>2, <1>3, <1>4, <1>5 DEF Init, Inv, Accounted, Nodes, ListsAreSource

LEMMA InvNext == Inv /\ [Next]_vars => Inv'
<1> SUFFICES ASSUME Inv, [Next]_vars PROVE Inv'
  OBVIOUS
<1>1. ASSUME UNCHANGED vars PROVE Inv'
  BY <1>1 DEF vars, Inv, ListsAreSource
<1>2. CASE Finish
  BY <1>1, <1>2 DEF Finish
<1>3. CASE Next /\ ~ Finish
  BY <1>3, BeginActions, LeafActions, MemberActions, PartActions, ParamActions, VecActions, PopActions,
     PlainActions, ClearActions, LoopExitAction, Zenon DEF Next
<1> QED BY <1>1, <1>2, <1>3

LEMMA InvImplies == Inv => TypeOK /\ OwnVectors /\ OwnMembers
<1> SUFFICES ASSUME Inv PROVE TypeOK /\ OwnVectors /\ OwnMembers
  OBVIOUS
<1>1. /\ parse \in Seq(Frames) /\ \A i \in 1 .. Len(parse) : Bounded(parse[i])
      /\ stack \in [StackNames -> Seq(Seq(Values))] /\ \A s \in StackNames : Held(parse, s, stack[s])
      /\ vec \in [VecNames -> Seq(Values)] /\ \A v \in VecNames : Kept(parse, v, vec[v])
      /\ DOMAIN parse = 1 .. Len(parse)
  BY DEF Inv, Accounted
<1>2. TypeOK
  BY <1>1 DEF TypeOK, Inv, Bounded, ParamRules
<1>3. OwnVectors
  <2>1. \A s, n : Holders(s, n) = HoldersIn(parse, s, n)
    BY DEF Holders, HoldersIn
  <2> QED BY <1>1, <2>1 DEF OwnVectors, Held
<1>4. OwnMembers
  <2>1. ASSUME NEW v \in VecNames
        PROVE  Users(parse, v)
                 = {i \in DOMAIN parse : parse[i].rule = VecRule[v] /\ VecOf(parse[i]) # <<>>}
    BY <1>1 DEF Users
  <2>2. \A v \in VecNames : Kept(parse, v, vec[v])
    BY <1>1
  <2> QED BY <2>1, <2>2 DEF OwnMembers, Kept
<1> QED BY <1>2, <1>3, <1>4

\* At every step of yyparse the static stacks and vectors hold exactly the
\* members of the rules that are open.
THEOREM Invariant == Spec => []Inv
<1>1. Init => Inv
  BY InvInit
<1>2. Inv /\ [Next]_vars => Inv'
  BY InvNext
<1> QED BY <1>1, <1>2, PTL DEF Spec

\* The static variables keep their types, and no rule is recognised further
\* than its grammar goes.
THEOREM Typing == Spec => []TypeOK
  BY Invariant, InvImplies, PTL

\* However deep the lists of a text lie in one another, each stack holds one
\* vector for each open rule that uses it: top() is the innermost rule's, and
\* it is never taken from an empty stack.
THEOREM VectorsOwned == Spec => []OwnVectors
  BY Invariant, InvImplies, PTL

\* The vectors that are no stacks of vectors never hold members of two rules.
THEOREM MembersOwned == Spec => []OwnMembers
  BY Invariant, InvImplies, PTL

\* Every list node of the tree has the members the text gives it, in their
\* order, for texts of any size and any depth.
THEOREM ListsRead == Spec => []ListsAreSource
<1>1. Inv => ListsAreSource
  BY DEF Inv
<1> QED BY <1>1, Invariant, PTL
=============================================================================
