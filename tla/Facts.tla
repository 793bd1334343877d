-------------------------------- MODULE Facts --------------------------------
(***************************************************************************)
(* What the proofs of several components need of numbers, sets and         *)
(* sequences.  Induction and recursion on the natural numbers are stated   *)
(* with sets and functions: a property is the set of the numbers that have *)
(* it, and the step of a recursion is a function.                          *)
(***************************************************************************)
EXTENDS Integers, Sequences, FiniteSets, SequenceTheorems, FiniteSetTheorems,
        WellFoundedInduction, TLAPS

\* A nonempty set of natural numbers has a least element.
LEMMA LeastElement ==
  ASSUME NEW T \in SUBSET Nat, T # {}
  PROVE  \E x \in T : \A y \in T : x <= y
<1> DEFINE less == {p \in Nat \X Nat : p[1] < p[2]}
<1>1. IsWellFoundedOn(less, Nat)
  BY NatLessThanWellFounded, Zenon DEF OpToRel
<1> HIDE DEF less
<1>2. PICK x \in T : \A y \in T : ~ (<<y, x>> \in less)
  BY <1>1, WFMin, Zenon
<1>3. ASSUME NEW y \in T PROVE x <= y
  <2>1. <<y, x>> \in less <=> y < x
    BY DEF less
  <2> QED BY <2>1, <1>2
<1> QED
  BY <1>2, <1>3

\* What holds at a, and at each next number up to b, holds from a to b.
LEMMA Climb ==
  ASSUME NEW a \in Nat, NEW b \in Nat, NEW S,
         a \in S, \A n \in a .. b - 1 : n \in S => n + 1 \in S
  PROVE  \A n \in a .. b : n \in S
<1> DEFINE T == {n \in a .. b : n \notin S}
<1> SUFFICES ASSUME T # {} PROVE FALSE
  OBVIOUS
<1>1. PICK x \in T : \A y \in T : x <= y
  <2>1. T \in SUBSET Nat
    OBVIOUS
  <2> HIDE DEF T
  <2> QED BY <2>1, LeastElement
<1>2. x # a /\ x - 1 \in a .. b - 1
  OBVIOUS
<1>3. x - 1 \in S
  BY <1>1, <1>2
<1> QED
  BY <1>2, <1>3

\* A recursion over 1 .. L has a result: g makes each value of the one before.
Iterates(f, L, a, g) == f[0] = a /\ \A i \in 1 .. L : f[i] = g[<<i, f[i - 1]>>]
LEMMA Iterated ==
  ASSUME NEW L \in Nat, NEW T, NEW a \in T, NEW g \in [(1 .. L) \X T -> T]
  PROVE  \E f \in [0 .. L -> T] : Iterates(f, L, a, g)
<1> DEFINE upto(m, f) == f[0] = a /\ \A i \in 1 .. m : f[i] = g[<<i, f[i - 1]>>]
           S == {m \in 0 .. L : \E f \in [0 .. m -> T] : upto(m, f)}
<1>1. 0 \in S
  <2> DEFINE f == [i \in 0 .. 0 |-> a]
  <2>1. f \in [0 .. 0 -> T] /\ upto(0, f) /\ 0 \in 0 .. L
    OBVIOUS
  <2> HIDE DEF f, upto
  <2> QED BY <2>1
<1>2. ASSUME NEW m \in 0 .. L - 1, m \in S PROVE m + 1 \in S
  <2>1. PICK f \in [0 .. m -> T] : upto(m, f)
    BY <1>2
  <2> DEFINE h == [i \in 0 .. m + 1 |-> IF i = m + 1 THEN g[<<m + 1, f[m]>>] ELSE f[i]]
  <2>2. m \in Nat /\ m + 1 \in 1 .. L /\ m + 1 \in 0 .. L
    OBVIOUS
  <2>3. f[m] \in T /\ g[<<m + 1, f[m]>>] \in T
    BY <2>2
  <2>4. h \in [0 .. m + 1 -> T]
    BY <2>2, <2>3
  <2>5. h[m + 1] = g[<<m + 1, f[m]>>] /\ \A i \in 0 .. m : h[i] = f[i]
    BY <2>2
  <2> HIDE DEF h
  <2>6. upto(m + 1, h)
    <3>1. h[0] = a
      BY <2>1, <2>2, <2>5
    <3>2. ASSUME NEW i \in 1 .. m + 1 PROVE h[i] = g[<<i, h[i - 1]>>]
      <4>1. CASE i = m + 1
        <5>1. i - 1 = m /\ m \in 0 .. m
          BY <2>2, <4>1
        <5> QED BY <2>5, <4>1, <5>1
      <4>2. CASE i \in 1 .. m
        <5>1. i \in 0 .. m /\ i - 1 \in 0 .. m
          BY <2>2, <4>2
        <5> QED BY <2>1, <2>5, <4>2, <5>1
      <4> QED BY <2>2, <4>1, <4>2
    <3> QED BY <3>1, <3>2
  <2> HIDE DEF upto
  <2> QED BY <2>2, <2>4, <2>6
<1> HIDE DEF S
<1>3. \A m \in 0 .. L : m \in S
  BY <1>1, <1>2, Climb
<1>4. L \in S
  BY <1>3
<1> QED BY <1>4 DEF S, Iterates
-----------------------------------------------------------------------------
\* A function that follows next until it stops, and yields the place where it
\* stops, exists, whether or not it stops from every place: as the definition
\* of a recursive function chooses one, it satisfies its own equation.
LEMMA Following ==
  ASSUME NEW D, NEW stop, NEW next \in [D -> D]
  PROVE  \E f : f = [t \in D |-> IF t \in stop THEN t ELSE f[next[t]]]
<1> DEFINE closed(S) == \A t \in S : t \notin stop => next[t] \in S
           reach(t) == {u \in D : \A S \in SUBSET D : t \in S /\ closed(S) => u \in S}
           ends(t) == {u \in reach(t) : u \in stop}
           f == [t \in D |-> CHOOSE u : u \in ends(t)]
<1>1. ASSUME NEW t \in D, t \in stop PROVE ends(t) = {t}
  <2>1. closed({t}) /\ {t} \in SUBSET D
    BY <1>1
  <2>2. reach(t) = {t}
    BY <2>1
  <2> QED BY <1>1, <2>2
<1>2. ASSUME NEW t \in D, t \notin stop PROVE ends(t) = ends(next[t])
  <2>1. reach(next[t]) \subseteq reach(t)
    BY <1>2
  <2>2. ASSUME NEW u \in reach(t), u # t PROVE u \in reach(next[t])
    <3> SUFFICES ASSUME NEW S \in SUBSET D, next[t] \in S, closed(S) PROVE u \in S
      OBVIOUS
    <3>1. closed(S \cup {t}) /\ S \cup {t} \in SUBSET D
      BY <1>2
    <3> QED BY <3>1, <2>2
  <2> QED BY <1>2, <2>1, <2>2
<1>3. \A t \in D : t \in stop => f[t] = t
  <2> SUFFICES ASSUME NEW t \in D, t \in stop PROVE f[t] = t
    OBVIOUS
  <2> HIDE DEF ends
  <2>1. f[t] = CHOOSE u : u \in {t}
    BY <1>1
  <2> QED BY <2>1
<1>4. \A t \in D : t \notin stop => f[t] = f[next[t]]
  <2> SUFFICES ASSUME NEW t \in D, t \notin stop PROVE f[t] = f[next[t]]
    OBVIOUS
  <2> HIDE DEF ends
  <2>1. next[t] \in D /\ ends(t) = ends(next[t])
    BY <1>2
  <2> QED BY <2>1
<1>5. f = [t \in D |-> f[t]]
  OBVIOUS
<1> HIDE DEF f
<1>6. f = [t \in D |-> IF t \in stop THEN t ELSE f[next[t]]]
  BY <1>3, <1>4, <1>5
<1> QED BY <1>6
-----------------------------------------------------------------------------
\* The elements of a set of positions, counted.
LEMMA CountUpTo ==
  ASSUME NEW L \in Nat, NEW G \in SUBSET (1 .. L), NEW n \in Nat
  PROVE  /\ IsFiniteSet(G) /\ Cardinality(G) \in Nat
         /\ Cardinality({j \in G : j <= n}) \in Nat
         /\ Cardinality({j \in G : j <= n + 1})
              = Cardinality({j \in G : j <= n}) + (IF n + 1 \in G THEN 1 ELSE 0)
<1>0. \A j \in G : j \in Int /\ (j <= n + 1 <=> j <= n \/ j = n + 1)
  OBVIOUS
<1>1. IsFiniteSet(1 .. L)
  BY FS_Interval
<1>2. {j \in G : j <= n} \in SUBSET (1 .. L)
  OBVIOUS
<1>3. /\ IsFiniteSet(G) /\ Cardinality(G) \in Nat
      /\ IsFiniteSet({j \in G : j <= n}) /\ Cardinality({j \in G : j <= n}) \in Nat
  BY <1>1, <1>2, FS_Subset, FS_CardinalityType
<1>4. CASE n + 1 \in G
  <2>1. {j \in G : j <= n + 1} = {j \in G : j <= n} \cup {n + 1}
    BY <1>0, <1>4, Zenon
  <2>2. n + 1 \notin {j \in G : j <= n}
    OBVIOUS
  <2> QED BY <1>3, <1>4, <2>1, <2>2, FS_AddElement
<1>5. CASE n + 1 \notin G
  <2>1. {j \in G : j <= n + 1} = {j \in G : j <= n}
    BY <1>0, <1>5, Zenon
  <2> QED BY <1>3, <1>5, <2>1
<1> QED BY <1>3, <1>4, <1>5

\* Each number up to the size of the set is the count at one of its elements.
LEMMA CountOnto ==
  ASSUME NEW L \in Nat, NEW G \in SUBSET (1 .. L), NEW k \in 1 .. Cardinality(G)
  PROVE  \E i \in G : Cardinality({j \in G : j <= i}) = k
<1> DEFINE count(n) == Cardinality({j \in G : j <= n})
           T == {n \in 1 .. L : k <= count(n)}
<1>1. Cardinality(G) \in Nat /\ \A n \in Nat : count(n) \in Nat
  BY CountUpTo, ZenonT(30)
<1>2. \A n \in Nat : count(n + 1) = count(n) + (IF n + 1 \in G THEN 1 ELSE 0)
  BY CountUpTo, ZenonT(30)
<1>3. count(0) = 0 /\ count(L) = Cardinality(G)
  <2>1. \A j \in G : ~ (j <= 0) /\ j <= L
    OBVIOUS
  <2>2. {j \in G : j <= 0} = {} /\ {j \in G : j <= L} = G
    BY <2>1, Zenon
  <2> QED BY <2>2, FS_EmptySet
<1> HIDE DEF count
<1>4. L \in T
  <2>1. L # 0
    BY <1>1, <1>3
  <2> QED BY <1>1, <1>3, <2>1
<1>5. PICK i \in T : \A j \in T : i <= j
  <2>1. T \in SUBSET Nat /\ T # {}
    BY <1>4
  <2> HIDE DEF T
  <2> QED BY <2>1, LeastElement
<1>6. i - 1 \in Nat /\ count(i - 1) < k
  <2>1. CASE i = 1
    BY <2>1, <1>1, <1>3
  <2>2. CASE i # 1
    <3>1. i - 1 \in 1 .. L /\ i - 1 \notin T
      BY <1>5, <2>2
    <3> QED BY <3>1, <1>1
  <2> QED BY <2>1, <2>2
<1>7. count(i) = count(i - 1) + (IF i \in G THEN 1 ELSE 0)
  <2>1. i = (i - 1) + 1
    BY <1>5
  <2> QED BY <1>2, <1>6, <2>1
<1>8. i \in G /\ count(i) = k
  BY <1>1, <1>5, <1>6, <1>7
<1> QED BY <1>8 DEF count
-----------------------------------------------------------------------------
\* A sequence with one more element in front.
LEMMA Prepended ==
  ASSUME NEW S, NEW s \in Seq(S), NEW a \in S
  PROVE  /\ Len(<<a>> \o s) = Len(s) + 1 /\ Tail(<<a>> \o s) = s
         /\ s # <<>> => <<Head(s)>> \o Tail(s) = s
<1>1. <<a>> \in Seq(S) /\ Len(<<a>>) = 1 /\ <<a>> \o s \in Seq(S)
  OBVIOUS
<1>2. /\ Len(<<a>> \o s) = 1 + Len(s) /\ Len(s) \in Nat
      /\ \A i \in 1 .. 1 + Len(s) : (<<a>> \o s)[i] = IF i <= 1 THEN <<a>>[i] ELSE s[i - 1]
  BY <1>1, ConcatProperties
<1>3. Tail(<<a>> \o s) = s
  <2> DEFINE t == <<a>> \o s
  <2>1. t \in Seq(S) /\ t # <<>>
    BY <1>1, <1>2
  <2>2. /\ Tail(t) \in Seq(S) /\ Len(Tail(t)) = Len(t) - 1
        /\ \A i \in 1 .. Len(Tail(t)) : Tail(t)[i] = t[i + 1]
    <3> HIDE DEF t
    <3> QED BY <2>1, HeadTailProperties
  <2>3. \A i \in 1 .. Len(s) : Tail(t)[i] = s[i]
    BY <1>2, <2>2
  <2> HIDE DEF t
  <2>4. Len(Tail(t)) = Len(s)
    BY <1>2, <2>2 DEF t
  <2> QED BY <2>2, <2>3, <2>4, SeqEqual DEF t
<1>4. ASSUME s # <<>> PROVE <<Head(s)>> \o Tail(s) = s
  <2> DEFINE t == <<Head(s)>> \o Tail(s)
  <2>1. /\ Head(s) \in S /\ Tail(s) \in Seq(S) /\ Len(Tail(s)) = Len(s) - 1
        /\ \A i \in 1 .. Len(Tail(s)) : Tail(s)[i] = s[i + 1]
    BY <1>4, HeadTailProperties
  <2>2. <<Head(s)>> \in Seq(S) /\ Len(<<Head(s)>>) = 1 /\ <<Head(s)>>[1] = s[1]
    BY <1>4, <2>1
  <2>3. /\ t \in Seq(S) /\ Len(t) = 1 + Len(Tail(s))
        /\ \A i \in 1 .. 1 + Len(Tail(s)) :
             t[i] = IF i <= 1 THEN <<Head(s)>>[i] ELSE Tail(s)[i - 1]
    BY <2>1, <2>2, ConcatProperties
  <2> HIDE DEF t
  <2>4. Len(t) = Len(s) /\ \A i \in 1 .. Len(s) : t[i] = s[i]
    BY <1>2, <2>1, <2>2, <2>3
  <2> QED BY <2>3, <2>4, SeqEqual DEF t
<1> QED BY <1>2, <1>3, <1>4

\* A sequence of two values.
LEMMA Pair ==
  ASSUME NEW S, NEW a \in S, NEW b \in S
  PROVE  <<a>> \o <<b>> = <<a, b>>
<1> DEFINE t == <<a>> \o <<b>>
<1>1. /\ <<a>> \in Seq(S) /\ Len(<<a>>) = 1 /\ <<a>>[1] = a
      /\ <<b>> \in Seq(S) /\ Len(<<b>>) = 1 /\ <<b>>[1] = b
      /\ <<a, b>> \in Seq(S) /\ Len(<<a, b>>) = 2 /\ <<a, b>>[1] = a /\ <<a, b>>[2] = b
  OBVIOUS
<1>2. /\ t \in Seq(S) /\ Len(t) = 2
      /\ \A i \in 1 .. 2 : t[i] = IF i <= 1 THEN <<a>>[i] ELSE <<b>>[i - 1]
  BY <1>1, ConcatProperties
<1>3. t[1] = a /\ t[2] = b
  BY <1>1, <1>2
<1> HIDE DEF t
<1>4. \A i \in 1 .. 2 : t[i] = <<a, b>>[i]
  BY <1>1, <1>3
<1> QED BY <1>1, <1>2, <1>4, SeqEqual DEF t

\* One more element in front, element by element.
LEMMA InFront ==
  ASSUME NEW S, NEW n \in Nat, NEW f \in [1 .. n -> S], NEW g \in [1 .. n + 1 -> S],
         \A i \in 1 .. n : g[i + 1] = f[i]
  PROVE  g = <<g[1]>> \o f /\ Tail(g) = f
<1> DEFINE a == g[1]
<1>1. f \in Seq(S) /\ Len(f) = n
  OBVIOUS
<1>2. g \in Seq(S) /\ Len(g) = n + 1
  OBVIOUS
<1>3. a \in S
  OBVIOUS
<1>4. <<a>> \in Seq(S) /\ Len(<<a>>) = 1 /\ <<a>>[1] = a
  BY <1>3
<1>5. /\ <<a>> \o f \in Seq(S) /\ Len(<<a>> \o f) = n + 1
      /\ \A i \in 1 .. 1 + n : (<<a>> \o f)[i] = IF i <= 1 THEN <<a>>[i] ELSE f[i - 1]
  BY <1>1, <1>4, ConcatProperties
<1>6. ASSUME NEW i \in 1 .. n + 1 PROVE g[i] = (<<a>> \o f)[i]
  <2>1. CASE i = 1
    BY <1>4, <1>5, <2>1
  <2>2. CASE i # 1
    <3>1. i - 1 \in 1 .. n /\ i - 1 + 1 = i /\ ~ (i <= 1)
      BY <2>2
    <3>2. g[i - 1 + 1] = f[i - 1]
      BY <3>1
    <3> QED BY <1>5, <3>1, <3>2
  <2> QED BY <2>1, <2>2
<1>7. g = <<a>> \o f
  BY <1>2, <1>5, <1>6, SeqEqual
<1> HIDE DEF a
<1>8. Tail(<<a>> \o f) = f
  BY <1>1, <1>3, Prepended
<1> QED BY <1>7, <1>8 DEF a
=============================================================================
