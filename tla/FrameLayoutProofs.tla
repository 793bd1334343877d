-------------------------- MODULE FrameLayoutProofs --------------------------
(***************************************************************************)
(* For every number of functions, every arity, every set of array shapes   *)
(* and bodies of every length and nesting: the frames that the front end   *)
(* sizes hold what the back end puts into them.                            *)
(*                                                                         *)
(* The inductive invariant is FrameInv of FrameLayout.  The front end      *)
(* keeps that a line was counted when it was appended (WellCounted), so    *)
(* the counter read at a line bounds what the back end has placed before   *)
(* it (Progress, Placed); at the end of the function it is at most         *)
(* variate_needed, and total_needed was rounded up from that (Sized).      *)
(***************************************************************************)
EXTENDS FrameLayout, SequenceTheorems, TLAPS

(* Sequences *)

LEMMA Tuples ==
  ASSUME NEW X
  PROVE  /\ <<>> \in Seq(X)
         /\ \A a \in X : <<a>> \in Seq(X)
         /\ \A a, b \in X : <<a, b>> \in Seq(X)
  OBVIOUS

\* Replacing, pushing and popping the innermost open Dump.
LEMMA Stack ==
  ASSUME NEW X, NEW s \in Seq(X)
  PROVE  /\ s # <<>> => Head(s) \in X /\ Tail(s) \in Seq(X)
         /\ \A a \in X : <<a>> \o s \in Seq(X)
         /\ s # <<>> => \A a \in X : <<a>> \o Tail(s) \in Seq(X)
         /\ \A a \in X : Append(s, a) \in Seq(X)
  OBVIOUS

LEMMA Concat ==
  ASSUME NEW X, NEW s \in Seq(X), NEW t \in Seq(X)
  PROVE  /\ s \o t \in Seq(X)
         /\ Len(s \o t) = Len(s) + Len(t)
         /\ \A i \in 1 .. Len(s) : (s \o t)[i] = s[i]
         /\ \A i \in 1 .. Len(t) : (s \o t)[Len(s) + i] = t[i]
  OBVIOUS

LEMMA Wider ==
  ASSUME NEW X, NEW Y, X \subseteq Y, NEW s \in Seq(X)
  PROVE  s \in Seq(Y)
  OBVIOUS

LEMMA Last ==
  ASSUME NEW X, NEW s \in Seq(X), NEW b \in X
  PROVE  /\ Append(s, b) \in Seq(X) /\ Len(Append(s, b)) = Len(s) + 1
         /\ \A i \in 1 .. Len(s) : Append(s, b)[i] = s[i]
         /\ Append(s, b)[Len(s) + 1] = b
  OBVIOUS

LEMMA Pair ==
  ASSUME NEW X, NEW a \in X, NEW b \in X
  PROVE  <<a>> # <<>> /\ Len(<<a>>) = 1 /\ <<a>>[1] = a /\ Append(<<a>>, b) = <<a, b>>
<1> DEFINE s == <<a>>
           t == <<a, b>>
<1>1. s \in Seq(X) /\ Len(s) = 1 /\ s[1] = a /\ s # <<>>
  OBVIOUS
<1>2. t \in Seq(X) /\ Len(t) = 2 /\ t[1] = a /\ t[2] = b
  OBVIOUS
<1> HIDE DEF s, t
<1>3. /\ Append(s, b) \in Seq(X) /\ Len(Append(s, b)) = 2
      /\ Append(s, b)[1] = a /\ Append(s, b)[2] = b
  <2> DEFINE u == Append(s, b)
  <2>1. /\ u \in Seq(X) /\ Len(u) = Len(s) + 1
        /\ \A i \in 1 .. Len(s) : u[i] = s[i]
        /\ u[Len(s) + 1] = b
    BY <1>1, Last
  <2> HIDE DEF u
  <2>2. Len(s) + 1 = 2 /\ 1 \in 1 .. Len(s)
    BY <1>1
  <2>3. u \in Seq(X) /\ Len(u) = 2 /\ u[1] = a /\ u[2] = b
    BY <2>1, <2>2, <1>1
  <2> QED BY <2>3 DEF u
<1>4. Append(s, b) = t
  BY <1>2, <1>3, SeqEqual
<1> QED
  BY <1>1, <1>4 DEF s, t

LEMMA Triple ==
  ASSUME NEW X, NEW s \in Seq(X), NEW a \in X, NEW b \in X, NEW c \in X
  PROVE  Append(Append(Append(s, a), b), c) = s \o <<a, b, c>>
<1> DEFINE t == <<a, b, c>>
           u == Append(Append(Append(s, a), b), c)
           v == s \o t
<1>1. t \in Seq(X) /\ Len(t) = 3 /\ t[1] = a /\ t[2] = b /\ t[3] = c
  OBVIOUS
<1>2. /\ u \in Seq(X) /\ Len(u) = Len(s) + 3
      /\ \A i \in 1 .. Len(s) : u[i] = s[i]
      /\ u[Len(s) + 1] = a /\ u[Len(s) + 2] = b /\ u[Len(s) + 3] = c
  OBVIOUS
<1> HIDE DEF t, u
<1>3. /\ v \in Seq(X) /\ Len(v) = Len(s) + 3
      /\ \A i \in 1 .. Len(s) : v[i] = s[i]
      /\ v[Len(s) + 1] = a /\ v[Len(s) + 2] = b /\ v[Len(s) + 3] = c
  <2>5. t \in Seq(X)
    BY <1>1
  <2>1. /\ v \in Seq(X) /\ Len(v) = Len(s) + Len(t)
        /\ \A i \in 1 .. Len(s) : v[i] = s[i]
        /\ \A i \in 1 .. Len(t) : v[Len(s) + i] = t[i]
    BY <2>5, ConcatProperties
  <2>2. 1 \in 1 .. Len(t) /\ 2 \in 1 .. Len(t) /\ 3 \in 1 .. Len(t)
    BY <1>1
  <2> HIDE DEF v
  <2>3. v[Len(s) + 1] = t[1] /\ v[Len(s) + 2] = t[2] /\ v[Len(s) + 3] = t[3]
    BY <2>1, <2>2
  <2>4. Len(v) = Len(s) + 3
    BY <2>1, <1>1
  <2> QED BY <2>1, <2>3, <2>4, <1>1
<1> HIDE DEF v
<1>4. \A i \in 1 .. Len(u) : u[i] = v[i]
  <2> SUFFICES ASSUME NEW i \in 1 .. Len(u) PROVE u[i] = v[i]
    OBVIOUS
  <2>1. i \in 1 .. Len(s) \/ i = Len(s) + 1 \/ i = Len(s) + 2 \/ i = Len(s) + 3
    BY <1>2
  <2> QED BY <2>1, <1>2, <1>3
<1>5. u = v
  BY <1>2, <1>3, <1>4, SeqEqual
<1> QED
  BY <1>5 DEF u, v, t

LEMMA Chain ==
  ASSUME NEW x \in Nat, NEW y \in Nat, NEW b \in Nat, NEW c \in Nat,
         x <= y, y + b <= c
  PROVE  x + b <= c
  OBVIOUS

LEMMA SpaceTypes ==
  ASSUME NEW m \in Seq(Spaces), NEW f \in DOMAIN m
  PROVE  /\ m[f] \in Spaces
         /\ m[f].total_needed \in Nat /\ m[f].return_address_needed \in {0, 4}
         /\ m[f].params_needed \in Nat /\ m[f].variate_needed \in Nat
         /\ \A x \in Spaces : /\ [m EXCEPT ![f] = x] \in Seq(Spaces)
                              /\ Len([m EXCEPT ![f] = x]) = Len(m)
<1>1. m[f] \in Spaces
  OBVIOUS
<1>2. ASSUME NEW x \in Spaces
      PROVE  [m EXCEPT ![f] = x] \in Seq(Spaces) /\ Len([m EXCEPT ![f] = x]) = Len(m)
  BY <1>2, ExceptSeq
<1> QED
  BY <1>1, <1>2 DEF Spaces
-----------------------------------------------------------------------------
(* Lines *)

LEMMA LineType ==
  ASSUME NEW op \in {"alloc", "param", "value", "store", "br", "call", "ret"},
         NEW bytes \in Nat, NEW uses \in SUBSET Nat, NEW at \in Nat,
         NEW arg \in Nat, NEW counted \in Nat
  PROVE  Line(op, bytes, uses, at, arg, counted) \in Lines
  BY DEF Line, Lines

\* The lines can be appended to the text of cur when bytes more are counted.
Fits(ls, bytes) ==
  /\ ls \in Seq(Lines) /\ bytes \in Nat
  /\ \A i \in 1 .. Len(ls) :
       /\ (IF i = 1 THEN S ELSE ls[i - 1].counted) + ls[i].bytes <= ls[i].counted
       /\ ls[i].counted <= S + bytes
       /\ ls[i].op = "value" => ls[i].bytes = 4
       /\ ls[i].op = "call" => ls[i].bytes \in {0, 4} /\ Claimed(Space, ls[i].arg)
       /\ \A u \in Needs(ls[i]) :
            \/ u \in Readable
            \/ u \in Len(Text) + 1 .. Len(Text) + i - 1 /\ Result(ls[u - Len(Text)])

LEMMA Dumped ==
  ASSUME TypeOK, Dumping
  PROVE  /\ cur \in Functions /\ cur \in Nat
         /\ Len(map_space_needed_for_function) = cur
         /\ Space \in Spaces /\ S \in Nat
         /\ Space.return_address_needed \in {0, 4} /\ Space.params_needed \in Nat
         /\ Space.total_needed \in Nat
         /\ Text \in Seq(Lines) /\ Len(Text) \in Nat /\ Readable \subseteq Nat
  BY SpaceTypes, FrameConstants DEF TypeOK, Dumping, Space, S, Text, Functions, Readable

\* What Emit does, by function.
LEMMA EmitText ==
  ASSUME TypeOK, Dumping, NEW ls \in Seq(Lines), NEW bytes \in Nat, Emit(ls, bytes)
  PROVE  /\ k_str' \in [Functions -> Seq(Lines)]
         /\ Text' = Text \o ls
         /\ \A f \in Functions \ {cur} : k_str'[f] = k_str[f]
         /\ map_space_needed_for_function' \in Seq(Spaces)
         /\ Len(map_space_needed_for_function') = Len(map_space_needed_for_function)
         /\ Space' = [Space EXCEPT !.variate_needed = S + bytes]
         /\ \A f \in DOMAIN map_space_needed_for_function \ {cur} :
              map_space_needed_for_function'[f] = map_space_needed_for_function[f]
         /\ phase' = phase /\ cur' = cur /\ Dumping'
         /\ line' = line /\ sp_dev' = sp_dev /\ ins_map' = ins_map
<1> DEFINE m == map_space_needed_for_function
           x == [Space EXCEPT !.variate_needed = S + bytes]
<1>1. m \in Seq(Spaces) /\ cur \in DOMAIN m /\ k_str \in [Functions -> Seq(Lines)]
  BY DEF TypeOK, Dumping
<1>2. x \in Spaces
  BY SMTT(60), Dumped DEF Spaces
<1>3. m' = [m EXCEPT ![cur] = x]
  BY <1>1 DEF Emit, Space, S
<1>4. m' \in Seq(Spaces) /\ Len(m') = Len(m)
  BY <1>1, <1>2, <1>3, SpaceTypes
<1>5. Text \o ls \in Seq(Lines)
  BY Dumped, Concat
<1>6. k_str' = [k_str EXCEPT ![cur] = Text \o ls]
  BY DEF Emit, Text
<1>7. UNCHANGED <<phase, cur, line, sp_dev, ins_map>>
  BY DEF Emit
<1>8. DOMAIN m' = DOMAIN m
  BY <1>1, <1>4
<1>9. Space' = x
  BY <1>1, <1>3, <1>7 DEF Space
<1> QED
  BY <1>1, <1>3, <1>4, <1>5, <1>6, <1>7, <1>8, <1>9, Dumped DEF Text, Dumping

\* Readable lines stay so, and the results among the new lines become so.
LEMMA StillReadable ==
  ASSUME TypeOK, Dumping, NEW ls \in Seq(Lines), NEW bytes \in Nat, Emit(ls, bytes)
  PROVE  /\ Readable \subseteq Readable'
         /\ \A i \in 1 .. Len(ls) : Result(ls[i]) => Len(Text) + i \in Readable'
         /\ \A g : Claimed(Space, g) => Claimed(Space, g)'
         /\ GoodFrames \subseteq GoodFrames'
<1>1. Text' = Text \o ls /\ cur' = cur
  BY EmitText
<1>2. Space' = [Space EXCEPT !.variate_needed = S + bytes]
  BY EmitText
<1>3. Text \in Seq(Lines) /\ Space \in Spaces
  BY Dumped
<1>4. /\ Len(Text') = Len(Text) + Len(ls)
      /\ \A i \in 1 .. Len(Text) : Text'[i] = Text[i]
      /\ \A i \in 1 .. Len(ls) : Text'[Len(Text) + i] = ls[i]
  BY <1>1, <1>3, Concat
<1>5. Len(Text) \in Nat /\ Len(ls) \in Nat
  BY <1>3
<1>6. Readable \subseteq Readable'
  BY <1>4, <1>5 DEF Readable
<1>7. \A i \in 1 .. Len(ls) : Result(ls[i]) => Len(Text) + i \in Readable'
  BY <1>4, <1>5 DEF Readable
<1>8. \A g : Claimed(Space, g) => Claimed(Space, g)'
  BY <1>2, <1>3 DEF Claimed, Spaces
<1>9. GoodFrames \subseteq GoodFrames'
  BY <1>1, <1>6, <1>8 DEF GoodFrames
<1> QED
  BY <1>6, <1>7, <1>8, <1>9

\* The invariant of everything but the open Dump calls survives Emit.
LEMMA Emitted ==
  ASSUME FrameInv, Dumping, NEW ls, NEW bytes, Fits(ls, bytes), Emit(ls, bytes),
         operands' \in Seq(Readable'), open' \in Seq(GoodFrames')
  PROVE  FrameInv'
<1> DEFINE m == map_space_needed_for_function
<1>1. ls \in Seq(Lines) /\ bytes \in Nat /\ TypeOK
  BY DEF Fits, FrameInv
<1>2. /\ k_str' \in [Functions -> Seq(Lines)] /\ Text' = Text \o ls
      /\ \A f \in Functions \ {cur} : k_str'[f] = k_str[f]
      /\ m' \in Seq(Spaces) /\ Len(m') = Len(m)
      /\ Space' = [Space EXCEPT !.variate_needed = S + bytes]
      /\ \A f \in DOMAIN m \ {cur} : m'[f] = m[f]
      /\ phase' = phase /\ cur' = cur /\ Dumping'
      /\ line' = line /\ sp_dev' = sp_dev /\ ins_map' = ins_map
  BY <1>1, EmitText
<1>3. /\ Readable \subseteq Readable'
      /\ \A i \in 1 .. Len(ls) : Result(ls[i]) => Len(Text) + i \in Readable'
      /\ \A g : Claimed(Space, g) => Claimed(Space, g)'
  BY <1>1, StillReadable
<1>4. /\ Text \in Seq(Lines) /\ Len(Text) \in Nat /\ Len(ls) \in Nat
      /\ Space \in Spaces /\ S \in Nat /\ cur \in Functions /\ Len(m) = cur
  BY <1>1, Dumped
<1>5. /\ Len(Text') = Len(Text) + Len(ls)
      /\ \A i \in 1 .. Len(Text) : Text'[i] = Text[i]
      /\ \A i \in 1 .. Len(ls) : Text'[Len(Text) + i] = ls[i]
      /\ Text' \in Seq(Lines)
  BY <1>1, <1>2, <1>4, Concat
<1>6. DOMAIN m' = DOMAIN m /\ cur \in DOMAIN m /\ m \in Seq(Spaces)
  BY <1>1, <1>2 DEF TypeOK, Dumping
<1>7. Space' \in Spaces /\ S' = S + bytes /\ phase = "dump"
  <2>1. Space'.variate_needed = S + bytes /\ S + bytes \in Nat
    BY <1>1, <1>2, <1>4 DEF Spaces
  <2>2. Space' \in Spaces
    BY <2>1, <1>2, <1>4 DEF Spaces
  <2> QED BY <2>1, <2>2 DEF S, Dumping
<1>8. /\ WellCounted(Text, S) /\ WellRead(Text)
      /\ \A i \in DOMAIN Text : Text[i].op = "call" => Claimed(Space, Text[i].arg)
  BY <1>6 DEF FrameInv, TextsKept, Text, Space, S
<1>9. Text[Len(Text)].counted <= S \/ Len(Text) = 0
  <2>1. Len(Text) # 0 => Len(Text) \in DOMAIN Text
    BY <1>4
  <2> QED BY <2>1, <1>8 DEF WellCounted
<1>20. \A k \in 1 .. Len(ls) :
         /\ (IF k = 1 THEN S ELSE ls[k - 1].counted) + ls[k].bytes <= ls[k].counted
         /\ ls[k].counted <= S + bytes
         /\ ls[k].op = "value" => ls[k].bytes = 4
         /\ ls[k].op = "call" => ls[k].bytes \in {0, 4}
  BY DEF Fits
<1>10. WellCounted(Text', S')
  <2> SUFFICES ASSUME NEW i \in 1 .. Len(Text')
               PROVE  /\ (IF i = 1 THEN 0 ELSE Text'[i - 1].counted) + Text'[i].bytes
                           <= Text'[i].counted
                      /\ Text'[i].counted <= S'
                      /\ Text'[i].op = "value" => Text'[i].bytes = 4
                      /\ Text'[i].op = "call" => Text'[i].bytes \in {0, 4}
    BY <1>5 DEF WellCounted
  <2>1. CASE i <= Len(Text)
    <3>1. i \in 1 .. Len(Text) /\ i \in DOMAIN Text /\ (i # 1 => i - 1 \in 1 .. Len(Text))
      BY <2>1, <1>4
    <3>2. Text'[i] = Text[i] /\ (i # 1 => Text'[i - 1] = Text[i - 1])
      BY <3>1, <1>5
    <3>7. Text[i] \in Lines
      BY <3>1, <1>4
    <3>3. Text[i].counted \in Nat
      BY <3>7 DEF Lines
    <3>4. /\ (IF i = 1 THEN 0 ELSE Text[i - 1].counted) + Text[i].bytes <= Text[i].counted
          /\ Text[i].counted <= S
          /\ Text[i].op = "value" => Text[i].bytes = 4
          /\ Text[i].op = "call" => Text[i].bytes \in {0, 4}
      BY <3>1, <1>8 DEF WellCounted
    <3>5. Text[i].counted <= S'
      BY <3>3, <3>4, <1>1, <1>4, <1>7
    <3> QED BY <3>2, <3>4, <3>5
  <2>2. CASE i > Len(Text)
    <3> DEFINE k == i - Len(Text)
    <3>1. k \in 1 .. Len(ls) /\ Text'[i] = ls[k] /\ ls[k] \in Lines
      BY <2>2, <1>1, <1>4, <1>5
    <3>2. CASE k = 1
      <4>1. i # 1 => Text'[i - 1] = Text[Len(Text)] /\ Len(Text) > 0
        BY <3>2, <1>4, <1>5
      <4>2. (IF i = 1 THEN 0 ELSE Text'[i - 1].counted) <= S
        BY <4>1, <1>4, <1>9
      <4>3. Len(Text) > 0 => Text[Len(Text)] \in Lines
        <5>1. Len(Text) > 0 => Len(Text) \in 1 .. Len(Text)
          BY <1>4
        <5> QED BY <5>1, <1>4
      <4>4. (IF i = 1 THEN 0 ELSE Text'[i - 1].counted) \in Nat
        BY <4>1, <4>3 DEF Lines
      <4>5. S + ls[k].bytes <= ls[k].counted /\ ls[k].counted <= S + bytes
        BY <3>1, <3>2, <1>20
      <4>6. ls[k].bytes \in Nat /\ ls[k].counted \in Nat
        BY <3>1 DEF Lines
      <4>7. (IF i = 1 THEN 0 ELSE Text'[i - 1].counted) + Text'[i].bytes
              <= Text'[i].counted
        <5> DEFINE x == IF i = 1 THEN 0 ELSE Text'[i - 1].counted
        <5>1. x <= S /\ x \in Nat
          BY <4>2, <4>4
        <5> HIDE DEF x, k
        <5>2. x + ls[k].bytes <= ls[k].counted
          <6>1. /\ x \in Nat /\ S \in Nat /\ ls[k].bytes \in Nat /\ ls[k].counted \in Nat
                /\ x <= S /\ S + ls[k].bytes <= ls[k].counted
            BY <5>1, <4>5, <4>6, <1>4
          <6> QED BY <6>1, Chain
        <5> QED BY <5>2, <3>1 DEF x
      <4> HIDE DEF k
      <4> QED BY <4>5, <4>7, <3>1, <1>7, <1>20
    <3>3. CASE k # 1
      <4>1. i \in Int /\ k - 1 \in 1 .. Len(ls) /\ Len(Text) + (k - 1) = i - 1
        BY <3>1, <3>3, <1>4
      <4>2. Text'[Len(Text) + (k - 1)] = ls[k - 1]
        BY <4>1, <1>5
      <4>3. i # 1 /\ Text'[i - 1] = ls[k - 1]
        BY <4>1, <4>2, <1>4, <2>2
      <4> HIDE DEF k
      <4> QED BY <4>1, <4>3, <3>1, <3>3, <1>7, <1>20
    <3> QED BY <3>2, <3>3
  <2> QED BY <2>1, <2>2, <1>4
<1>11. WellRead(Text')
  <2> SUFFICES ASSUME NEW i \in 1 .. Len(Text'), NEW u \in Needs(Text'[i])
               PROVE  u \in 1 .. i - 1 /\ Result(Text'[u])
    BY <1>5 DEF WellRead
  <2>1. CASE i <= Len(Text)
    <3>1. i \in DOMAIN Text /\ i \in 1 .. Len(Text) /\ Text'[i] = Text[i]
      BY <2>1, <1>4, <1>5
    <3>2. u \in 1 .. i - 1 /\ Result(Text[u])
      BY <3>1, <1>8 DEF WellRead
    <3>3. u \in 1 .. Len(Text)
      BY <3>1, <3>2, <1>4
    <3> QED BY <3>2, <3>3, <1>5
  <2>2. CASE i > Len(Text)
    <3> DEFINE k == i - Len(Text)
    <3>1. k \in 1 .. Len(ls) /\ Text'[i] = ls[k]
      BY <2>2, <1>4, <1>5
    <3>2. \/ u \in Readable
          \/ u \in Len(Text) + 1 .. Len(Text) + k - 1 /\ Result(ls[u - Len(Text)])
      <4> HIDE DEF k
      <4> QED BY <3>1 DEF Fits
    <3>3. CASE u \in Readable
      BY <3>3, <2>2, <1>4, <1>5 DEF Readable
    <3>4. CASE u \in Len(Text) + 1 .. Len(Text) + k - 1 /\ Result(ls[u - Len(Text)])
      <4>1. u - Len(Text) \in 1 .. Len(ls) /\ u \in 1 .. i - 1
        BY <3>1, <3>4, <1>4
      <4>2. Text'[Len(Text) + (u - Len(Text))] = ls[u - Len(Text)]
        BY <4>1, <1>5
      <4>3. Len(Text) + (u - Len(Text)) = u
        BY <3>4, <1>4
      <4> QED BY <4>1, <4>2, <4>3, <3>4
    <3> QED BY <3>2, <3>3, <3>4
  <2> QED BY <2>1, <2>2, <1>4
<1>12. \A i \in DOMAIN Text' : Text'[i].op = "call" => Claimed(Space', Text'[i].arg)
  <2> SUFFICES ASSUME NEW i \in 1 .. Len(Text'), Text'[i].op = "call"
               PROVE  Claimed(Space', Text'[i].arg)
    BY <1>5
  <2>1. CASE i <= Len(Text)
    <3>1. Claimed(Space, Text[i].arg) /\ Text'[i] = Text[i]
      BY <2>1, <1>4, <1>5, <1>8
    <3> QED BY <3>1, <1>2, <1>4 DEF Claimed, Spaces
  <2>2. CASE i > Len(Text)
    <3> DEFINE k == i - Len(Text)
    <3>1. k \in 1 .. Len(ls) /\ Text'[i] = ls[k]
      BY SMTT(60), <2>2, <1>4, <1>5
    <3>2. Claimed(Space, ls[k].arg)
      <4> HIDE DEF k
      <4> QED BY <3>1 DEF Fits
    <3> QED BY <3>1, <3>2, <1>2, <1>4 DEF Claimed, Spaces
  <2> QED BY <2>1, <2>2, <1>4
<1>13. TextsKept'
  <2>1. ASSUME NEW f \in DOMAIN m'
        PROVE  /\ WellCounted(k_str'[f], m'[f].variate_needed)
               /\ WellRead(k_str'[f])
               /\ \A i \in DOMAIN k_str'[f] :
                    k_str'[f][i].op = "call" => Claimed(m'[f], k_str'[f][i].arg)
    <3>1. CASE f = cur
      <4>1. k_str'[f] = Text' /\ m'[f] = Space' /\ m'[f].variate_needed = S'
        BY <3>1, <1>2 DEF Text, Space, S
      <4> QED BY <4>1, <1>10, <1>11, <1>12
    <3>2. CASE f # cur
      <4>1. f \in DOMAIN m /\ f \in Functions
        <5>1. DOMAIN m' = 1 .. cur /\ cur \in 1 .. N
          BY <1>4, <1>6 DEF Functions
        <5> QED BY <5>1, <1>6, FrameConstants DEF Functions
      <4>2. /\ WellCounted(k_str[f], m[f].variate_needed)
            /\ WellRead(k_str[f])
            /\ \A i \in DOMAIN k_str[f] :
                 k_str[f][i].op = "call" => Claimed(m[f], k_str[f][i].arg)
        BY <4>1 DEF FrameInv, TextsKept
      <4>3. k_str'[f] = k_str[f] /\ m'[f] = m[f]
        BY <4>1, <3>2, <1>2
      <4> QED BY <4>2, <4>3
    <3> QED BY <3>1, <3>2
  <2>2. \A f \in Functions \ DOMAIN m' : k_str'[f] = <<>>
    BY <1>2, <1>6 DEF FrameInv, TextsKept
  <2> QED BY <2>1, <2>2 DEF TextsKept, Claimed
<1>14. OpenKept'
  BY <1>2 DEF OpenKept
<1>15. TypeOK'
  <2>1. open' \in Seq(Frames)
    BY Wider DEF GoodFrames
  <2>2. \A j \in DOMAIN open' :
          CASE open'[j].tag = "params" -> open'[j].left \in 0..Arity[cur]
            [] open'[j].tag = "call" -> open'[j].left \in 1..cur
            [] open'[j].tag \in {"land", "lor"} -> open'[j].left \in {0, 1}
            [] OTHER -> TRUE
    <3> SUFFICES ASSUME NEW j \in DOMAIN open'
                 PROVE  CASE open'[j].tag = "params" -> open'[j].left \in 0..Arity[cur]
                          [] open'[j].tag = "call" -> open'[j].left \in 1..cur
                          [] open'[j].tag \in {"land", "lor"} -> open'[j].left \in {0, 1}
                          [] OTHER -> TRUE
      OBVIOUS
    <3>1. open'[j] \in GoodFrames'
      OBVIOUS
    <3>2. open'[j].left \in Nat /\ Arity[cur] \in Nat
      BY <3>1, <1>4, FrameConstants DEF GoodFrames, Frames, Functions
    <3> QED BY <3>1, <3>2, <1>2 DEF GoodFrames
  <2>3. operands' \in Seq(Nat)
    <3>1. Readable' \subseteq Nat
      BY <1>4, <1>5 DEF Readable
    <3> QED BY <3>1, Wider
  <2> QED BY <1>1, <1>2, <1>7, <2>1, <2>2, <2>3 DEF TypeOK, Dumping
<1>16. Sized'
  <2>1. SUFFICES ASSUME NEW f \in Functions, f < cur
                 PROVE  m'[f] = m[f] /\ k_str'[f] = k_str[f]
    BY <1>2, <1>7 DEF FrameInv, Sized
  <2>2. f \in DOMAIN m \ {cur}
    BY <2>1, <1>4, <1>6 DEF Functions
  <2> QED BY <2>2, <2>1, <1>2
<1>17. DOMAIN ins_map = {} /\ line = 0
  BY <1>7 DEF FrameInv, Progress
<1>18. Progress' /\ Placed' /\ SlotsApart'
  BY <1>17, <1>2, <1>7 DEF Progress, Placed, SlotsApart
<1> QED
  BY <1>13, <1>14, <1>15, <1>16, <1>18 DEF FrameInv
-----------------------------------------------------------------------------
(* What the actions append fits. *)

LEMMA FitsNone ==
  ASSUME TypeOK, Dumping
  PROVE  Fits(<<>>, 0)
  BY Dumped DEF Fits

LEMMA FitsMore ==
  ASSUME TypeOK, Dumping, NEW ls, NEW bytes, Fits(ls, bytes),
         NEW l \in Lines, NEW more \in Nat, bytes <= more,
         (IF ls = <<>> THEN S ELSE ls[Len(ls)].counted) + l.bytes <= l.counted,
         l.counted <= S + more,
         l.op = "value" => l.bytes = 4,
         l.op = "call" => l.bytes \in {0, 4} /\ Claimed(Space, l.arg),
         \A u \in Needs(l) :
           \/ u \in Readable
           \/ u \in Len(Text) + 1 .. Len(Text) + Len(ls) /\ Result(ls[u - Len(Text)])
  PROVE  Fits(Append(ls, l), more)
<1> DEFINE new == Append(ls, l)
<1>1. ls \in Seq(Lines) /\ bytes \in Nat /\ Len(ls) \in Nat
  BY DEF Fits
<1>2. S \in Nat /\ Len(Text) \in Nat /\ Readable \subseteq Nat
  BY Dumped
<1>3. /\ new \in Seq(Lines) /\ Len(new) = Len(ls) + 1
      /\ \A i \in 1 .. Len(ls) : new[i] = ls[i]
      /\ new[Len(ls) + 1] = l
  BY <1>1
<1> HIDE DEF new
<1>4. ASSUME NEW i \in 1 .. Len(new)
      PROVE  /\ (IF i = 1 THEN S ELSE new[i - 1].counted) + new[i].bytes
                  <= new[i].counted
             /\ new[i].counted <= S + more
             /\ new[i].op = "value" => new[i].bytes = 4
             /\ new[i].op = "call" => new[i].bytes \in {0, 4} /\ Claimed(Space, new[i].arg)
             /\ \A u \in Needs(new[i]) :
                  \/ u \in Readable
                  \/ /\ u \in Len(Text) + 1 .. Len(Text) + i - 1
                     /\ Result(new[u - Len(Text)])
  <2>1. CASE i <= Len(ls)
    <3>1. i \in 1 .. Len(ls) /\ new[i] = ls[i] /\ (i # 1 => new[i - 1] = ls[i - 1])
      <4>1. i \in 1 .. Len(ls) /\ (i # 1 => i - 1 \in 1 .. Len(ls))
        BY <2>1, <1>1, <1>3
      <4> QED BY <4>1, <1>3
    <3>2. /\ (IF i = 1 THEN S ELSE ls[i - 1].counted) + ls[i].bytes <= ls[i].counted
          /\ ls[i].counted <= S + bytes
          /\ ls[i].op = "value" => ls[i].bytes = 4
          /\ ls[i].op = "call" => ls[i].bytes \in {0, 4} /\ Claimed(Space, ls[i].arg)
          /\ \A u \in Needs(ls[i]) :
               \/ u \in Readable
               \/ u \in Len(Text) + 1 .. Len(Text) + i - 1 /\ Result(ls[u - Len(Text)])
      BY <3>1 DEF Fits
    <3>3. ls[i].counted <= S + more
      <4>1. ls[i] \in Lines
        BY <3>1, <1>1
      <4>2. ls[i].counted \in Nat
        BY <4>1 DEF Lines
      <4> QED BY <4>2, <3>2, <1>1, <1>2
    <3>4. \A u \in Len(Text) + 1 .. Len(Text) + i - 1 :
            new[u - Len(Text)] = ls[u - Len(Text)]
      <4> SUFFICES ASSUME NEW u \in Len(Text) + 1 .. Len(Text) + i - 1
                   PROVE  u - Len(Text) \in 1 .. Len(ls)
        BY <1>3
      <4> QED BY <3>1, <1>1, <1>2
    <3> QED BY <3>1, <3>2, <3>3, <3>4
  <2>2. CASE i > Len(ls)
    <3>1. i = Len(ls) + 1 /\ new[i] = l
      BY <2>2, <1>1, <1>3
    <3>2. (IF i = 1 THEN S ELSE new[i - 1].counted)
            = (IF ls = <<>> THEN S ELSE ls[Len(ls)].counted)
      <4>1. CASE ls = <<>>
        BY <4>1, <3>1
      <4>2. CASE ls # <<>>
        <5>1. Len(ls) \in 1 .. Len(ls) /\ i # 1 /\ i - 1 = Len(ls)
          BY <4>2, <3>1, <1>1
        <5> QED BY <5>1, <4>2, <1>3
      <4> QED BY <4>1, <4>2
    <3>3. \A u \in Len(Text) + 1 .. Len(Text) + Len(ls) :
            new[u - Len(Text)] = ls[u - Len(Text)]
      <4> SUFFICES ASSUME NEW u \in Len(Text) + 1 .. Len(Text) + Len(ls)
                   PROVE  u - Len(Text) \in 1 .. Len(ls)
        BY <1>3
      <4> QED BY <1>1, <1>2
    <3>4. Len(Text) + i - 1 = Len(Text) + Len(ls)
      BY <3>1, <1>1, <1>2
    <3> QED BY <3>1, <3>2, <3>3, <3>4
  <2> QED BY <2>1, <2>2, <1>1
<1> QED
  BY <1>3, <1>4 DEF Fits, new

LEMMA ValueLine ==
  ASSUME NEW uses \in SUBSET Nat, NEW at \in Nat, NEW c \in Nat
  PROVE  /\ Value(uses, at, c) \in Lines /\ Result(Value(uses, at, c))
         /\ Value(uses, at, c).op = "value" /\ Value(uses, at, c).bytes = 4
         /\ Value(uses, at, c).counted = c
         /\ Needs(Value(uses, at, c)) = uses \cup (IF at = 0 THEN {} ELSE {at})
  BY DEF Value, Line, Lines, Result, Needs

LEMMA PointerLine ==
  ASSUME NEW at \in Nat \ {0}, NEW c \in Nat
  PROVE  /\ Value({}, at, c) \in Lines /\ Result(Value({}, at, c))
         /\ Value({}, at, c).op = "value" /\ Value({}, at, c).bytes = 4
         /\ Value({}, at, c).counted = c /\ Needs(Value({}, at, c)) = {at}
  BY DEF Value, Line, Lines, Result, Needs

LEMMA ResultLine ==
  ASSUME NEW uses \in SUBSET Nat, NEW c \in Nat
  PROVE  /\ Value(uses, 0, c) \in Lines /\ Result(Value(uses, 0, c))
         /\ Value(uses, 0, c).op = "value" /\ Value(uses, 0, c).bytes = 4
         /\ Value(uses, 0, c).counted = c /\ Needs(Value(uses, 0, c)) = uses
  BY DEF Value, Line, Lines, Result, Needs

LEMMA UseLine ==
  ASSUME NEW op \in {"br", "ret"}, NEW uses \in SUBSET Nat, NEW c \in Nat
  PROVE  LET l == Line(op, 0, uses, 0, 0, c)
         IN  l \in Lines /\ l.op = op /\ l.bytes = 0 /\ l.counted = c /\ Needs(l) = uses
  BY DEF Line, Lines, Needs

LEMMA StoreLine ==
  ASSUME NEW uses \in SUBSET Nat, NEW at \in Nat, NEW c \in Nat
  PROVE  /\ Store(uses, at, c) \in Lines /\ Store(uses, at, c).op = "store"
         /\ Store(uses, at, c).bytes = 0 /\ Store(uses, at, c).counted = c
         /\ Needs(Store(uses, at, c)) = uses \cup (IF at = 0 THEN {} ELSE {at})
  BY DEF Store, Line, Lines, Needs

LEMMA AllocLine ==
  ASSUME NEW bytes \in Nat, NEW c \in Nat
  PROVE  /\ Alloc(bytes, c) \in Lines /\ Result(Alloc(bytes, c))
         /\ Alloc(bytes, c).op = "alloc" /\ Alloc(bytes, c).bytes = bytes
         /\ Alloc(bytes, c).counted = c /\ Needs(Alloc(bytes, c)) = {}
  BY DEF Alloc, Line, Lines, Result, Needs

LEMMA FitsOne ==
  ASSUME TypeOK, Dumping, NEW l \in Lines, NEW bytes \in Nat,
         S + l.bytes <= l.counted, l.counted <= S + bytes,
         l.op = "value" => l.bytes = 4,
         l.op = "call" => l.bytes \in {0, 4} /\ Claimed(Space, l.arg),
         Needs(l) \subseteq Readable
  PROVE  Fits(<<l>>, bytes)
<1> DEFINE e == <<>>
<1>1. Fits(e, 0) /\ Append(e, l) = <<l>>
  BY FitsNone
<1>2. (IF e = <<>> THEN S ELSE e[Len(e)].counted) = S /\ 0 <= bytes
  OBVIOUS
<1> HIDE DEF e
<1>3. Fits(Append(e, l), bytes)
  BY <1>1, <1>2, FitsMore
<1> QED
  BY <1>1, <1>3

LEMMA FitsPath ==
  ASSUME TypeOK, Dumping, NEW k \in Nat, NEW uses \in SUBSET Readable,
         NEW at \in Readable \cup {0}
  PROVE  /\ Fits(Path(k, uses, at), 4 * k)
         /\ Len(Path(k, uses, at)) = k
         /\ k > 0 => Result(Path(k, uses, at)[k])
<1> DEFINE ls == Path(k, uses, at)
<1>1. /\ S \in Nat /\ Len(Text) \in Nat /\ Readable \subseteq Nat /\ 4 * k \in Nat
      /\ at \in Nat /\ uses \in SUBSET Nat
  BY Dumped
<1>2. ASSUME NEW i \in 1 .. k
      PROVE  /\ ls[i] \in Lines /\ Result(ls[i]) /\ ls[i].op = "value"
             /\ ls[i].bytes = 4 /\ ls[i].counted = S + 4 * i
             /\ Needs(ls[i]) = IF i = 1 THEN uses \cup (IF at = 0 THEN {} ELSE {at})
                               ELSE {Len(Text) + i - 1}
  <2>1. CASE i = 1
    <3> DEFINE c == S + 4
               v == Value(uses, at, c)
    <3>1. ls[i] = v /\ c = S + 4 * i /\ c \in Nat /\ at \in Nat /\ uses \in SUBSET Nat
      BY <2>1, <1>1 DEF Path
    <3> HIDE DEF c, ls
    <3>2. /\ v \in Lines /\ Result(v) /\ v.op = "value" /\ v.bytes = 4
          /\ v.counted = c /\ Needs(v) = uses \cup (IF at = 0 THEN {} ELSE {at})
      BY <3>1 DEF Value, Line, Lines, Result, Needs
    <3> HIDE DEF v
    <3>3. ls[i] = v /\ c = S + 4 * i
      BY <3>1
    <3> DEFINE n == S + 4 * i
               needs == uses \cup (IF at = 0 THEN {} ELSE {at})
    <3> HIDE DEF n, needs
    <3>4. /\ ls[i] \in Lines /\ Result(ls[i]) /\ ls[i].op = "value"
          /\ ls[i].bytes = 4 /\ ls[i].counted = n /\ Needs(ls[i]) = needs
      BY <3>2, <3>3 DEF n, needs
    <3> QED BY <3>4, <2>1 DEF n, needs
  <2>2. CASE i # 1
    <3> DEFINE at1 == Len(Text) + i - 1
               c == S + 4 * i
               v == Value({}, at1, c)
    <3>1. ls[i] = v
      BY <2>2 DEF Path
    <3>2. at1 \in Nat /\ at1 # 0 /\ c \in Nat /\ {} \in SUBSET Nat
      BY <2>2, <1>1
    <3> HIDE DEF at1, c
    <3>3. /\ v \in Lines /\ Result(v) /\ v.op = "value" /\ v.bytes = 4
          /\ v.counted = c /\ Needs(v) = {at1}
      BY <3>2, PointerLine
    <3> HIDE DEF v, ls
    <3> QED BY <3>1, <3>3, <2>2 DEF at1, c
  <2> QED BY <2>1, <2>2
<1>3. ls = [i \in 1 .. k |-> ls[i]] /\ Len(ls) = k /\ DOMAIN ls = 1 .. k
  BY DEF Path
<1>4. ls \in Seq(Lines)
  BY <1>2, <1>3
<1> HIDE DEF ls
<1>5. ASSUME NEW i \in 1 .. k
      PROVE  /\ (IF i = 1 THEN S ELSE ls[i - 1].counted) + ls[i].bytes <= ls[i].counted
             /\ ls[i].counted <= S + 4 * k
             /\ \A u \in Needs(ls[i]) :
                  \/ u \in Readable
                  \/ /\ u \in Len(Text) + 1 .. Len(Text) + i - 1
                     /\ Result(ls[u - Len(Text)])
  <2>1. CASE i = 1
    <3>1. /\ ls[i].bytes = 4 /\ ls[i].counted = S + 4 * i
          /\ Needs(ls[i]) = uses \cup (IF at = 0 THEN {} ELSE {at})
      BY <2>1, <1>2
    <3>2. S + 4 <= S + 4 * i /\ S + 4 * i <= S + 4 * k
      BY <2>1, <1>1
    <3> QED BY <2>1, <3>1, <3>2
  <2>2. CASE i # 1
    <3>1. i - 1 \in 1 .. k /\ (Len(Text) + i - 1) - Len(Text) = i - 1
      BY <2>2, <1>1
    <3>2. ls[i - 1].counted = S + 4 * (i - 1) /\ Result(ls[i - 1])
      BY <3>1, <1>2
    <3>3. Needs(ls[i]) = {Len(Text) + i - 1} /\ ls[i].counted = S + 4 * i /\ ls[i].bytes = 4
      BY <2>2, <1>2
    <3>4. (S + 4 * (i - 1)) + 4 <= S + 4 * i /\ S + 4 * i <= S + 4 * k
      BY <1>1
    <3>5. Len(Text) + i - 1 \in Len(Text) + 1 .. Len(Text) + i - 1
      BY <2>2, <1>1
    <3> QED BY <2>2, <3>1, <3>2, <3>3, <3>4, <3>5
  <2> QED BY <2>1, <2>2
<1>6. Fits(ls, 4 * k)
  BY <1>1, <1>2, <1>3, <1>4, <1>5 DEF Fits
<1> QED
  BY <1>2, <1>3, <1>6 DEF ls

LEMMA Taken ==
  ASSUME FrameInv, Dumping, NEW k \in Nat, NEW n \in Takes(k)
  PROVE  Top(n) \in SUBSET Readable /\ Drop(n) \in Seq(Readable)
<1>1. operands \in Seq(Readable) /\ open \in Seq(GoodFrames)
  BY DEF FrameInv, OpenKept
<1>2. open # <<>> => Head(open).base \in Nat
  <2>1. open # <<>> => Head(open) \in GoodFrames
    BY <1>1, Stack
  <2> QED BY <2>1 DEF GoodFrames, Frames
<1>3. Len(operands) \in Nat /\ Available \in Int /\ Available <= Len(operands)
  BY <1>1, <1>2 DEF Available
<1>4. n \in Nat /\ n <= Len(operands)
  <2>1. n \in Int /\ 0 <= n /\ n <= Available
    BY <1>3 DEF Takes
  <2> QED BY <2>1, <1>3
<1>5. \A i \in Len(operands) - n + 1 .. Len(operands) : operands[i] \in Readable
  <2> SUFFICES ASSUME NEW i \in Len(operands) - n + 1 .. Len(operands)
               PROVE  i \in 1 .. Len(operands)
    BY <1>1
  <2> QED BY <1>3, <1>4
<1>6. Len(operands) - n \in 0 .. Len(operands)
  BY <1>3, <1>4
<1> QED
  BY <1>1, <1>5, <1>6 DEF Top, Drop

\* The Dump calls and operands of before are as good after.
LEMMA Grown ==
  ASSUME FrameInv, Dumping, NEW ls, NEW bytes, Fits(ls, bytes), Emit(ls, bytes)
  PROVE  /\ \A s \in Seq(Readable) : s \in Seq(Readable')
         /\ open \in Seq(GoodFrames')
         /\ open # <<>> => Tail(open) \in Seq(GoodFrames')
         /\ \A n \in Nat : ls # <<>> /\ n = Len(ls) /\ Result(ls[n]) =>
              Len(Text) + n \in Readable'
         /\ cur' = cur /\ Readable \subseteq Readable'
         /\ \A g : Claimed(Space, g) => Claimed(Space, g)'
         /\ Dumping'
<1>1. ls \in Seq(Lines) /\ bytes \in Nat /\ TypeOK
  BY DEF Fits, FrameInv
<1>2. /\ Readable \subseteq Readable' /\ GoodFrames \subseteq GoodFrames'
      /\ \A i \in 1 .. Len(ls) : Result(ls[i]) => Len(Text) + i \in Readable'
      /\ \A g : Claimed(Space, g) => Claimed(Space, g)'
  BY <1>1, StillReadable
<1>3. operands \in Seq(Readable) /\ open \in Seq(GoodFrames)
  BY DEF FrameInv, OpenKept
<1>4. open \in Seq(GoodFrames')
  BY <1>2, <1>3, Wider
<1>5. \A s \in Seq(Readable) : s \in Seq(Readable')
  BY <1>2, Wider
<1>6. ls # <<>> => Len(ls) \in 1 .. Len(ls)
  BY <1>1
<1>7. cur' = cur /\ Dumping'
  BY <1>1, EmitText
<1> QED
  BY <1>2, <1>4, <1>5, <1>6, <1>7, Stack

LEMMA FitsTwo ==
  ASSUME TypeOK, Dumping, NEW a \in Lines, NEW b \in Lines, NEW bytes \in Nat,
         S + a.bytes <= a.counted, a.counted <= S + bytes,
         a.op = "value" => a.bytes = 4, a.op # "call", Needs(a) \subseteq Readable,
         a.counted + b.bytes <= b.counted, b.counted <= S + bytes,
         b.op = "value" => b.bytes = 4, b.op # "call",
         \A u \in Needs(b) : u \in Readable \/ (u = Len(Text) + 1 /\ Result(a))
  PROVE  Fits(<<a, b>>, bytes)
<1> DEFINE one == <<a>>
<1>1. Fits(one, bytes)
  BY FitsOne
<1>2. one # <<>> /\ Len(one) = 1 /\ one[1] = a /\ Append(one, b) = <<a, b>>
  BY Pair
<1>3. Len(Text) \in Nat
  BY Dumped
<1> HIDE DEF one
<1>4. \A u \in Needs(b) :
        \/ u \in Readable
        \/ u \in Len(Text) + 1 .. Len(Text) + Len(one) /\ Result(one[u - Len(Text)])
  BY <1>2, <1>3
<1>5. (IF one = <<>> THEN S ELSE one[Len(one)].counted) + b.bytes <= b.counted
  BY <1>2
<1>6. Fits(Append(one, b), bytes)
  BY <1>1, <1>4, <1>5, FitsMore
<1> QED
  BY <1>2, <1>6

LEMMA Opened ==
  ASSUME FrameInv, Dumping, NEW ls, NEW bytes, Fits(ls, bytes), Emit(ls, bytes),
         NEW tag \in {"init", "land", "lor", "assign"}, NEW left \in Nat,
         tag \in {"land", "lor"} => left \in {0, 1},
         NEW dims \in Seq(Nat), NEW at \in Nat, at # 0 => at \in Readable'
  PROVE  Open(tag, left, dims, at) \in Seq(GoodFrames')
<1> DEFINE frame == [tag |-> tag, left |-> left, dims |-> dims, at |-> at, uses |-> {},
                     base |-> Len(operands)]
<1>1. open \in Seq(GoodFrames')
  BY Grown
<1>2. Len(operands) \in Nat
  BY DEF FrameInv, TypeOK
<1>3. frame \in GoodFrames'
  BY <1>2 DEF GoodFrames, Frames
<1>4. Open(tag, left, dims, at) = <<frame>> \o open
  BY DEF Open
<1> HIDE DEF frame
<1> QED
  BY <1>1, <1>3, <1>4, Stack

LEMMA Counter ==
  ASSUME FrameInv, Dumping
  PROVE  /\ TypeOK /\ S \in Nat /\ S + 4 \in Nat /\ Len(Text) \in Nat /\ Len(Text) + 1 \in Nat
         /\ Readable \subseteq Nat /\ cur \in Nat /\ cur \in Functions
         /\ operands \in Seq(Readable) /\ open \in Seq(GoodFrames)
         /\ open # <<>> => Head(open) \in GoodFrames
         /\ Locals \subseteq Readable
<1>1. TypeOK /\ operands \in Seq(Readable) /\ open \in Seq(GoodFrames)
  BY DEF FrameInv, OpenKept
<1>2. /\ S \in Nat /\ Len(Text) \in Nat /\ Readable \subseteq Nat /\ cur \in Nat
      /\ cur \in Functions /\ Text \in Seq(Lines)
  BY <1>1, Dumped
<1>3. Locals \subseteq Readable
  BY <1>2 DEF Locals, Readable, Result
<1> QED
  BY <1>1, <1>2, <1>3, Stack
-----------------------------------------------------------------------------
(* The front end, action by action *)

LEMMA DumpVarDefStep ==
  ASSUME FrameInv, DumpVarDef
  PROVE  FrameInv'
<1>1. Dumping /\ Emit(<<Alloc(4, S + 4)>>, 4) /\ UNCHANGED <<open, operands>>
  BY DEF DumpVarDef, Statement
<1> DEFINE c == S + 4
           l == Alloc(4, c)
<1>2. TypeOK /\ S \in Nat /\ c \in Nat /\ c = S + 4
  BY <1>1, Counter
<1>3. Emit(<<l>>, 4)
  BY <1>1
<1> HIDE DEF c
<1>4. l \in Lines /\ l.op = "alloc" /\ l.bytes = 4 /\ l.counted = c /\ Needs(l) = {}
  BY <1>2, AllocLine
<1> HIDE DEF l
<1>5. Fits(<<l>>, 4)
  BY <1>1, <1>2, <1>4, FitsOne
<1>6. operands' \in Seq(Readable') /\ open' \in Seq(GoodFrames')
  BY <1>1, <1>3, <1>5, Counter, Grown
<1> QED
  BY <1>1, <1>3, <1>5, <1>6, Emitted

LEMMA DumpVarDefInitStep ==
  ASSUME FrameInv, DumpVarDefInit
  PROVE  FrameInv'
<1>1. Dumping /\ operands' = <<>> /\ open' = open
  BY DEF DumpVarDefInit, Statement
<1>2. PICK n \in Takes(1) :
        Emit(<<Alloc(4, S + 4), Store(Top(n), Len(Text) + 1, S + 4)>>, 4)
  BY DEF DumpVarDefInit
<1> DEFINE c == S + 4
           at == Len(Text) + 1
           uses == Top(n)
           a == Alloc(4, c)
           b == Store(uses, at, c)
<1>3. uses \in SUBSET Readable /\ uses \in SUBSET Nat
  BY <1>1, Taken, Counter
<1>4. TypeOK /\ S \in Nat /\ c \in Nat /\ at \in Nat /\ at # 0
  BY <1>1, Counter
<1> HIDE DEF c, at, uses
<1>5. /\ a \in Lines /\ Result(a) /\ a.op = "alloc" /\ a.bytes = 4 /\ a.counted = c
      /\ Needs(a) = {}
  BY <1>4, AllocLine
<1>6. /\ b \in Lines /\ b.op = "store" /\ b.bytes = 0 /\ b.counted = c
      /\ Needs(b) = uses \cup {at}
  BY <1>3, <1>4, StoreLine
<1> HIDE DEF a, b
<1>7. Fits(<<a, b>>, 4)
  <2>1. /\ S + a.bytes <= a.counted /\ a.counted <= S + 4
        /\ a.counted + b.bytes <= b.counted /\ b.counted <= S + 4
    BY <1>4, <1>5, <1>6 DEF c
  <2>2. \A u \in Needs(b) : u \in Readable \/ (u = Len(Text) + 1 /\ Result(a))
    BY <1>3, <1>5, <1>6 DEF at
  <2> QED BY <2>1, <2>2, <1>1, <1>4, <1>5, <1>6, FitsTwo
<1>8. Emit(<<a, b>>, 4)
  BY <1>2 DEF a, b, c, at, uses
<1>9. operands' \in Seq(Readable') /\ open' \in Seq(GoodFrames')
  BY <1>1, <1>7, <1>8, Grown, Tuples
<1> QED
  BY <1>1, <1>7, <1>8, <1>9, Emitted

LEMMA DumpArrayDefStep ==
  ASSUME FrameInv, DumpArrayDef
  PROVE  FrameInv'
<1>1. Dumping /\ operands' = operands
  BY DEF DumpArrayDef, Statement
<1>2. PICK d \in Shapes :
        /\ Emit(<<Alloc(SizeOf(d), S + SizeOf(d))>>, SizeOf(d))
        /\ open' = Open("init", Head(d), Tail(d), Len(Text) + 1)
  BY DEF DumpArrayDef
<1> DEFINE bytes == SizeOf(d)
           l == Alloc(bytes, S + bytes)
           ls == <<l>>
<1>3. bytes \in Nat /\ Head(d) \in Nat /\ Tail(d) \in Seq(Nat)
  BY FrameConstants
<1> HIDE DEF bytes
<1>4. S + bytes \in Nat /\ S \in Nat /\ TypeOK /\ Len(Text) + 1 \in Nat
  BY SMTT(60), <1>1, <1>3, Counter
<1>5. /\ l \in Lines /\ Result(l) /\ l.op = "alloc" /\ l.bytes = bytes
      /\ l.counted = S + bytes /\ Needs(l) = {}
  BY <1>3, <1>4, AllocLine
<1> HIDE DEF l
<1>6. Fits(ls, bytes)
  BY <1>1, <1>3, <1>4, <1>5, FitsOne
<1>7. Emit(ls, bytes)
  BY <1>2 DEF l, bytes
<1>8. ls # <<>> /\ Len(ls) = 1 /\ ls[1] = l
  OBVIOUS
<1> HIDE DEF ls
<1>9. Len(Text) + 1 \in Readable'
  BY <1>1, <1>5, <1>6, <1>7, <1>8, Grown
<1>10. open' \in Seq(GoodFrames')
  BY <1>1, <1>2, <1>3, <1>4, <1>6, <1>7, <1>9, Opened
<1>11. operands' \in Seq(Readable')
  <2>1. operands \in Seq(Readable)
    BY <1>1, Counter
  <2> QED BY <2>1, <1>1, <1>6, <1>7, Grown
<1> QED
  BY <1>1, <1>6, <1>7, <1>10, <1>11, Emitted

LEMMA CountDown ==
  ASSUME TypeOK, NEW frame \in GoodFrames, frame.tag \in {"init", "params"}, frame.left # 0
  PROVE  [frame EXCEPT !.left = @ - 1] \in GoodFrames
<1> DEFINE n == frame.left - 1
           next == [frame EXCEPT !.left = n]
<1>1. frame \in Frames /\ frame.left \in Nat
  BY DEF GoodFrames, Frames
<1>2. n \in Nat /\ n <= frame.left
  BY <1>1
<1>3. frame.tag = "params" => n <= Arity[cur]
  <2>1. Arity[cur] \in Nat
    BY FrameConstants DEF TypeOK, Functions
  <2>2. frame.tag = "params" => frame.left <= Arity[cur]
    BY DEF GoodFrames
  <2> QED BY <2>1, <2>2, <1>1
<1> HIDE DEF n
<1>4. /\ next \in Frames /\ next.left = n /\ next.tag = frame.tag /\ next.at = frame.at
      /\ next.uses = frame.uses
  BY <1>1, <1>2 DEF Frames
<1> HIDE DEF next
<1>5. next \in GoodFrames
  BY <1>3, <1>4 DEF GoodFrames
<1> QED
  BY <1>5 DEF next, n

LEMMA InitLocalArrayStep ==
  ASSUME FrameInv, InitLocalArray
  PROVE  FrameInv'
<1> DEFINE frame == Head(open)
           c == S + 4
           at == Len(Text) + 1
           elem == Value({}, frame.at, c)
           st(uses) == Store(uses, at, c)
           next == [frame EXCEPT !.left = @ - 1]
           rest == <<next>> \o Tail(open)
           inner == [frame EXCEPT !.left = Head(frame.dims), !.dims = Tail(frame.dims),
                                  !.at = at]
<1>1. Dumping /\ open # <<>> /\ frame.tag = "init"
  BY DEF InitLocalArray, Innermost
<1>2. \/ /\ frame.left = 0 /\ open' = Tail(open) /\ Emit(<<>>, 0)
         /\ operands' \in {<<>>, operands}
      \/ /\ frame.left # 0 /\ open' = rest
         /\ \E uses \in ElementUses :
              /\ Emit(<<elem, st(uses)>>, 4)
              /\ operands' = IF uses = {} THEN operands ELSE Tail(operands)
      \/ /\ frame.left # 0 /\ frame.dims # <<>> /\ Emit(<<elem>>, 4)
         /\ open' = <<inner>> \o rest /\ operands' = operands
  BY DEF InitLocalArray
<1>3. /\ TypeOK /\ S \in Nat /\ c \in Nat /\ c = S + 4 /\ at \in Nat /\ at = Len(Text) + 1
      /\ at # 0 /\ operands \in Seq(Readable) /\ frame \in GoodFrames
  BY <1>1, Counter
<1>4. /\ frame \in Frames /\ frame.at \in Nat /\ frame.left \in Nat
      /\ frame.dims \in Seq(Nat) /\ (frame.at # 0 => frame.at \in Readable)
  BY <1>3 DEF GoodFrames, Frames
<1>5. next \in GoodFrames \/ frame.left = 0
  <2> HIDE DEF frame
  <2> QED BY <1>1, <1>3, <1>4, CountDown
<1>6. /\ elem \in Lines /\ Result(elem) /\ elem.op = "value" /\ elem.bytes = 4
      /\ elem.counted = c /\ Needs(elem) = {} \cup (IF frame.at = 0 THEN {} ELSE {frame.at})
  <2> HIDE DEF c
  <2> DEFINE x == frame.at
  <2>1. x \in Nat /\ {} \in SUBSET Nat /\ c \in Nat
    BY <1>3, <1>4
  <2> HIDE DEF x
  <2>2. /\ Value({}, x, c) \in Lines /\ Result(Value({}, x, c))
        /\ Value({}, x, c).op = "value" /\ Value({}, x, c).bytes = 4
        /\ Value({}, x, c).counted = c
        /\ Needs(Value({}, x, c)) = {} \cup (IF x = 0 THEN {} ELSE {x})
    BY <2>1, ValueLine
  <2> QED BY <2>2 DEF x
<1>7. \A uses \in SUBSET Nat :
        /\ st(uses) \in Lines /\ st(uses).op = "store" /\ st(uses).bytes = 0
        /\ st(uses).counted = c /\ Needs(st(uses)) = uses \cup {at}
  <2> SUFFICES ASSUME NEW uses \in SUBSET Nat
               PROVE  /\ st(uses) \in Lines /\ st(uses).op = "store" /\ st(uses).bytes = 0
                      /\ st(uses).counted = c /\ Needs(st(uses)) = uses \cup {at}
    OBVIOUS
  <2>1. at \in Nat /\ at # 0 /\ c \in Nat
    BY <1>3
  <2> HIDE DEF c, at
  <2> QED BY <2>1, StoreLine
<1> HIDE DEF frame, c, at, elem, st, next, rest, inner
<1>8. Needs(elem) \subseteq Readable
  BY <1>4, <1>6
<1>9. Fits(<<elem>>, 4)
  BY <1>1, <1>3, <1>6, <1>8, FitsOne
<1>10. \A uses \in ElementUses :
         /\ uses \in SUBSET Nat /\ uses \subseteq Readable
         /\ uses # {} => Tail(operands) \in Seq(Readable)
  <2>1. Readable \subseteq Nat
    BY <1>1, Counter
  <2> SUFFICES ASSUME NEW uses \in ElementUses, uses # {}
               PROVE  /\ uses \subseteq Readable
                      /\ Tail(operands) \in Seq(Readable)
    BY <2>1
  <2>2. 1 \in DOMAIN operands /\ uses = {operands[1]}
    BY DEF ElementUses
  <2>3. operands # <<>> /\ operands[1] \in Readable /\ Tail(operands) \in Seq(Readable)
    BY <2>2, <1>3
  <2> QED BY <2>2, <2>3
<1>11. CASE /\ frame.left = 0 /\ open' = Tail(open) /\ Emit(<<>>, 0)
            /\ operands' \in {<<>>, operands}
  <2>1. Fits(<<>>, 0)
    BY <1>1, <1>3, FitsNone
  <2>2. <<>> \in Seq(Readable)
    BY Tuples
  <2>3. operands' \in Seq(Readable)
    BY <2>2, <1>3, <1>11
  <2>4. operands' \in Seq(Readable') /\ open' \in Seq(GoodFrames')
    BY <2>1, <2>3, <1>1, <1>11, Grown
  <2> QED BY <2>1, <2>4, <1>1, <1>11, Emitted
<1>12. CASE /\ frame.left # 0 /\ open' = rest
            /\ \E uses \in ElementUses :
                 /\ Emit(<<elem, st(uses)>>, 4)
                 /\ operands' = IF uses = {} THEN operands ELSE Tail(operands)
  <2>1. PICK uses \in ElementUses :
          /\ Emit(<<elem, st(uses)>>, 4)
          /\ operands' = IF uses = {} THEN operands ELSE Tail(operands)
    BY <1>12
  <2> DEFINE b == st(uses)
  <2>2. /\ b \in Lines /\ b.op = "store" /\ b.bytes = 0 /\ b.counted = c
        /\ Needs(b) = uses \cup {at}
    BY <1>7, <1>10
  <2>3. Emit(<<elem, b>>, 4)
    BY <2>1
  <2> HIDE DEF b
  <2>4. \A u \in Needs(b) : u \in Readable \/ (u = Len(Text) + 1 /\ Result(elem))
    BY <2>2, <1>3, <1>6, <1>10
  <2>5. Fits(<<elem, b>>, 4)
    BY <2>2, <2>4, <1>1, <1>3, <1>6, <1>8, FitsTwo
  <2>6. operands' \in Seq(Readable)
    BY <2>1, <1>3, <1>10
  <2>7. GoodFrames \subseteq GoodFrames' /\ Tail(open) \in Seq(GoodFrames')
        /\ operands' \in Seq(Readable')
    BY <2>3, <2>5, <2>6, <1>1, <1>3, Grown, StillReadable DEF Fits
  <2>8. rest \in Seq(GoodFrames')
    BY <2>7, <1>5, <1>12, Stack DEF rest
  <2> QED BY <2>3, <2>5, <2>7, <2>8, <1>1, <1>12, Emitted
<1>13. CASE /\ frame.left # 0 /\ frame.dims # <<>> /\ Emit(<<elem>>, 4)
            /\ open' = <<inner>> \o rest /\ operands' = operands
  <2> DEFINE ls == <<elem>>
  <2>1. ls # <<>> /\ Len(ls) = 1 /\ ls[1] = elem
    OBVIOUS
  <2>2. Emit(ls, 4) /\ Fits(ls, 4)
    BY <1>9, <1>13
  <2> HIDE DEF ls
  <2>3. /\ GoodFrames \subseteq GoodFrames' /\ Tail(open) \in Seq(GoodFrames')
        /\ operands \in Seq(Readable') /\ at \in Readable'
    BY <2>1, <2>2, <1>1, <1>3, <1>6, Grown, StillReadable DEF Fits
  <2>4. rest \in Seq(GoodFrames')
    BY <2>3, <1>5, <1>13, Stack DEF rest
  <2>5. Head(frame.dims) \in Nat /\ Tail(frame.dims) \in Seq(Nat)
    BY <1>4, <1>13
  <2>6. frame \in GoodFrames'
    BY <2>3, <1>3
  <2>7. inner \in GoodFrames'
    BY <2>3, <2>5, <2>6, <1>1, <1>3, <1>4 DEF inner, frame, GoodFrames, Frames
  <2>8. <<inner>> \o rest \in Seq(GoodFrames')
    BY <2>4, <2>7, Stack
  <2> QED BY <2>2, <2>3, <2>8, <1>1, <1>13, Emitted
<1> QED
  BY <1>2, <1>11, <1>12, <1>13 DEF frame, c, at, elem, st, next, rest, inner

LEMMA DeclareAllocStep ==
  ASSUME FrameInv, DeclareAlloc
  PROVE  FrameInv'
<1> DEFINE frame == Head(open)
           c == S + 4
           at == Len(Text) + 1
           arg == Arity[cur] - frame.left
           a == Alloc(4, c)
           p == Line("param", 0, {}, at, arg, c)
           next == [frame EXCEPT !.left = @ - 1]
           rest == <<next>> \o Tail(open)
<1>1. Dumping /\ open # <<>> /\ frame.tag = "params" /\ operands' = operands
  BY DEF DeclareAlloc, Innermost
<1>2. \/ frame.left = 0 /\ open' = Tail(open) /\ Emit(<<>>, 0)
      \/ frame.left # 0 /\ Emit(<<a, p>>, 4) /\ open' = rest
  BY DEF DeclareAlloc
<1>3. /\ TypeOK /\ S \in Nat /\ c \in Nat /\ c = S + 4 /\ at \in Nat /\ at = Len(Text) + 1
      /\ at # 0 /\ operands \in Seq(Readable) /\ frame \in GoodFrames /\ cur \in Functions
  BY <1>1, Counter
<1>4. frame \in Frames /\ frame.left \in Nat /\ frame.left <= Arity[cur]
  BY <1>1, <1>3 DEF GoodFrames, Frames
<1>5. arg \in Nat
  BY <1>3, <1>4, FrameConstants DEF Functions
<1>6. next \in GoodFrames \/ frame.left = 0
  <2> HIDE DEF frame
  <2> QED BY <1>1, <1>3, <1>4, CountDown
<1> HIDE DEF frame, c, at, arg
<1>7. /\ a \in Lines /\ Result(a) /\ a.op = "alloc" /\ a.bytes = 4 /\ a.counted = c
      /\ Needs(a) = {}
  BY <1>3, AllocLine
<1>8. p \in Lines /\ p.op = "param" /\ p.bytes = 0 /\ p.counted = c /\ Needs(p) = {at}
  BY <1>3, <1>5 DEF Line, Lines, Needs
<1> HIDE DEF a, p, next, rest
<1>9. Fits(<<a, p>>, 4)
  <2>1. \A u \in Needs(p) : u \in Readable \/ (u = Len(Text) + 1 /\ Result(a))
    BY <1>3, <1>7, <1>8
  <2> QED BY <2>1, <1>1, <1>3, <1>7, <1>8, FitsTwo
<1>10. CASE frame.left = 0 /\ open' = Tail(open) /\ Emit(<<>>, 0)
  <2>1. Fits(<<>>, 0)
    BY <1>1, <1>3, FitsNone
  <2> QED BY <2>1, <1>1, <1>3, <1>10, Grown, Emitted
<1>11. CASE frame.left # 0 /\ Emit(<<a, p>>, 4) /\ open' = rest
  <2>1. GoodFrames \subseteq GoodFrames' /\ Tail(open) \in Seq(GoodFrames')
        /\ operands \in Seq(Readable')
    BY <1>1, <1>3, <1>9, <1>11, Grown, StillReadable DEF Fits
  <2>2. rest \in Seq(GoodFrames')
    BY <2>1, <1>6, <1>11, Stack DEF rest
  <2> QED BY <2>1, <2>2, <1>1, <1>9, <1>11, Emitted
<1> QED
  BY <1>2, <1>10, <1>11 DEF frame, c, at, arg, a, p, next, rest

\* Most actions keep or close the open Dump call, and either leave the last
\* line as an operand or only use some of those there are.
LEMMA Closes ==
  ASSUME FrameInv, Dumping, NEW ls, NEW bytes, Fits(ls, bytes), Emit(ls, bytes),
         open' = open \/ (open # <<>> /\ open' = Tail(open)),
         NEW s \in Seq(Readable),
         \/ operands' = s
         \/ ls # <<>> /\ Result(ls[Len(ls)]) /\ operands' = Append(s, Len(Text) + Len(ls))
  PROVE  FrameInv'
<1>1. open' \in Seq(GoodFrames') /\ s \in Seq(Readable')
  BY Grown
<1>2. Len(ls) \in Nat
  BY DEF Fits
<1>3. ls # <<>> /\ Result(ls[Len(ls)]) => Len(Text) + Len(ls) \in Readable'
  BY <1>2, Grown
<1>4. operands' \in Seq(Readable')
  BY <1>1, <1>3, Stack
<1> QED
  BY <1>1, <1>4, Emitted

LEMMA DumpLValStep ==
  ASSUME FrameInv, DumpLVal
  PROVE  FrameInv'
<1>1. Dumping /\ open' = open /\ operands' = Append(operands, Len(Text) + 1)
  BY DEF DumpLVal, Expression
<1>2. PICK v \in Locals \cup {0} : Emit(<<Value({}, v, S + 4)>>, 4)
  BY DEF DumpLVal
<1> DEFINE c == S + 4
           l == Value({}, v, c)
           ls == <<l>>
<1>3. /\ TypeOK /\ S \in Nat /\ c \in Nat /\ c = S + 4 /\ operands \in Seq(Readable)
      /\ v \in Nat /\ v \in Readable \cup {0} /\ {} \in SUBSET Nat
  BY <1>1, Counter
<1> HIDE DEF c
<1>4. /\ l \in Lines /\ Result(l) /\ l.op = "value" /\ l.bytes = 4 /\ l.counted = c
      /\ Needs(l) \subseteq Readable
  <2>1. CASE v = 0
    <3>1. Needs(l) = {} \cup (IF v = 0 THEN {} ELSE {v})
      BY <1>3, ValueLine
    <3> QED BY <3>1, <2>1, <1>3, ValueLine
  <2>2. CASE v # 0
    BY <2>2, <1>3, PointerLine
  <2> QED BY <2>1, <2>2
<1>5. Emit(ls, 4)
  BY <1>2 DEF c
<1> HIDE DEF l
<1>6. Fits(ls, 4)
  BY <1>1, <1>3, <1>4, FitsOne
<1>7. ls # <<>> /\ Len(ls) = 1 /\ ls[1] = l
  OBVIOUS
<1> HIDE DEF ls
<1> QED
  BY <1>1, <1>3, <1>4, <1>5, <1>6, <1>7, Closes

LEMMA DumpLValElemStep ==
  ASSUME FrameInv, DumpLValElem
  PROVE  FrameInv'
<1>1. Dumping /\ open' = open
  BY DEF DumpLValElem, Expression
<1>2. PICK v \in Locals \cup {0}, k \in 2 .. Dims + 2, n \in Takes(Dims) :
        Emit(Path(k, Top(n), v), 4 * k) /\ operands' = Append(Drop(n), Len(Text) + k)
  BY DEF DumpLValElem
<1>3. /\ TypeOK /\ v \in Readable \cup {0} /\ k \in Nat /\ k > 0
      /\ Top(n) \in SUBSET Readable /\ Drop(n) \in Seq(Readable)
  <2>1. Dims \in Nat
    BY FrameConstants
  <2>2. k \in Nat /\ k > 0
    BY <2>1
  <2>3. Top(n) \in SUBSET Readable /\ Drop(n) \in Seq(Readable)
    BY <2>1, <1>1, Taken
  <2>4. TypeOK /\ v \in Readable \cup {0}
    BY <1>1, Counter
  <2> QED BY <2>2, <2>3, <2>4
<1> DEFINE ls == Path(k, Top(n), v)
<1>4. Fits(ls, 4 * k) /\ Len(ls) = k /\ Result(ls[k])
  BY <1>1, <1>3, FitsPath
<1>5. Emit(ls, 4 * k)
  BY <1>2
<1> HIDE DEF ls
<1>6. ls # <<>>
  BY <1>3, <1>4 DEF Fits
<1> QED
  BY <1>1, <1>2, <1>3, <1>4, <1>5, <1>6, Closes

LEMMA DumpOpStep ==
  ASSUME FrameInv, DumpOp
  PROVE  FrameInv'
<1>1. Dumping /\ open' = open
  BY DEF DumpOp, Expression
<1>2. PICK n \in Takes(2) : /\ Emit(<<Value(Top(n), 0, S + 4)>>, 4)
                            /\ operands' = Append(Drop(n), Len(Text) + 1)
  BY DEF DumpOp
<1> DEFINE c == S + 4
           uses == Top(n)
           l == Value(uses, 0, c)
           ls == <<l>>
<1>3. /\ TypeOK /\ S \in Nat /\ c \in Nat /\ c = S + 4 /\ Readable \subseteq Nat
      /\ uses \in SUBSET Readable /\ Drop(n) \in Seq(Readable)
  BY <1>1, Counter, Taken
<1>4. uses \in SUBSET Nat
  BY <1>3
<1> HIDE DEF c, uses
<1>5. /\ l \in Lines /\ Result(l) /\ l.op = "value" /\ l.bytes = 4 /\ l.counted = c
      /\ Needs(l) = uses
  BY <1>3, <1>4, ResultLine
<1>6. Emit(ls, 4)
  BY <1>2 DEF c, uses
<1> HIDE DEF l
<1>7. Fits(ls, 4)
  <2>1. S + l.bytes <= l.counted /\ l.counted <= S + 4 /\ Needs(l) \subseteq Readable
    BY <1>3, <1>5
  <2> QED BY <2>1, <1>1, <1>3, <1>5, FitsOne
<1>8. ls # <<>> /\ Len(ls) = 1 /\ ls[1] = l
  OBVIOUS
<1> HIDE DEF ls
<1> QED
  BY <1>1, <1>2, <1>3, <1>5, <1>6, <1>7, <1>8, Closes

LEMMA DumpLogicStep ==
  ASSUME FrameInv, DumpLogic
  PROVE  FrameInv'
<1>1. Dumping /\ operands' = operands /\ Emit(<<Alloc(4, S + 4)>>, 4)
  BY DEF DumpLogic, Expression
<1>2. PICK tag \in {"land", "lor"} : open' = Open(tag, 0, <<>>, Len(Text) + 1)
  BY DEF DumpLogic
<1> DEFINE c == S + 4
           at == Len(Text) + 1
           l == Alloc(4, c)
           ls == <<l>>
<1>3. /\ TypeOK /\ S \in Nat /\ c \in Nat /\ c = S + 4 /\ operands \in Seq(Readable)
      /\ at \in Nat /\ <<>> \in Seq(Nat)
  BY <1>1, Counter
<1>4. Emit(ls, 4)
  BY <1>1
<1> HIDE DEF c
<1>5. /\ l \in Lines /\ Result(l) /\ l.op = "alloc" /\ l.bytes = 4 /\ l.counted = c
      /\ Needs(l) = {}
  BY <1>3, AllocLine
<1> HIDE DEF l
<1>6. Fits(ls, 4)
  BY <1>1, <1>3, <1>5, FitsOne
<1>7. ls # <<>> /\ Len(ls) = 1 /\ ls[1] = l
  OBVIOUS
<1> HIDE DEF ls
<1>8. at \in Readable' /\ operands' \in Seq(Readable')
  BY <1>1, <1>3, <1>4, <1>5, <1>6, <1>7, Grown
<1>9. open' \in Seq(GoodFrames')
  <2> HIDE DEF at
  <2>1. Open(tag, 0, <<>>, at) \in Seq(GoodFrames')
    BY <1>1, <1>3, <1>4, <1>6, <1>8, Opened
  <2> QED BY <2>1, <1>2 DEF at
<1> QED
  BY <1>1, <1>4, <1>6, <1>8, <1>9, Emitted

LEMMA DumpLogicRhsStep ==
  ASSUME FrameInv, DumpLogicRhs
  PROVE  FrameInv'
<1> DEFINE frame == Head(open)
<1>1. Dumping /\ open # <<>> /\ frame.tag \in {"land", "lor"}
  BY DEF DumpLogicRhs, Innermost
<1>2. PICK n \in Takes(1) :
        /\ Emit(<<Line("br", 0, Top(n), 0, 0, S)>>, 0)
        /\ open' = <<[frame EXCEPT !.left = 1, !.uses = Top(n)]>> \o Tail(open)
        /\ operands' = Drop(n)
  BY DEF DumpLogicRhs
<1> DEFINE uses == Top(n)
           l == Line("br", 0, uses, 0, 0, S)
           ls == <<l>>
           next == [frame EXCEPT !.left = 1, !.uses = uses]
<1>3. /\ TypeOK /\ S \in Nat /\ Readable \subseteq Nat /\ frame \in GoodFrames
      /\ uses \in SUBSET Readable /\ Drop(n) \in Seq(Readable)
  BY <1>1, Counter, Taken
<1>4. uses \in SUBSET Nat
  BY <1>3
<1> HIDE DEF uses, frame
<1>5. l \in Lines /\ l.op = "br" /\ l.bytes = 0 /\ l.counted = S /\ Needs(l) = uses
  BY <1>3, <1>4, UseLine
<1>6. Emit(ls, 0)
  BY <1>2 DEF uses
<1> HIDE DEF l
<1>7. Fits(ls, 0)
  <2>1. S + l.bytes <= l.counted /\ l.counted <= S + 0 /\ 0 \in Nat
    BY <1>3, <1>5
  <2>2. /\ l \in Lines /\ Needs(l) \subseteq Readable
        /\ l.op # "value" /\ l.op # "call"
    BY <1>3, <1>5
  <2> QED BY <2>1, <2>2, <1>1, <1>3, FitsOne
<1> HIDE DEF ls
<1>8. /\ Readable \subseteq Readable' /\ Tail(open) \in Seq(GoodFrames')
      /\ GoodFrames \subseteq GoodFrames' /\ operands' \in Seq(Readable')
  BY <1>1, <1>2, <1>3, <1>6, <1>7, Grown, StillReadable DEF Fits
<1>9. next \in GoodFrames'
  <2>1. frame \in GoodFrames' /\ frame \in Frames /\ uses \subseteq Readable'
    BY <1>3, <1>8 DEF GoodFrames
  <2>2. /\ next \in Frames /\ next.tag = frame.tag /\ next.at = frame.at
        /\ next.left = 1 /\ next.uses = uses
    BY <2>1, <1>4 DEF Frames
  <2> HIDE DEF next
  <2> QED BY <2>1, <2>2, <1>1 DEF GoodFrames
<1>10. open' = <<next>> \o Tail(open)
  BY <1>2 DEF uses
<1> HIDE DEF next
<1>11. open' \in Seq(GoodFrames')
  BY <1>8, <1>9, <1>10, Stack
<1> QED
  BY <1>1, <1>6, <1>7, <1>8, <1>11, Emitted

\* The stores and the load that follow the operation of && or ||.
LEMMA LogicTail ==
  ASSUME TypeOK, Dumping, NEW k \in Nat \ {0}, NEW ls,
         Fits(ls, 4 * k), Len(ls) = k, ls[k].counted = S + 4 * k, Result(ls[k]),
         NEW at \in Readable \cup {0}
  PROVE  LET more == <<Store({Len(Text) + k}, at, S + 4 * k), Store({}, at, S + 4 * k),
                       Value({}, at, S + 4 * k + 8)>>
         IN  /\ Fits(ls \o more, 4 * k + 8)
             /\ Len(ls \o more) = k + 3
             /\ Result((ls \o more)[k + 3])
<1> DEFINE c == S + 4 * k
           d == c + 8
           r == Len(Text) + k
           a == Store({r}, at, c)
           b == Store({}, at, c)
           v == Value({}, at, d)
           la == Append(ls, a)
           lb == Append(la, b)
           lv == Append(lb, v)
<1>1. /\ S \in Nat /\ Len(Text) \in Nat /\ Readable \subseteq Nat /\ c \in Nat /\ d \in Nat
      /\ r \in Nat /\ at \in Nat /\ c = S + 4 * k /\ d = S + (4 * k + 8) /\ c + 4 <= d
      /\ r = Len(Text) + k /\ 4 * k \in Nat /\ 4 * k + 8 \in Nat /\ 4 * k <= 4 * k + 8
  BY SMTT(60), Dumped
<1>2. ls \in Seq(Lines) /\ ls # <<>> /\ Fits(ls, 4 * k + 0)
  <2>1. 4 * k + 0 = 4 * k
    OBVIOUS
  <2> QED BY <2>1 DEF Fits
<1> HIDE DEF c, d, r
<1>3. /\ a \in Lines /\ a.op = "store" /\ a.bytes = 0 /\ a.counted = c
      /\ \A u \in Needs(a) : u = r \/ u \in Readable
  <2>1. {r} \in SUBSET Nat
    BY <1>1
  <2>2. Needs(a) = {r} \cup (IF at = 0 THEN {} ELSE {at})
    BY <2>1, <1>1, StoreLine
  <2>3. \A u \in Needs(a) : u = r \/ u \in Readable
    <3> HIDE DEF a
    <3> QED BY <2>2
  <2>4. a \in Lines /\ a.op = "store" /\ a.bytes = 0 /\ a.counted = c
    BY <2>1, <1>1 DEF Store, Line, Lines
  <2> QED BY <2>3, <2>4
<1>4. /\ b \in Lines /\ b.op = "store" /\ b.bytes = 0 /\ b.counted = c
      /\ \A u \in Needs(b) : u \in Readable
  <2>1. {} \in SUBSET Nat
    OBVIOUS
  <2>2. Needs(b) = {} \cup (IF at = 0 THEN {} ELSE {at})
    BY ZenonT(60), <2>1, <1>1, StoreLine
  <2>3. \A u \in Needs(b) : u \in Readable
    <3> HIDE DEF b
    <3> QED BY <2>2
  <2> QED BY <2>1, <2>3, <1>1, StoreLine
<1>5. /\ v \in Lines /\ v.op = "value" /\ v.bytes = 4 /\ v.counted = d /\ Result(v)
      /\ \A u \in Needs(v) : u \in Readable
  <2>1. {} \in SUBSET Nat
    OBVIOUS
  <2>2. Needs(v) = {} \cup (IF at = 0 THEN {} ELSE {at})
    BY <2>1, <1>1, ValueLine
  <2>3. \A u \in Needs(v) : u \in Readable
    <3> HIDE DEF v
    <3> QED BY <2>2
  <2> QED BY <2>1, <2>3, <1>1, ValueLine
<1> HIDE DEF a, b, v
<1>6. /\ la \in Seq(Lines) /\ Len(la) = k + 1 /\ la[k + 1] = a /\ la # <<>>
      /\ lb \in Seq(Lines) /\ Len(lb) = k + 2 /\ lb[k + 2] = b /\ lb # <<>>
      /\ Len(lv) = k + 3 /\ lv[k + 3] = v
      /\ lv = ls \o <<a, b, v>>
  <2>1. la \in Seq(Lines) /\ Len(la) = k + 1 /\ la[k + 1] = a /\ la # <<>>
    BY <1>2, <1>3
  <2> HIDE DEF la
  <2>2. lb \in Seq(Lines) /\ Len(lb) = k + 2 /\ lb[k + 2] = b /\ lb # <<>>
    BY <2>1, <1>4
  <2> HIDE DEF lb
  <2>3. Len(lv) = k + 3 /\ lv[k + 3] = v
    BY <2>2, <1>5
  <2>4. lv = ls \o <<a, b, v>>
    BY <1>2, <1>3, <1>4, <1>5, Triple DEF la, lb
  <2> QED BY <2>1, <2>2, <2>3, <2>4
<1>7. Fits(la, 4 * k)
  <2>1. \A u \in Needs(a) :
          \/ u \in Readable
          \/ u \in Len(Text) + 1 .. Len(Text) + Len(ls) /\ Result(ls[u - Len(Text)])
    <3>1. r \in Len(Text) + 1 .. Len(Text) + Len(ls) /\ r - Len(Text) = k
      BY <1>1
    <3> QED BY <3>1, <1>3
  <2>2. (IF ls = <<>> THEN S ELSE ls[Len(ls)].counted) + a.bytes <= a.counted
    BY <1>1, <1>2, <1>3
  <2>3. a.counted <= S + 4 * k
    <3>1. a.counted = S + 4 * k
      BY <1>1, <1>3
    <3> QED BY <3>1, <1>1
  <2>4. 4 * k <= 4 * k
    BY <1>1
  <2> QED BY <2>1, <2>2, <2>3, <2>4, <1>1, <1>3, FitsMore
<1> HIDE DEF la
<1>8. Fits(lb, 4 * k)
  <2>1. (IF la = <<>> THEN S ELSE la[Len(la)].counted) + b.bytes <= b.counted
    BY SMTT(60), <1>1, <1>3, <1>4, <1>6
  <2>2. b.counted <= S + 4 * k /\ 4 * k <= 4 * k
    BY SMTT(60), <1>1, <1>4
  <2> QED BY <2>1, <2>2, <1>1, <1>4, <1>7, FitsMore
<1> HIDE DEF lb
<1>9. Fits(lv, 4 * k + 8)
  <2>1. (IF lb = <<>> THEN S ELSE lb[Len(lb)].counted) + v.bytes <= v.counted
    BY <1>1, <1>4, <1>5, <1>6
  <2>2. v.counted <= S + (4 * k + 8)
    BY <1>1, <1>5
  <2> QED BY <2>1, <2>2, <1>1, <1>5, <1>8, FitsMore
<1> HIDE DEF lv
<1> QED
  <2>1. /\ Fits(ls \o <<a, b, v>>, 4 * k + 8)
        /\ Len(ls \o <<a, b, v>>) = k + 3
        /\ Result((ls \o <<a, b, v>>)[k + 3])
    BY <1>5, <1>6, <1>9
  <2> QED BY <2>1 DEF a, b, v, c, d, r

\* The last stretch of && and ||, whatever the operation in front.
LEMMA LogicCloses ==
  ASSUME FrameInv, Dumping, open # <<>>, open' = Tail(open),
         NEW op, NEW k \in Nat \ {0}, Len(op) = k, Fits(op, 4 * k),
         op[k].counted = S + 4 * k, Result(op[k]),
         NEW at \in Readable \cup {0}, NEW s \in Seq(Readable),
         Emit(op \o <<Store({Len(Text) + k}, at, S + 4 * k), Store({}, at, S + 4 * k),
                      Value({}, at, S + 4 * k + 8)>>, 4 * k + 8),
         operands' = Append(s, Len(Text) + k + 3)
  PROVE  FrameInv'
<1> DEFINE ls == op \o <<Store({Len(Text) + k}, at, S + 4 * k), Store({}, at, S + 4 * k),
                         Value({}, at, S + 4 * k + 8)>>
           bytes == 4 * k + 8
<1>1. TypeOK /\ Len(Text) \in Nat
  BY Counter
<1>2. Fits(ls, bytes) /\ Len(ls) = k + 3 /\ Result(ls[k + 3])
  BY <1>1, LogicTail
<1>3. Emit(ls, bytes)
  OBVIOUS
<1> HIDE DEF ls, bytes
<1>4. ls # <<>>
  BY <1>2 DEF Fits
<1>5. Len(Text) + k + 3 = Len(Text) + Len(ls)
  BY <1>1, <1>2
<1>6. operands' = Append(s, Len(Text) + Len(ls)) /\ Result(ls[Len(ls)])
  BY <1>2, <1>5
<1> QED
  BY <1>2, <1>3, <1>4, <1>6, Closes

LEMMA AndFits ==
  ASSUME TypeOK, Dumping, NEW lhs \in SUBSET Readable, NEW rhs \in SUBSET Readable
  PROVE  LET l == Len(Text)
             op == <<Value(lhs, 0, S + 4), Value(rhs, 0, S + 8),
                     Value({l + 1, l + 2}, 0, S + 12)>>
         IN  /\ Fits(op, 12) /\ Len(op) = 3
             /\ op[3].counted = S + 12 /\ Result(op[3])
<1> DEFINE c1 == S + 4
           c2 == S + 8
           c3 == S + 12
           a1 == Len(Text) + 1
           a2 == Len(Text) + 2
           both == {a1, a2}
           a == Value(lhs, 0, c1)
           b == Value(rhs, 0, c2)
           v == Value(both, 0, c3)
           two == <<a, b>>
           three == <<a, b, v>>
<1>1. /\ S \in Nat /\ Len(Text) \in Nat /\ c1 \in Nat /\ c2 \in Nat /\ c3 \in Nat
      /\ c1 = S + 4 /\ c1 + 4 = c2 /\ c2 + 4 = c3 /\ c2 = S + 8 /\ c3 = S + 12
      /\ a1 \in Nat /\ a2 \in Nat /\ a1 = Len(Text) + 1 /\ a2 = Len(Text) + 2
  BY Dumped
<1>2. lhs \in SUBSET Nat /\ rhs \in SUBSET Nat /\ both \in SUBSET Nat
  BY <1>1, Dumped
<1> HIDE DEF c1, c2, c3, a1, a2
<1>3. a \in Lines /\ Result(a) /\ a.op = "value" /\ a.bytes = 4 /\ a.counted = c1 /\ Needs(a) = lhs
  BY <1>1, <1>2, ResultLine
<1>4. b \in Lines /\ Result(b) /\ b.op = "value" /\ b.bytes = 4 /\ b.counted = c2 /\ Needs(b) = rhs
  BY <1>1, <1>2, ResultLine
<1>5. v \in Lines /\ Result(v) /\ v.op = "value" /\ v.bytes = 4 /\ v.counted = c3 /\ Needs(v) = both
  <2> HIDE DEF both
  <2> QED BY <1>1, <1>2, ResultLine
<1> HIDE DEF a, b, v
<1>6. Fits(two, 8)
  <2>1. /\ S + a.bytes <= a.counted /\ a.counted <= S + 8
        /\ a.counted + b.bytes <= b.counted /\ b.counted <= S + 8
    BY <1>1, <1>3, <1>4
  <2>2. Needs(a) \subseteq Readable
    BY <1>3
  <2>3. \A u \in Needs(b) : u \in Readable \/ (u = Len(Text) + 1 /\ Result(a))
    BY <1>4
  <2> QED BY <2>1, <2>2, <2>3, <1>3, <1>4, FitsTwo
<1>7. two # <<>> /\ Len(two) = 2 /\ two[1] = a /\ two[2] = b /\ Append(two, v) = three
  <2>1. /\ two \in Seq(Lines) /\ Len(two) = 2 /\ two[1] = a /\ two[2] = b /\ two # <<>>
        /\ three \in Seq(Lines) /\ Len(three) = 3
        /\ three[1] = a /\ three[2] = b /\ three[3] = v
    BY <1>3, <1>4, <1>5
  <2> DEFINE u == Append(two, v)
  <2> HIDE DEF two, three
  <2>2. /\ u \in Seq(Lines) /\ Len(u) = 3
        /\ \A i \in 1 .. 2 : u[i] = two[i]
        /\ u[3] = v
    <3>2. two \in Seq(Lines) /\ v \in Lines
      BY <2>1, <1>5
    <3>1. /\ u \in Seq(Lines) /\ Len(u) = Len(two) + 1
          /\ \A i \in 1 .. Len(two) : u[i] = two[i]
          /\ u[Len(two) + 1] = v
      BY <3>2, Last
    <3> HIDE DEF u
    <3> QED BY <2>1, <3>1
  <2> HIDE DEF u
  <2>3. \A i \in 1 .. Len(u) : u[i] = three[i]
    <3> SUFFICES ASSUME NEW i \in 1 .. Len(u) PROVE u[i] = three[i]
      OBVIOUS
    <3>1. i = 1 \/ i = 2 \/ i = 3
      BY <2>2
    <3> QED BY <3>1, <2>1, <2>2
  <2>4. u = three
    BY <2>1, <2>2, <2>3, SeqEqual
  <2> QED BY <2>1, <2>4 DEF u
<1>8. three[3] = v /\ Len(three) = 3
  OBVIOUS
<1> HIDE DEF two, three
<1>9. Fits(Append(two, v), 12)
  <2>1. \A u \in Needs(v) :
          u \in Len(Text) + 1 .. Len(Text) + Len(two) /\ Result(two[u - Len(Text)])
    <3> SUFFICES ASSUME NEW u \in Needs(v)
                 PROVE  u \in Len(Text) + 1 .. Len(Text) + Len(two)
                        /\ Result(two[u - Len(Text)])
      OBVIOUS
    <3>1. CASE u = a1
      <4>1. u - Len(Text) = 1 /\ u \in Len(Text) + 1 .. Len(Text) + 2
        BY <3>1, <1>1
      <4> QED BY <4>1, <1>3, <1>7
    <3>2. CASE u = a2
      <4>1. u - Len(Text) = 2 /\ u \in Len(Text) + 1 .. Len(Text) + 2
        BY <3>2, <1>1
      <4> QED BY <4>1, <1>4, <1>7
    <3> QED BY <3>1, <3>2, <1>5
  <2>2. (IF two = <<>> THEN S ELSE two[Len(two)].counted) + v.bytes <= v.counted
    BY <1>1, <1>4, <1>5, <1>7
  <2>3. v.counted <= S + 12 /\ 8 <= 12 /\ 12 \in Nat
    BY <1>1, <1>5
  <2> QED BY <2>1, <2>2, <2>3, <1>5, <1>6, FitsMore
<1>10. Fits(three, 12) /\ Len(three) = 3 /\ three[3].counted = S + 12 /\ Result(three[3])
  BY <1>1, <1>5, <1>7, <1>8, <1>9
<1> QED
  BY <1>10 DEF three, a, b, v, c1, c2, c3, a1, a2

LEMMA OrFits ==
  ASSUME TypeOK, Dumping, NEW uses \in SUBSET Readable
  PROVE  LET op == <<Value(uses, 0, S + 4), Value({Len(Text) + 1}, 0, S + 8)>>
         IN  /\ Fits(op, 8) /\ Len(op) = 2
             /\ op[2].counted = S + 8 /\ Result(op[2])
<1> DEFINE c1 == S + 4
           c2 == S + 8
           one == {Len(Text) + 1}
           a == Value(uses, 0, c1)
           b == Value(one, 0, c2)
           two == <<a, b>>
<1>1. /\ S \in Nat /\ Len(Text) \in Nat /\ c1 \in Nat /\ c2 \in Nat
      /\ c1 = S + 4 /\ c1 + 4 = c2 /\ c2 = S + 8 /\ one = {Len(Text) + 1}
      /\ one \in SUBSET Nat /\ uses \in SUBSET Nat
  BY Dumped
<1> HIDE DEF c1, c2, one
<1>2. a \in Lines /\ Result(a) /\ a.op = "value" /\ a.bytes = 4 /\ a.counted = c1 /\ Needs(a) = uses
  BY <1>1, ResultLine
<1>3. b \in Lines /\ Result(b) /\ b.op = "value" /\ b.bytes = 4 /\ b.counted = c2 /\ Needs(b) = one
  BY <1>1, ResultLine
<1> HIDE DEF a, b
<1>4. Fits(two, 8)
  <2>1. /\ S + a.bytes <= a.counted /\ a.counted <= S + 8
        /\ a.counted + b.bytes <= b.counted /\ b.counted <= S + 8
    BY <1>1, <1>2, <1>3
  <2>2. Needs(a) \subseteq Readable
    BY <1>2
  <2>3. \A u \in Needs(b) : u \in Readable \/ (u = Len(Text) + 1 /\ Result(a))
    BY <1>1, <1>2, <1>3
  <2> QED BY <2>1, <2>2, <2>3, <1>2, <1>3, FitsTwo
<1>5. two[2] = b /\ Len(two) = 2
  OBVIOUS
<1> HIDE DEF two
<1>6. Fits(two, 8) /\ Len(two) = 2 /\ two[2].counted = S + 8 /\ Result(two[2])
  BY <1>1, <1>3, <1>4, <1>5
<1> QED
  BY <1>6 DEF two, a, b, c1, c2, one

LEMMA DumpLogicOpStep ==
  ASSUME FrameInv, DumpLogicOp
  PROVE  FrameInv'
<1> DEFINE l == Len(Text)
           lhs == Head(open).uses
           at == Head(open).at
<1>1. Dumping /\ open # <<>> /\ open' = Tail(open) /\ Head(open).tag \in {"land", "lor"}
  BY DEF DumpLogicOp, Innermost
<1>2. PICK n \in Takes(1) :
        LET op == IF Head(open).tag = "land"
                  THEN <<Value(lhs, 0, S + 4), Value(Top(n), 0, S + 8),
                         Value({l + 1, l + 2}, 0, S + 12)>>
                  ELSE <<Value(lhs \cup Top(n), 0, S + 4),
                         Value({l + 1}, 0, S + 8)>>
            s == S + 4 * Len(op)
        IN  /\ Emit(op \o <<Store({l + Len(op)}, at, s), Store({}, at, s),
                            Value({}, at, s + 8)>>, 4 * Len(op) + 8)
            /\ operands' = Append(Drop(n), l + Len(op) + 3)
  BY DEF DumpLogicOp
<1> DEFINE rhs == Top(n)
           keep == Drop(n)
<1>3. TypeOK /\ rhs \in SUBSET Readable /\ keep \in Seq(Readable)
  BY <1>1, Counter, Taken
<1>4. lhs \in SUBSET Readable /\ at \in Readable \cup {0}
  <2>1. Head(open) \in GoodFrames
    BY <1>1, Counter
  <2> QED BY <2>1 DEF GoodFrames
<1>5. CASE Head(open).tag = "land"
  <2> DEFINE op == <<Value(lhs, 0, S + 4), Value(rhs, 0, S + 8),
                     Value({l + 1, l + 2}, 0, S + 12)>>
             k == Len(op)
  <2>1. /\ Emit(op \o <<Store({Len(Text) + k}, at, S + 4 * k), Store({}, at, S + 4 * k),
                        Value({}, at, S + 4 * k + 8)>>, 4 * k + 8)
        /\ operands' = Append(keep, Len(Text) + k + 3)
    BY <1>2, <1>5
  <2> HIDE DEF rhs, keep, lhs, at
  <2>2. Fits(op, 12) /\ Len(op) = 3 /\ op[3].counted = S + 12 /\ Result(op[3])
    BY <1>1, <1>3, <1>4, AndFits
  <2> HIDE DEF op
  <2>3. /\ k \in Nat \ {0} /\ Len(op) = k /\ Fits(op, 4 * k)
        /\ op[k].counted = S + 4 * k /\ Result(op[k])
    <3>1. k = 3 /\ 4 * k = 12
      BY <2>2
    <3> QED BY <3>1, <2>2
  <2> HIDE DEF k
  <2> QED BY <2>1, <2>3, <1>1, <1>3, <1>4, LogicCloses
<1>6. CASE Head(open).tag # "land"
  <2> DEFINE uses == lhs \cup rhs
             op == <<Value(uses, 0, S + 4), Value({l + 1}, 0, S + 8)>>
             k == Len(op)
  <2>1. /\ Emit(op \o <<Store({Len(Text) + k}, at, S + 4 * k), Store({}, at, S + 4 * k),
                        Value({}, at, S + 4 * k + 8)>>, 4 * k + 8)
        /\ operands' = Append(keep, Len(Text) + k + 3)
    BY <1>2, <1>6
  <2> HIDE DEF rhs, keep, lhs, at
  <2>2. uses \in SUBSET Readable
    BY <1>3, <1>4
  <2> HIDE DEF uses
  <2>3. Fits(op, 8) /\ Len(op) = 2 /\ op[2].counted = S + 8 /\ Result(op[2])
    BY <2>2, <1>1, <1>3, OrFits
  <2> HIDE DEF op
  <2>4. /\ k \in Nat \ {0} /\ Len(op) = k /\ Fits(op, 4 * k)
        /\ op[k].counted = S + 4 * k /\ Result(op[k])
    <3>1. k = 2 /\ 4 * k = 8
      BY <2>3
    <3> QED BY <3>1, <2>3
  <2> HIDE DEF k
  <2> QED BY <2>1, <2>4, <1>1, <1>3, <1>4, LogicCloses
<1> QED
  BY <1>5, <1>6

LEMMA DumpCallStep ==
  ASSUME FrameInv, DumpCall
  PROVE  FrameInv'
<1> DEFINE m == map_space_needed_for_function
<1>1. /\ Dumping /\ phase = "dump"
      /\ UNCHANGED <<phase, cur, k_str, operands, line, sp_dev, ins_map>>
  BY DEF DumpCall, Expression, Dumping
<1>2. PICK f \in 1..cur :
        /\ m' = [m EXCEPT ![cur].return_address_needed = 4,
                          ![cur].params_needed =
                             IF (Arity[f] - 8) * 4 > @ THEN (Arity[f] - 8) * 4 ELSE @]
        /\ open' = Open("call", f, <<>>, 0)
  BY DEF DumpCall
<1> DEFINE stacked == (Arity[f] - 8) * 4
           p == IF stacked > Space.params_needed THEN stacked ELSE Space.params_needed
           x == [Space EXCEPT !.return_address_needed = 4, !.params_needed = p]
           frame == [tag |-> "call", left |-> f, dims |-> <<>>, at |-> 0, uses |-> {},
                     base |-> Len(operands)]
<1>3. /\ TypeOK /\ m \in Seq(Spaces) /\ cur \in DOMAIN m /\ Len(m) = cur
      /\ Space \in Spaces /\ Space.params_needed \in Nat /\ S \in Nat
      /\ cur \in Functions /\ cur \in Nat
  BY <1>1, Dumped DEF FrameInv, TypeOK, Dumping
<1>4. f \in Functions /\ Arity[f] \in Nat /\ stacked \in Int
  <2>1. f \in Functions
    BY <1>3, FrameConstants DEF Functions
  <2> QED BY <2>1, FrameConstants DEF Functions
<1>5. p \in Nat /\ Space.params_needed <= p /\ 4 * (Arity[f] - 8) <= p
  <2>1. stacked = 4 * (Arity[f] - 8)
    BY <1>4
  <2> HIDE DEF stacked
  <2> QED BY <2>1, <1>3, <1>4
<1>6. m' = [m EXCEPT ![cur] = x]
  BY <1>2, <1>3 DEF Space
<1> HIDE DEF p
<1>7. /\ x \in Spaces /\ x.variate_needed = S /\ x.params_needed = p
      /\ x.return_address_needed = 4
  BY <1>3, <1>5 DEF Spaces, S
<1> HIDE DEF x
<1>8. /\ m' \in Seq(Spaces) /\ Len(m') = cur /\ DOMAIN m' = DOMAIN m
      /\ m'[cur] = x /\ \A g \in DOMAIN m \ {cur} : m'[g] = m[g]
  <2>1. m' \in Seq(Spaces) /\ Len(m') = Len(m)
    BY <1>3, <1>6, <1>7, SpaceTypes
  <2> QED BY <2>1, <1>3, <1>6
<1>9. Space' = x /\ Dumping' /\ Text' = Text /\ Readable' = Readable
  BY <1>1, <1>3, <1>8 DEF Space, Dumping, Text, Readable
<1>10. \A g : Claimed(Space, g) => Claimed(x, g)
  <2> SUFFICES ASSUME NEW g, Claimed(Space, g) PROVE Claimed(x, g)
    OBVIOUS
  <2>1. g \in Functions /\ 4 * (Arity[g] - 8) <= Space.params_needed
    BY DEF Claimed
  <2>2. 4 * (Arity[g] - 8) \in Int
    <3>1. Arity[g] \in Nat
      BY <2>1, FrameConstants DEF Functions
    <3> QED BY <3>1
  <2>3. 4 * (Arity[g] - 8) <= p
    <3> DEFINE y == 4 * (Arity[g] - 8)
    <3>1. y \in Int /\ y <= Space.params_needed
      BY <2>1, <2>2
    <3> HIDE DEF y
    <3>2. y <= p
      BY <3>1, <1>3, <1>5
    <3> QED BY <3>2 DEF y
  <2> QED BY <2>1, <2>3, <1>7 DEF Claimed
<1>11. Claimed(x, f)
  BY <1>4, <1>5, <1>7 DEF Claimed
<1>12. GoodFrames \subseteq GoodFrames'
  BY <1>1, <1>9, <1>10 DEF GoodFrames, Claimed
<1>13. frame \in GoodFrames'
  <2>1. Len(operands) \in Nat /\ f \in Nat
    BY <1>3 DEF TypeOK
  <2>2. /\ frame \in Frames /\ frame.at = 0 /\ frame.uses = {} /\ frame.tag = "call"
        /\ frame.left = f
    BY <2>1 DEF Frames
  <2>3. f \in 1..cur' /\ Claimed(Space, f)'
    BY <1>1, <1>9, <1>11 DEF Claimed
  <2> HIDE DEF frame
  <2> QED BY <2>2, <2>3 DEF GoodFrames
<1>14. open' \in Seq(GoodFrames') /\ operands' \in Seq(Readable')
  <2>1. open \in Seq(GoodFrames) /\ operands \in Seq(Readable)
    BY <1>1, Counter
  <2>2. open \in Seq(GoodFrames')
    BY <2>1, <1>12, Wider
  <2>3. open' = <<frame>> \o open
    BY <1>2 DEF Open
  <2> HIDE DEF frame
  <2> QED BY <2>1, <2>2, <2>3, <1>1, <1>9, <1>13, Stack
<1>15. TextsKept'
  <2>1. ASSUME NEW g \in DOMAIN m'
        PROVE  /\ WellCounted(k_str'[g], m'[g].variate_needed)
               /\ WellRead(k_str'[g])
               /\ \A i \in DOMAIN k_str'[g] :
                    k_str'[g][i].op = "call" => Claimed(m'[g], k_str'[g][i].arg)
    <3>1. /\ WellCounted(k_str[g], m[g].variate_needed)
          /\ WellRead(k_str[g])
          /\ \A i \in DOMAIN k_str[g] :
               k_str[g][i].op = "call" => Claimed(m[g], k_str[g][i].arg)
      BY <1>8 DEF FrameInv, TextsKept
    <3>2. CASE g = cur
      <4>1. m'[g] = x /\ m[g] = Space /\ m[g].variate_needed = S
        BY <3>2, <1>8 DEF Space, S
      <4> QED BY <4>1, <3>1, <1>1, <1>7, <1>10
    <3>3. CASE g # cur
      BY <3>1, <3>3, <1>1, <1>8
    <3> QED BY <3>2, <3>3
  <2>2. \A g \in Functions \ DOMAIN m' : k_str'[g] = <<>>
    BY <1>1, <1>8 DEF FrameInv, TextsKept
  <2> QED BY <2>1, <2>2 DEF TextsKept, Claimed
<1>16. TypeOK'
  <2>1. open' \in Seq(Frames)
    BY <1>14, Wider DEF GoodFrames
  <2>2. \A j \in DOMAIN open' :
          CASE open'[j].tag = "params" -> open'[j].left \in 0..Arity[cur]
            [] open'[j].tag = "call" -> open'[j].left \in 1..cur
            [] open'[j].tag \in {"land", "lor"} -> open'[j].left \in {0, 1}
            [] OTHER -> TRUE
    <3> SUFFICES ASSUME NEW j \in DOMAIN open'
                 PROVE  CASE open'[j].tag = "params" -> open'[j].left \in 0..Arity[cur]
                          [] open'[j].tag = "call" -> open'[j].left \in 1..cur
                          [] open'[j].tag \in {"land", "lor"} -> open'[j].left \in {0, 1}
                          [] OTHER -> TRUE
      OBVIOUS
    <3>1. open'[j] \in GoodFrames'
      BY <1>14
    <3>2. open'[j].left \in Nat /\ Arity[cur] \in Nat
      BY <3>1, <1>3, FrameConstants DEF GoodFrames, Frames, Functions
    <3> QED BY <3>1, <3>2, <1>1 DEF GoodFrames
  <2> QED BY <2>1, <2>2, <1>1, <1>3, <1>8, <1>9 DEF TypeOK
<1>17. OpenKept'
  BY <1>9, <1>14 DEF OpenKept
<1>18. Sized'
  <2>1. SUFFICES ASSUME NEW g \in Functions, g < cur
                 PROVE  m'[g] = m[g] /\ k_str'[g] = k_str[g]
    BY <1>1 DEF FrameInv, Sized
  <2>2. g \in DOMAIN m \ {cur}
    BY <2>1, <1>3 DEF Functions
  <2> QED BY <2>2, <1>1, <1>8
<1>19. DOMAIN ins_map = {} /\ line = 0
  BY <1>1 DEF FrameInv, Progress
<1>20. Progress' /\ Placed' /\ SlotsApart'
  BY <1>19, <1>1 DEF Progress, Placed, SlotsApart
<1> QED
  BY <1>15, <1>16, <1>17, <1>18, <1>20 DEF FrameInv

LEMMA DumpCallEndStep ==
  ASSUME FrameInv, DumpCallEnd
  PROVE  FrameInv'
<1> DEFINE f == Head(open).left
           result == IF Returns[f] = "int" THEN 4 ELSE 0
<1>1. Dumping /\ open # <<>> /\ open' = Tail(open) /\ Head(open).tag = "call"
  BY DEF DumpCallEnd, Innermost
<1>2. PICK n \in Takes(Arity[f]) :
        /\ Emit(<<Line("call", result, Top(n), 0, f, S + result)>>, result)
        /\ operands' = IF result = 0 THEN Drop(n)
                       ELSE Append(Drop(n), Len(Text) + 1)
  BY DEF DumpCallEnd
<1>3. f \in Functions /\ f \in Nat /\ Claimed(Space, f)
  <2>1. Head(open) \in GoodFrames /\ cur \in Functions
    BY <1>1, Counter
  <2> QED BY <2>1, <1>1, FrameConstants DEF GoodFrames, Functions
<1>4. result \in {0, 4} /\ Arity[f] \in Nat
  BY <1>3, FrameConstants DEF Functions
<1> HIDE DEF result, f
<1> DEFINE c == S + result
           uses == Top(n)
           keep == Drop(n)
           l == Line("call", result, uses, 0, f, c)
           ls == <<l>>
<1>5. /\ TypeOK /\ S \in Nat /\ c \in Nat /\ c = S + result /\ Readable \subseteq Nat
      /\ uses \in SUBSET Readable /\ keep \in Seq(Readable)
  BY SMTT(60), <1>1, <1>4, Counter, Taken
<1>6. uses \in SUBSET Nat
  BY <1>5
<1>7. Emit(ls, result) /\ operands' = IF result = 0 THEN keep ELSE Append(keep, Len(Text) + 1)
  BY <1>2
<1> HIDE DEF c, uses, keep
<1>8. /\ l \in Lines /\ l.op = "call" /\ l.bytes = result /\ l.counted = c /\ l.arg = f
      /\ Needs(l) = uses /\ (result # 0 => Result(l))
  BY <1>3, <1>4, <1>5, <1>6 DEF Line, Lines, Needs, Result
<1> HIDE DEF l
<1>9. Fits(ls, result)
  <2>1. /\ S + l.bytes <= l.counted /\ l.counted <= S + result /\ Needs(l) \subseteq Readable
        /\ l.op # "value" /\ l.bytes \in {0, 4} /\ Claimed(Space, l.arg) /\ result \in Nat
    BY <1>3, <1>4, <1>5, <1>8
  <2> QED BY <2>1, <1>1, <1>5, <1>8, FitsOne
<1>10. ls # <<>> /\ Len(ls) = 1 /\ ls[1] = l
  OBVIOUS
<1> HIDE DEF ls
<1> QED
  BY <1>1, <1>5, <1>7, <1>8, <1>9, <1>10, Closes

LEMMA StoreCloses ==
  ASSUME FrameInv, Dumping, NEW n \in Takes(1), NEW at \in Readable \cup {0},
         Emit(<<Store(Top(n), at, S)>>, 0), operands' = <<>>,
         open' = open \/ (open # <<>> /\ open' = Tail(open))
  PROVE  FrameInv'
<1> DEFINE uses == Top(n)
           none == <<>>
           l == Store(uses, at, S)
           ls == <<l>>
<1>1. /\ TypeOK /\ S \in Nat /\ Readable \subseteq Nat
      /\ uses \in SUBSET Readable /\ none \in Seq(Readable)
  BY Counter, Taken
<1>5. Emit(ls, 0) /\ operands' = none
  OBVIOUS
<1> HIDE DEF uses, none
<1>2. uses \in SUBSET Nat /\ at \in Nat
  BY <1>1
<1>3. /\ l \in Lines /\ l.op = "store" /\ l.bytes = 0 /\ l.counted = S
      /\ Needs(l) = uses \cup (IF at = 0 THEN {} ELSE {at})
  BY <1>1, <1>2 DEF Store, Line, Lines, Needs
<1> HIDE DEF l
<1>4. Fits(ls, 0)
  <2>1. S + l.bytes <= l.counted /\ l.counted <= S + 0 /\ 0 \in Nat
    BY <1>1, <1>3
  <2>2. l \in Lines /\ Needs(l) \subseteq Readable /\ l.op # "value" /\ l.op # "call"
    BY <1>1, <1>3
  <2> QED BY <2>1, <2>2, <1>1, FitsOne
<1> HIDE DEF ls
<1> QED
  BY <1>1, <1>4, <1>5, Closes

LEMMA DumpAssignStep ==
  ASSUME FrameInv, DumpAssign
  PROVE  FrameInv'
<1>1. Dumping /\ open' = open /\ operands' = <<>>
  BY DEF DumpAssign, Statement
<1>2. PICK v \in Locals \cup {0}, n \in Takes(1) : Emit(<<Store(Top(n), v, S)>>, 0)
  BY DEF DumpAssign
<1>3. v \in Readable \cup {0}
  BY <1>1, Counter
<1> QED
  BY <1>1, <1>2, <1>3, StoreCloses

LEMMA DumpElemStoreStep ==
  ASSUME FrameInv, DumpElemStore
  PROVE  FrameInv'
<1> DEFINE at == Head(open).at
<1>1. Dumping /\ open # <<>> /\ open' = Tail(open) /\ operands' = <<>>
  BY DEF DumpElemStore, Innermost
<1>2. PICK n \in Takes(1) : Emit(<<Store(Top(n), at, S)>>, 0)
  BY DEF DumpElemStore
<1>3. at \in Readable \cup {0}
  <2>1. Head(open) \in GoodFrames
    BY <1>1, Counter
  <2> QED BY <2>1 DEF GoodFrames
<1> HIDE DEF at
<1> QED
  BY <1>1, <1>2, <1>3, StoreCloses

LEMMA DumpElemPtrStep ==
  ASSUME FrameInv, DumpElemPtr
  PROVE  FrameInv'
<1>1. Dumping /\ operands' = operands
  BY DEF DumpElemPtr, Statement
<1>2. PICK v \in Locals \cup {0}, k \in 1 .. Dims + 1, n \in Takes(Dims) :
        /\ Emit(Path(k, Top(n), v), 4 * k)
        /\ open' = Open("assign", 0, <<>>, Len(Text) + k)
  BY DEF DumpElemPtr
<1>3. /\ TypeOK /\ v \in Readable \cup {0} /\ k \in Nat /\ k > 0
      /\ Top(n) \in SUBSET Readable /\ operands \in Seq(Readable) /\ Len(Text) \in Nat
  <2>1. Dims \in Nat
    BY FrameConstants
  <2>2. k \in Nat /\ k > 0
    BY <2>1
  <2>3. Top(n) \in SUBSET Readable
    BY <2>1, <1>1, Taken
  <2>4. TypeOK /\ v \in Readable \cup {0} /\ operands \in Seq(Readable) /\ Len(Text) \in Nat
    BY <1>1, Counter
  <2> QED BY <2>2, <2>3, <2>4
<1> DEFINE ls == Path(k, Top(n), v)
           bytes == 4 * k
           at == Len(Text) + k
           none == <<>>
<1>4. Fits(ls, bytes) /\ Len(ls) = k /\ Result(ls[k]) /\ Emit(ls, bytes)
  BY <1>1, <1>2, <1>3, FitsPath
<1>5. at \in Nat /\ none \in Seq(Nat) /\ open' = Open("assign", 0, none, at)
  BY <1>2, <1>3
<1> HIDE DEF ls, bytes
<1>6. ls # <<>>
  BY <1>3, <1>4 DEF Fits
<1>7. at \in Readable' /\ operands' \in Seq(Readable')
  BY <1>1, <1>3, <1>4, <1>6, Grown
<1> HIDE DEF at, none
<1>8. open' \in Seq(GoodFrames')
  BY <1>1, <1>4, <1>5, <1>7, Opened
<1> QED
  BY <1>1, <1>4, <1>7, <1>8, Emitted

LEMMA DumpExpStmtStep ==
  ASSUME FrameInv, DumpExpStmt
  PROVE  FrameInv'
<1> DEFINE none == <<>>
<1>1. Dumping /\ open' = open /\ operands' = none /\ Emit(<<>>, 0)
  BY DEF DumpExpStmt, Statement
<1>2. Fits(<<>>, 0) /\ none \in Seq(Readable)
  BY <1>1, FitsNone DEF FrameInv
<1> HIDE DEF none
<1> QED
  BY <1>1, <1>2, Closes

LEMMA UseCloses ==
  ASSUME FrameInv, Dumping, NEW op \in {"br", "ret"}, NEW n \in Takes(1),
         Emit(<<Line(op, 0, Top(n), 0, 0, S)>>, 0), operands' = <<>>, open' = open
  PROVE  FrameInv'
<1> DEFINE uses == Top(n)
           none == <<>>
           l == Line(op, 0, uses, 0, 0, S)
           ls == <<l>>
<1>1. /\ TypeOK /\ S \in Nat /\ Readable \subseteq Nat
      /\ uses \in SUBSET Readable /\ none \in Seq(Readable)
  BY Counter, Taken
<1>2. uses \in SUBSET Nat /\ Emit(ls, 0) /\ operands' = none
  BY <1>1
<1> HIDE DEF uses, none
<1>3. l \in Lines /\ l.op = op /\ l.bytes = 0 /\ l.counted = S /\ Needs(l) = uses
  BY <1>1, <1>2, UseLine
<1> HIDE DEF l
<1>4. Fits(ls, 0)
  <2>1. S + l.bytes <= l.counted /\ l.counted <= S + 0 /\ 0 \in Nat
    BY <1>1, <1>3
  <2>2. l \in Lines /\ Needs(l) \subseteq Readable /\ l.op # "value" /\ l.op # "call"
    BY <1>1, <1>3
  <2> QED BY <2>1, <2>2, <1>1, FitsOne
<1> HIDE DEF ls
<1> QED
  BY <1>1, <1>2, <1>4, Closes

LEMMA DumpBranchStep ==
  ASSUME FrameInv, DumpBranch
  PROVE  FrameInv'
<1>1. Dumping /\ open' = open /\ operands' = <<>>
  BY DEF DumpBranch, Statement
<1>2. PICK n \in Takes(1) : Emit(<<Line("br", 0, Top(n), 0, 0, S)>>, 0)
  BY DEF DumpBranch
<1> QED
  BY <1>1, <1>2, UseCloses

LEMMA DumpReturnStep ==
  ASSUME FrameInv, DumpReturn
  PROVE  FrameInv'
<1>1. Dumping /\ open' = open /\ operands' = <<>>
  BY DEF DumpReturn, Statement
<1>2. PICK n \in Takes(1) : Emit(<<Line("ret", 0, Top(n), 0, 0, S)>>, 0)
  BY DEF DumpReturn
<1> QED
  BY <1>1, <1>2, UseCloses

LEMMA DumpFuncDefStep ==
  ASSUME FrameInv, DumpFuncDef
  PROVE  FrameInv'
<1> DEFINE m == map_space_needed_for_function
           frame == [tag |-> "params", left |-> Arity[cur], dims |-> <<>>, at |-> 0,
                     uses |-> {}, base |-> Len(operands)]
<1>1. /\ phase = "dump" /\ ~ Dumping /\ m' = Append(m, NoSpace)
      /\ open' = Open("params", Arity[cur], <<>>, 0)
      /\ UNCHANGED <<phase, cur, k_str, operands, line, sp_dev, ins_map>>
  BY DEF DumpFuncDef
<1>2. TypeOK /\ operands = <<>> /\ open = <<>>
  BY <1>1 DEF FrameInv, OpenKept
<1>3. /\ cur \in Functions /\ cur \in Nat /\ cur > 0 /\ m \in Seq(Spaces) /\ Len(m) = cur - 1
      /\ k_str \in [Functions -> Seq(Lines)] /\ Arity[cur] \in Nat
  BY <1>1, <1>2, FrameConstants DEF TypeOK, Functions
<1>4. NoSpace \in Spaces /\ NoSpace.variate_needed = 0
  BY DEF NoSpace, Spaces
<1>5. /\ m' \in Seq(Spaces) /\ Len(m') = cur /\ m'[cur] = NoSpace
      /\ DOMAIN m' = 1 .. cur /\ DOMAIN m = 1 .. cur - 1
      /\ \A f \in 1 .. cur - 1 : m'[f] = m[f]
  BY <1>1, <1>3, <1>4
<1>6. Dumping'
  BY <1>1, <1>3, <1>5 DEF Dumping
<1>7. k_str[cur] = <<>>
  <2>1. cur \in Functions \ DOMAIN m
    BY <1>3, <1>5
  <2> QED BY <2>1 DEF FrameInv, TextsKept
<1>8. open' = <<frame>>
  BY <1>1, <1>2 DEF Open
<1>9. frame \in GoodFrames'
  <2>1. Len(operands) = 0
    BY <1>2
  <2>2. /\ frame \in Frames /\ frame.tag = "params" /\ frame.left = Arity[cur]
        /\ frame.at = 0 /\ frame.uses = {}
    BY <2>1, <1>3 DEF Frames
  <2>3. frame.left <= Arity[cur]'
    BY <2>2, <1>1, <1>3
  <2> HIDE DEF frame
  <2> QED BY <2>2, <2>3 DEF GoodFrames
<1>10. TypeOK'
  <2>1. open' \in Seq(Frames)
    BY <1>8, <1>9 DEF GoodFrames
  <2>2. \A j \in DOMAIN open' :
          CASE open'[j].tag = "params" -> open'[j].left \in 0..Arity[cur]
            [] open'[j].tag = "call" -> open'[j].left \in 1..cur
            [] open'[j].tag \in {"land", "lor"} -> open'[j].left \in {0, 1}
            [] OTHER -> TRUE
    <3> SUFFICES ASSUME NEW j \in DOMAIN open'
                 PROVE  CASE open'[j].tag = "params" -> open'[j].left \in 0..Arity[cur]
                          [] open'[j].tag = "call" -> open'[j].left \in 1..cur
                          [] open'[j].tag \in {"land", "lor"} -> open'[j].left \in {0, 1}
                          [] OTHER -> TRUE
      OBVIOUS
    <3>1. open'[j] = frame
      <4> HIDE DEF frame
      <4> QED BY <1>8
    <3>2. frame.tag = "params" /\ frame.left \in 0..Arity[cur]
      BY <1>3
    <3> HIDE DEF frame
    <3> QED BY <3>1, <3>2
  <2> QED BY <2>1, <2>2, <1>1, <1>2, <1>3, <1>5, <1>6 DEF TypeOK
<1>11. OpenKept'
  <2>1. operands' \in Seq(Readable')
    BY <1>1, <1>2
  <2> HIDE DEF frame
  <2>2. open' \in Seq(GoodFrames')
    BY <1>8, <1>9
  <2> QED BY <2>1, <2>2, <1>6 DEF OpenKept
<1>12. TextsKept'
  <2>1. ASSUME NEW g \in DOMAIN m'
        PROVE  /\ WellCounted(k_str'[g], m'[g].variate_needed)
               /\ WellRead(k_str'[g])
               /\ \A i \in DOMAIN k_str'[g] :
                    k_str'[g][i].op = "call" => Claimed(m'[g], k_str'[g][i].arg)
    <3>1. CASE g = cur
      BY <3>1, <1>1, <1>7 DEF WellCounted, WellRead
    <3>2. CASE g # cur
      <4>1. g \in 1 .. cur - 1
        BY <3>2, <1>3, <1>5
      <4>2. /\ WellCounted(k_str[g], m[g].variate_needed)
            /\ WellRead(k_str[g])
            /\ \A i \in DOMAIN k_str[g] :
                 k_str[g][i].op = "call" => Claimed(m[g], k_str[g][i].arg)
        BY <4>1, <1>5 DEF FrameInv, TextsKept
      <4> QED BY <4>1, <4>2, <1>1, <1>5
    <3> QED BY <3>1, <3>2
  <2>2. \A g \in Functions \ DOMAIN m' : k_str'[g] = <<>>
    BY <1>1, <1>3, <1>5 DEF FrameInv, TextsKept
  <2> QED BY <2>1, <2>2 DEF TextsKept, Claimed
<1>13. Sized'
  <2>1. SUFFICES ASSUME NEW g \in Functions, g < cur
                 PROVE  m'[g] = m[g] /\ k_str'[g] = k_str[g]
    BY <1>1 DEF FrameInv, Sized
  <2>2. g \in 1 .. cur - 1
    BY <2>1, <1>3 DEF Functions
  <2> QED BY <2>2, <1>1, <1>5
<1>14. DOMAIN ins_map = {} /\ line = 0
  BY <1>1 DEF FrameInv, Progress
<1>15. Progress' /\ Placed' /\ SlotsApart'
  BY <1>14, <1>1 DEF Progress, Placed, SlotsApart
<1> QED
  BY <1>10, <1>11, <1>12, <1>13, <1>15 DEF FrameInv

\* The ret at the end of every function, ...
LEMMA RetAppended ==
  ASSUME NEW t \in Seq(Lines), NEW s \in Nat, WellCounted(t, s), WellRead(t)
  PROVE  LET r == Line("ret", 0, {}, 0, 0, s)
             u == Append(t, r)
         IN  /\ u \in Seq(Lines) /\ WellCounted(u, s) /\ WellRead(u)
             /\ Len(u) = Len(t) + 1 /\ u[Len(u)].op = "ret"
             /\ \A i \in DOMAIN u : u[i].op = "call" => i \in DOMAIN t /\ u[i] = t[i]
<1> DEFINE r == Line("ret", 0, {}, 0, 0, s)
           u == Append(t, r)
<1>1. r \in Lines /\ r.op = "ret" /\ r.bytes = 0 /\ r.counted = s /\ Needs(r) = {}
  BY DEF Line, Lines, Needs
<1> HIDE DEF r
<1>2. /\ u \in Seq(Lines) /\ Len(u) = Len(t) + 1 /\ Len(t) \in Nat
      /\ \A i \in 1 .. Len(t) : u[i] = t[i]
      /\ u[Len(t) + 1] = r
  BY <1>1, Last
<1> HIDE DEF u
<1>3. \A i \in DOMAIN u : i \in 1 .. Len(t) \/ i = Len(t) + 1
  BY <1>2
<1>4. WellCounted(u, s)
  <2> SUFFICES ASSUME NEW i \in DOMAIN u
               PROVE  /\ (IF i = 1 THEN 0 ELSE u[i - 1].counted) + u[i].bytes
                           <= u[i].counted
                      /\ u[i].counted <= s
                      /\ u[i].op = "value" => u[i].bytes = 4
                      /\ u[i].op = "call" => u[i].bytes \in {0, 4}
    BY DEF WellCounted
  <2>1. CASE i \in 1 .. Len(t)
    <3>1. i \in DOMAIN t /\ u[i] = t[i] /\ (i # 1 => u[i - 1] = t[i - 1])
      <4>1. i \in DOMAIN t /\ (i # 1 => i - 1 \in 1 .. Len(t))
        BY <2>1, <1>2
      <4> QED BY <4>1, <2>1, <1>2
    <3> QED BY <3>1 DEF WellCounted
  <2>2. CASE i = Len(t) + 1
    <3>1. u[i] = r
      BY <2>2, <1>2
    <3>2. (IF i = 1 THEN 0 ELSE u[i - 1].counted) <= s
          /\ (IF i = 1 THEN 0 ELSE u[i - 1].counted) \in Nat
      <4>1. CASE Len(t) = 0
        BY <4>1, <2>2
      <4>2. CASE Len(t) # 0
        <5>1. i # 1 /\ i - 1 = Len(t) /\ Len(t) \in 1 .. Len(t)
          BY <4>2, <2>2, <1>2
        <5>2. u[i - 1] = t[Len(t)] /\ t[Len(t)].counted <= s /\ t[Len(t)] \in Lines
          BY <5>1, <1>2 DEF WellCounted
        <5> QED BY <5>1, <5>2 DEF Lines
      <4> QED BY <4>1, <4>2
    <3> DEFINE x == IF i = 1 THEN 0 ELSE u[i - 1].counted
    <3>3. x <= s /\ x \in Nat
      BY <3>2
    <3> HIDE DEF x
    <3>4. x + u[i].bytes <= u[i].counted
      BY <3>1, <3>3, <1>1
    <3> QED BY <3>1, <3>4, <1>1 DEF x
  <2> QED BY <2>1, <2>2, <1>3
<1>5. WellRead(u)
  <2> SUFFICES ASSUME NEW i \in DOMAIN u, NEW a \in Needs(u[i])
               PROVE  a \in 1 .. i - 1 /\ Result(u[a])
    BY DEF WellRead
  <2>1. CASE i \in 1 .. Len(t)
    <3>1. i \in DOMAIN t /\ u[i] = t[i]
      BY <2>1, <1>2
    <3>2. a \in 1 .. i - 1 /\ Result(t[a])
      BY <3>1 DEF WellRead
    <3>3. a \in 1 .. Len(t)
      BY <3>2, <2>1, <1>2
    <3> QED BY <3>2, <3>3, <1>2
  <2>2. CASE i = Len(t) + 1
    BY <2>2, <1>1, <1>2
  <2> QED BY <2>1, <2>2, <1>3
<1>6. Len(u) = Len(t) + 1 /\ u[Len(u)].op = "ret"
  BY <1>1, <1>2
<1>7. \A i \in DOMAIN u : u[i].op = "call" => i \in DOMAIN t /\ u[i] = t[i]
  BY <1>1, <1>2, <1>3
<1> QED
  BY <1>2, <1>4, <1>5, <1>6, <1>7 DEF u, r

\* ... and the rounding up to a multiple of 16.
LEMMA RoundedUp ==
  ASSUME NEW n \in Nat
  PROVE  ((n + 15) \div 16) * 16 \in Nat /\ n <= ((n + 15) \div 16) * 16
  OBVIOUS

LEMMA DumpFuncEndStep ==
  ASSUME FrameInv, DumpFuncEnd
  PROVE  FrameInv'
<1> DEFINE m == map_space_needed_for_function
           sum == S + Space.return_address_needed + Space.params_needed
           total == ((sum + 15) \div 16) * 16
           x == [Space EXCEPT !.total_needed = total]
           r == Line("ret", 0, {}, 0, 0, S)
           t == Append(Text, r)
<1>1. /\ Dumping /\ phase = "dump" /\ open = <<>> /\ operands = <<>>
      /\ UNCHANGED <<open, operands, line, sp_dev, ins_map>>
  BY DEF DumpFuncEnd, Statement, Dumping
<1>2. /\ k_str' = [k_str EXCEPT ![cur] = t]
      /\ m' = [m EXCEPT ![cur].total_needed =
                 ((S + Space.return_address_needed + Space.params_needed + 15) \div 16) * 16]
      /\ \/ cur < N /\ cur' = cur + 1 /\ phase' = phase
         \/ ~ (cur < N) /\ cur' = 1 /\ phase' = "visit"
  BY DEF DumpFuncEnd, Text
<1>3. /\ TypeOK /\ m \in Seq(Spaces) /\ cur \in DOMAIN m /\ Len(m) = cur
      /\ Space \in Spaces /\ Space.params_needed \in Nat /\ S \in Nat
      /\ Space.return_address_needed \in Nat
      /\ cur \in Functions /\ cur \in Nat /\ cur \in 1..N /\ N \in Nat
      /\ k_str \in [Functions -> Seq(Lines)] /\ Text \in Seq(Lines)
  BY SMTT(60), <1>1, Dumped, FrameConstants DEF FrameInv, TypeOK, Dumping, Functions
<1>4. sum \in Nat /\ total \in Nat /\ sum <= total
  <2>1. sum \in Nat
    BY <1>3
  <2> HIDE DEF sum
  <2> QED BY <2>1, RoundedUp
<1>5. m' = [m EXCEPT ![cur] = x]
  BY <1>2, <1>3 DEF Space
<1> HIDE DEF total
<1>6. /\ x \in Spaces /\ x.total_needed = total /\ x.variate_needed = S
      /\ x.return_address_needed = Space.return_address_needed
      /\ x.params_needed = Space.params_needed
  BY <1>3, <1>4 DEF Spaces, S
<1> HIDE DEF x
<1>7. /\ m' \in Seq(Spaces) /\ Len(m') = cur /\ DOMAIN m' = DOMAIN m
      /\ m'[cur] = x /\ \A g \in DOMAIN m \ {cur} : m'[g] = m[g]
  <2>1. m' \in Seq(Spaces) /\ Len(m') = Len(m)
    BY <1>3, <1>5, <1>6, SpaceTypes
  <2> QED BY <2>1, <1>3, <1>5
<1>8. /\ WellCounted(Text, S) /\ WellRead(Text)
      /\ \A i \in DOMAIN Text : Text[i].op = "call" => Claimed(Space, Text[i].arg)
  BY <1>3 DEF FrameInv, TextsKept, Text, Space, S
<1>9. /\ t \in Seq(Lines) /\ WellCounted(t, S) /\ WellRead(t)
      /\ Len(t) = Len(Text) + 1 /\ t[Len(t)].op = "ret"
      /\ \A i \in DOMAIN t : t[i].op = "call" => i \in DOMAIN Text /\ t[i] = Text[i]
  BY <1>3, <1>8, RetAppended
<1>10. Len(t) \in Nat /\ Len(t) > 0
  BY <1>3, <1>9
<1> HIDE DEF t
<1>11. /\ k_str' \in [Functions -> Seq(Lines)] /\ k_str'[cur] = t
       /\ \A f \in Functions \ {cur} : k_str'[f] = k_str[f]
  BY <1>2, <1>3, <1>9
<1>12. DOMAIN m = 1 .. cur /\ DOMAIN ins_map = {} /\ line = 0
  BY <1>1, <1>3 DEF FrameInv, Progress
<1>13. TextsKept'
  <2>1. ASSUME NEW g \in DOMAIN m'
        PROVE  /\ WellCounted(k_str'[g], m'[g].variate_needed)
               /\ WellRead(k_str'[g])
               /\ \A i \in DOMAIN k_str'[g] :
                    k_str'[g][i].op = "call" => Claimed(m'[g], k_str'[g][i].arg)
    <3>1. CASE g = cur
      <4>1. \A i \in DOMAIN t : t[i].op = "call" => Claimed(x, t[i].arg)
        BY <1>6, <1>8, <1>9 DEF Claimed
      <4> QED BY <3>1, <4>1, <1>6, <1>7, <1>9, <1>11
    <3>2. CASE g # cur
      <4>1. g \in DOMAIN m \ {cur} /\ g \in Functions
        BY <3>2, <1>3, <1>7, <1>12 DEF Functions
      <4>2. /\ WellCounted(k_str[g], m[g].variate_needed)
            /\ WellRead(k_str[g])
            /\ \A i \in DOMAIN k_str[g] :
                 k_str[g][i].op = "call" => Claimed(m[g], k_str[g][i].arg)
        BY <4>1 DEF FrameInv, TextsKept
      <4> QED BY <4>1, <4>2, <1>7, <1>11
    <3> QED BY <3>1, <3>2
  <2>2. \A g \in Functions \ DOMAIN m' : k_str'[g] = <<>>
    BY <1>3, <1>7, <1>11 DEF FrameInv, TextsKept
  <2> QED BY <2>1, <2>2 DEF TextsKept, Claimed
<1>14. cur' \in Functions /\ cur' \in Nat /\ phase' \in {"dump", "visit"}
       /\ (phase' = "dump" => cur' = cur + 1 /\ cur' \notin DOMAIN m' /\ ~ Dumping')
       /\ (phase' # "dump" => cur = N /\ cur' = 1 /\ ~ Dumping')
  <2>1. CASE cur < N /\ cur' = cur + 1 /\ phase' = phase
    <3>1. cur + 1 \in 1..N /\ cur + 1 \notin 1 .. cur
      BY <2>1, <1>3
    <3> QED BY <2>1, <3>1, <1>1, <1>3, <1>7, <1>12 DEF Functions, Dumping
  <2>2. CASE ~ (cur < N) /\ cur' = 1 /\ phase' = "visit"
    <3>1. cur = N /\ 1 \in 1..N
      BY <2>2, <1>3
    <3> QED BY <2>2, <3>1, <1>3 DEF Functions, Dumping
  <2> QED BY <2>1, <2>2, <1>2
<1>15. TypeOK'
  <2>1. Len(m') = IF phase' # "dump" THEN N ELSE IF Dumping' THEN cur' ELSE cur' - 1
    BY <1>3, <1>7, <1>14
  <2>2. open' \in Seq(Frames) /\ DOMAIN open' = {}
    BY <1>1
  <2> QED BY <2>1, <2>2, <1>1, <1>3, <1>7, <1>11, <1>14 DEF TypeOK
<1>16. OpenKept'
  BY <1>1, <1>14 DEF OpenKept
<1>17. Sized'
  <2> SUFFICES ASSUME NEW f \in Functions, phase' # "dump" \/ f < cur'
               PROVE  /\ m'[f].variate_needed + m'[f].return_address_needed
                           + m'[f].params_needed <= m'[f].total_needed
                      /\ Len(k_str'[f]) > 0
                      /\ k_str'[f][Len(k_str'[f])].op = "ret"
    BY DEF Sized
  <2>1. CASE f = cur
    <3>1. x.variate_needed + x.return_address_needed + x.params_needed <= x.total_needed
      BY <1>4, <1>6
    <3> QED BY <2>1, <3>1, <1>7, <1>9, <1>10, <1>11
  <2>2. CASE f # cur
    <3>1. f < cur /\ f \in DOMAIN m \ {cur}
      BY <2>2, <1>3, <1>12, <1>14 DEF Functions
    <3>2. /\ m[f].variate_needed + m[f].return_address_needed
               + m[f].params_needed <= m[f].total_needed
          /\ Len(k_str[f]) > 0
          /\ k_str[f][Len(k_str[f])].op = "ret"
      BY <3>1 DEF FrameInv, Sized
    <3> QED BY <3>1, <3>2, <1>7, <1>11
  <2> QED BY <2>1, <2>2
<1>18. Progress'
  <2>1. Text' \in Seq(Lines)
    BY <1>11, <1>14 DEF Text
  <2>2. 0 \in 0 .. Len(Text')
    BY <2>1
  <2> QED BY <2>2, <1>1, <1>12 DEF Progress
<1>19. Placed' /\ SlotsApart'
  BY <1>1, <1>12 DEF Placed, SlotsApart
<1> QED
  BY <1>13, <1>15, <1>16, <1>17, <1>18, <1>19 DEF FrameInv
-----------------------------------------------------------------------------
(* The back end *)

\* What holds while the text is visited.
LEMMA InText ==
  ASSUME FrameInv, phase = "visit", line > 0
  PROVE  /\ TypeOK /\ cur \in Functions
         /\ Space \in Spaces /\ Space.params_needed \in Nat /\ S \in Nat
         /\ Text \in Seq(Lines) /\ Len(Text) \in Nat
         /\ line \in Nat /\ line \in 1 .. Len(Text) /\ Visited \in Lines
         /\ sp_dev \in Nat
         /\ WellCounted(Text, S) /\ WellRead(Text)
         /\ cur \in DOMAIN map_space_needed_for_function
<1>1. /\ TypeOK /\ cur \in Functions /\ line \in Nat /\ sp_dev \in Nat
      /\ map_space_needed_for_function \in Seq(Spaces)
      /\ Len(map_space_needed_for_function) = N
      /\ k_str \in [Functions -> Seq(Lines)]
  BY DEF FrameInv, TypeOK
<1>2. cur \in DOMAIN map_space_needed_for_function
  BY <1>1, FrameConstants DEF Functions
<1>3. /\ Space \in Spaces /\ Space.params_needed \in Nat /\ S \in Nat
      /\ Text \in Seq(Lines)
  BY <1>1, <1>2, SpaceTypes DEF Space, S, Text
<1>4. Len(Text) \in Nat /\ line \in 1 .. Len(Text)
  BY <1>1, <1>3 DEF FrameInv, Progress
<1>5. Visited \in Lines
  BY <1>3, <1>4 DEF Visited
<1>6. WellCounted(Text, S) /\ WellRead(Text)
  BY <1>2 DEF FrameInv, TextsKept, Text, Space, S
<1> QED
  BY <1>1, <1>2, <1>3, <1>4, <1>5, <1>6

\* The counter before the line, and what it bounds.
LEMMA CountedSoFar ==
  ASSUME FrameInv, phase = "visit", line > 0
  PROVE  LET c == IF line = 1 THEN 0 ELSE Text[line - 1].counted
         IN  /\ c \in Nat /\ Visited.bytes \in Nat /\ Visited.counted \in Nat
             /\ c + Visited.bytes <= Visited.counted
             /\ sp_dev <= Space.params_needed + c
<1>1. /\ Text \in Seq(Lines) /\ line \in Nat /\ line \in 1 .. Len(Text) /\ Visited \in Lines
      /\ WellCounted(Text, S)
  BY InText
<1>2. line # 1 => line - 1 \in 1 .. Len(Text)
  BY <1>1
<1>3. line # 1 => Text[line - 1] \in Lines
  BY <1>1, <1>2
<1>4. (IF line = 1 THEN 0 ELSE Text[line - 1].counted) \in Nat
  BY <1>3 DEF Lines
<1>5. (IF line = 1 THEN 0 ELSE Text[line - 1].counted) + Visited.bytes <= Visited.counted
  BY <1>1 DEF WellCounted, Visited
<1>6. sp_dev <= Space.params_needed + (IF line = 1 THEN 0 ELSE Text[line - 1].counted)
  BY DEF FrameInv, Progress
<1> QED
  BY <1>1, <1>4, <1>5, <1>6 DEF Lines

\* Going on to the next line, whether or not the line was given a place.
LEMMA NextLine ==
  ASSUME FrameInv, phase = "visit", line > 0, line < Len(Text), line' = line + 1,
         UNCHANGED <<phase, cur, FrontEnd>>,
         \/ /\ UNCHANGED <<sp_dev, ins_map>>
            /\ Result(Visited) => Visited.op = "call" /\ ~ UsedBy(cur, line)
         \/ Place(Bytes(<<cur, line>>)) /\ Bytes(<<cur, line>>) = Visited.bytes
  PROVE  FrameInv'
<1> DEFINE m == map_space_needed_for_function
           v == <<cur, line>>
           c == IF line = 1 THEN 0 ELSE Text[line - 1].counted
           bytes == Visited.bytes
           p == Space.params_needed
<1>1. /\ TypeOK /\ cur \in Functions /\ cur \in Nat
      /\ p \in Nat /\ Text \in Seq(Lines) /\ Len(Text) \in Nat
      /\ line \in Nat /\ line \in 1 .. Len(Text) /\ sp_dev \in Nat
      /\ cur \in DOMAIN m
  BY InText DEF Functions
<1>2. /\ c \in Nat /\ bytes \in Nat /\ Visited.counted \in Nat
      /\ c + bytes <= Visited.counted /\ sp_dev <= p + c
  BY CountedSoFar
<1>3. /\ UNCHANGED <<phase, cur, m, k_str, open, operands>>
      /\ Text' = Text /\ Space' = Space /\ S' = S /\ ~ Dumping /\ ~ Dumping'
  BY DEF FrontEnd, Text, Space, S, Dumping
<1>4. /\ p <= sp_dev
      /\ \A w \in DOMAIN ins_map : w[1] < cur \/ (w[1] = cur /\ w[2] < line)
      /\ \A w \in DOMAIN ins_map : w[1] = cur => ins_map[w] + Bytes(w) <= sp_dev
      /\ \A i \in 1 .. line - 1 :
           Result(Text[i]) /\ (Text[i].op = "call" => UsedBy(cur, i)) =>
             <<cur, i>> \in DOMAIN ins_map
  BY DEF FrameInv, Progress
<1>5. /\ DOMAIN ins_map \subseteq Functions \X Nat
      /\ \A w \in DOMAIN ins_map : ins_map[w] \in Nat
  BY <1>1 DEF TypeOK
<1>6. v \notin DOMAIN ins_map /\ v \in Functions \X Nat
  BY <1>1, <1>4
<1>7. \A w : Bytes(w)' = Bytes(w)
  BY <1>3 DEF Bytes
<1>8. Text[line] = Visited /\ Text[line] = k_str[cur][line]
  BY DEF Visited, Text
<1>9. TextsKept' /\ OpenKept' /\ Sized'
  <2>1. TextsKept'
    BY <1>3 DEF FrameInv, TextsKept, Claimed
  <2>2. OpenKept'
    BY <1>3 DEF FrameInv, OpenKept
  <2>3. Sized'
    BY <1>3 DEF FrameInv, Sized
  <2> QED BY <2>1, <2>2, <2>3
<1>10. /\ line' \in Nat /\ line' \in 0 .. Len(Text) /\ line' > 0 /\ line' # 1
       /\ line' - 1 = line
  BY <1>1
<1>11. \A i \in 1 .. line' - 1 : i \in 1 .. line - 1 \/ i = line
  BY <1>1
<1>12. ASSUME NEW f, NEW i
       PROVE  UsedBy(f, i)' = UsedBy(f, i)
  BY <1>3 DEF UsedBy
<1>13. CASE /\ UNCHANGED <<sp_dev, ins_map>>
            /\ Result(Visited) => Visited.op = "call" /\ ~ UsedBy(cur, line)
  <2>1. TypeOK'
    BY <1>1, <1>3, <1>10, <1>13 DEF TypeOK
  <2>2. Progress'
    <3>1. \A w \in DOMAIN ins_map : w[1] < cur \/ (w[1] = cur /\ w[2] < line')
      <4> SUFFICES ASSUME NEW w \in DOMAIN ins_map
                   PROVE  w[1] < cur \/ (w[1] = cur /\ w[2] < line')
        OBVIOUS
      <4>1. w[2] \in Nat
        BY <1>5
      <4> QED BY <4>1, <1>1, <1>4
    <3>2. sp_dev <= p + Visited.counted
      <4> HIDE DEF c, p, bytes
      <4> QED BY <1>1, <1>2
    <3>3. \A i \in 1 .. line' - 1 :
            Result(Text[i]) /\ (Text[i].op = "call" => UsedBy(cur, i)) =>
              <<cur, i>> \in DOMAIN ins_map
      BY <1>4, <1>8, <1>11, <1>13
    <3>4. Visited.counted = Text'[line' - 1].counted
      BY <1>3, <1>8, <1>10
    <3> QED BY <3>1, <3>2, <3>3, <3>4, <1>3, <1>4, <1>7, <1>10, <1>12, <1>13 DEF Progress
  <2>3. Placed' /\ SlotsApart'
    BY <1>3, <1>7, <1>13 DEF FrameInv, Placed, SlotsApart
  <2> QED BY <2>1, <2>2, <2>3, <1>9 DEF FrameInv
<1>14. CASE Place(Bytes(v)) /\ Bytes(v) = bytes
  <2>1. /\ DOMAIN ins_map' = DOMAIN ins_map \cup {v} /\ ins_map'[v] = sp_dev
        /\ \A w \in DOMAIN ins_map : ins_map'[w] = ins_map[w]
        /\ sp_dev' = sp_dev + bytes /\ sp_dev' \in Nat
    BY <1>1, <1>2, <1>6, <1>14 DEF Place
  <2>2. TypeOK'
    <3>1. /\ DOMAIN ins_map' \subseteq Functions \X Nat
          /\ \A w \in DOMAIN ins_map' : ins_map'[w] \in Nat
      BY <2>1, <1>1, <1>5, <1>6
    <3> QED BY <3>1, <2>1, <1>1, <1>3, <1>10 DEF TypeOK
  <2>3. /\ p <= sp_dev' /\ sp_dev' <= p + Visited.counted
        /\ sp_dev <= sp_dev' /\ sp_dev + bytes <= sp_dev'
    <3> HIDE DEF c, p, bytes
    <3> QED BY <2>1, <1>1, <1>2, <1>4
  <2>4. ASSUME NEW w \in DOMAIN ins_map, w[1] = cur
        PROVE  ins_map[w] + Bytes(w) <= sp_dev /\ ins_map[w] + Bytes(w) <= sp_dev'
    <3>1. w[2] \in DOMAIN Text
      BY <2>4 DEF FrameInv, Placed, Text
    <3>2. Text[w[2]] \in Lines
      BY <3>1, <1>1
    <3>3. Bytes(w) \in Nat
      BY <3>2, <2>4 DEF Bytes, Lines, Text
    <3> DEFINE y == ins_map[w] + Bytes(w)
    <3>4. y \in Nat /\ y <= sp_dev
      BY <3>3, <2>4, <1>4, <1>5
    <3> HIDE DEF y
    <3>5. y <= sp_dev'
      BY <3>4, <2>1, <2>3, <1>1
    <3> QED BY <3>4, <3>5 DEF y
  <2>5. Progress'
    <3>1. \A w \in DOMAIN ins_map' : w[1] < cur \/ (w[1] = cur /\ w[2] < line')
      <4> SUFFICES ASSUME NEW w \in DOMAIN ins_map'
                   PROVE  w[1] < cur \/ (w[1] = cur /\ w[2] < line')
        OBVIOUS
      <4>1. CASE w = v
        BY <4>1, <1>1
      <4>2. CASE w \in DOMAIN ins_map
        <5>1. w[2] \in Nat
          BY <4>2, <1>5
        <5> QED BY <4>2, <5>1, <1>1, <1>4
      <4> QED BY <4>1, <4>2, <2>1
    <3>2. \A w \in DOMAIN ins_map' : w[1] = cur => ins_map'[w] + Bytes(w) <= sp_dev'
      <4> SUFFICES ASSUME NEW w \in DOMAIN ins_map', w[1] = cur
                   PROVE  ins_map'[w] + Bytes(w) <= sp_dev'
        OBVIOUS
      <4>1. CASE w = v
        BY <4>1, <2>1, <2>3, <1>14
      <4>2. CASE w \in DOMAIN ins_map
        BY <4>2, <2>1, <2>4
      <4> QED BY <4>1, <4>2, <2>1
    <3>3. \A i \in 1 .. line' - 1 :
            Result(Text[i]) /\ (Text[i].op = "call" => UsedBy(cur, i)) =>
              <<cur, i>> \in DOMAIN ins_map'
      BY <2>1, <1>4, <1>11
    <3>4. Visited.counted = Text'[line' - 1].counted
      BY <1>3, <1>8, <1>10
    <3> QED BY <3>1, <3>2, <3>3, <3>4, <2>3, <1>3, <1>7, <1>10, <1>12 DEF Progress
  <2>6. Placed'
    <3> SUFFICES ASSUME NEW w \in DOMAIN ins_map'
                 PROVE  /\ w[2] \in DOMAIN k_str[w[1]]
                        /\ m[w[1]].params_needed <= ins_map'[w]
                        /\ ins_map'[w] + Bytes(w) <= m[w[1]].params_needed
                                                     + k_str[w[1]][w[2]].counted
      BY <1>3, <1>7 DEF Placed
    <3>1. CASE w = v
      <4>1. /\ w[1] = cur /\ w[2] = line /\ m[w[1]].params_needed = p
            /\ k_str[w[1]][w[2]].counted = Visited.counted
        BY <3>1, <1>8 DEF Space
      <4>2. line \in DOMAIN k_str[cur]
        BY <1>1 DEF Text
      <4>3. ins_map'[w] + Bytes(w) <= p + Visited.counted
        BY <3>1, <2>1, <2>3, <1>14
      <4> QED BY <4>1, <4>2, <4>3, <3>1, <2>1, <1>4
    <3>2. CASE w \in DOMAIN ins_map
      BY <3>2, <2>1 DEF FrameInv, Placed
    <3> QED BY <3>1, <3>2, <2>1
  <2>7. SlotsApart'
    <3> SUFFICES ASSUME NEW w \in DOMAIN ins_map', NEW z \in DOMAIN ins_map',
                        w[1] = z[1], w # z
                 PROVE  \/ ins_map'[w] + Bytes(w) <= ins_map'[z]
                        \/ ins_map'[z] + Bytes(z) <= ins_map'[w]
      BY <1>7 DEF SlotsApart
    <3>1. CASE w = v
      <4>1. z \in DOMAIN ins_map /\ z[1] = cur
        BY <3>1, <2>1
      <4> QED BY <3>1, <4>1, <2>1, <2>4
    <3>2. CASE z = v
      <4>1. w \in DOMAIN ins_map /\ w[1] = cur
        BY <3>2, <2>1
      <4> QED BY <3>2, <4>1, <2>1, <2>4
    <3>3. CASE w \in DOMAIN ins_map /\ z \in DOMAIN ins_map
      BY <3>3, <2>1 DEF FrameInv, SlotsApart
    <3> QED BY <3>1, <3>2, <3>3, <2>1
  <2> QED BY <2>2, <2>5, <2>6, <2>7, <1>9 DEF FrameInv
<1> QED
  BY <1>13, <1>14

\* Only a ret ends a text.
LEMMA MoreLines ==
  ASSUME FrameInv, phase = "visit", line > 0, Visited.op # "ret"
  PROVE  line < Len(Text)
<1>1. /\ cur \in Functions /\ line \in Nat /\ line \in 1 .. Len(Text) /\ Len(Text) \in Nat
  BY InText
<1>2. Text[Len(Text)].op = "ret"
  BY <1>1 DEF FrameInv, Sized, Text
<1>3. line # Len(Text)
  BY <1>2 DEF Visited
<1> QED
  BY <1>1, <1>3

LEMMA VisitFunctionStep ==
  ASSUME FrameInv, VisitFunction
  PROVE  FrameInv'
<1> DEFINE m == map_space_needed_for_function
<1>1. /\ phase = "visit" /\ line = 0 /\ sp_dev' = Space.params_needed /\ line' = 1
      /\ UNCHANGED <<phase, cur, ins_map, m, k_str, open, operands>>
  BY DEF VisitFunction, FrontEnd
<1>2. /\ TypeOK /\ cur \in Functions /\ m \in Seq(Spaces) /\ Len(m) = N
      /\ k_str \in [Functions -> Seq(Lines)]
      /\ DOMAIN ins_map \subseteq Functions \X Nat
  BY <1>1 DEF FrameInv, TypeOK
<1>3. cur \in DOMAIN m
  BY <1>2, FrameConstants DEF Functions
<1>4. Space.params_needed \in Nat /\ Text \in Seq(Lines) /\ Len(Text) > 0
  BY <1>1, <1>2, <1>3, SpaceTypes DEF Space, Text, FrameInv, Sized
<1>5. Text' = Text /\ Space' = Space /\ ~ Dumping /\ ~ Dumping'
  BY <1>1 DEF Text, Space, Dumping
<1>6. TypeOK'
  BY <1>1, <1>2, <1>4, <1>5 DEF TypeOK
<1>7. TextsKept' /\ OpenKept' /\ Sized' /\ Placed' /\ SlotsApart'
  <2>1. TextsKept'
    BY <1>1 DEF FrameInv, TextsKept, Claimed
  <2>2. OpenKept' /\ Sized'
    BY <1>1, <1>5 DEF FrameInv, OpenKept, Sized
  <2>3. Placed' /\ SlotsApart'
    BY <1>1 DEF FrameInv, Placed, SlotsApart, Bytes
  <2> QED BY <2>1, <2>2, <2>3
<1>8. \A w \in DOMAIN ins_map : w[1] < cur
  <2> SUFFICES ASSUME NEW w \in DOMAIN ins_map PROVE w[1] < cur
    OBVIOUS
  <2>1. w[1] < cur \/ (w[1] = cur /\ w[2] < line)
    BY <1>1 DEF FrameInv, Progress
  <2>2. w[2] \in Nat
    BY <1>2
  <2> QED BY <2>1, <2>2, <1>1
<1>9. Progress'
  <2>1. line' \in 0 .. Len(Text)
    BY <1>1, <1>4
  <2>2. \A w \in DOMAIN ins_map : w[1] # cur
    BY <1>2, <1>8 DEF Functions
  <2>3. sp_dev' <= Space.params_needed + 0 /\ Space.params_needed <= sp_dev'
    BY <1>1, <1>4
  <2>4. 1 .. line' - 1 = {}
    BY <1>1
  <2> QED BY <2>1, <2>2, <2>3, <2>4, <1>1, <1>5, <1>8 DEF Progress
<1> QED
  BY <1>6, <1>7, <1>9 DEF FrameInv

LEMMA VisitAllocStep ==
  ASSUME FrameInv, VisitAlloc
  PROVE  FrameInv'
<1>1. /\ phase = "visit" /\ line > 0 /\ Visited.op = "alloc" /\ line' = line + 1
      /\ Place(Visited.bytes) /\ UNCHANGED <<phase, cur, FrontEnd>>
  BY DEF VisitAlloc, Visiting
<1>2. line < Len(Text)
  BY <1>1, MoreLines
<1>3. Bytes(<<cur, line>>) = Visited.bytes
  BY <1>1 DEF Bytes, Visited, Text
<1> QED
  BY <1>1, <1>2, <1>3, NextLine

LEMMA VisitValueStep ==
  ASSUME FrameInv, VisitValue
  PROVE  FrameInv'
<1>1. /\ phase = "visit" /\ line > 0 /\ Visited.op = "value" /\ line' = line + 1
      /\ Place(4) /\ UNCHANGED <<phase, cur, FrontEnd>>
  BY DEF VisitValue, Visiting
<1>2. line < Len(Text)
  BY <1>1, MoreLines
<1>3. Visited.bytes = 4
  BY <1>1, InText DEF WellCounted, Visited
<1>4. Bytes(<<cur, line>>) = Visited.bytes
  BY <1>1 DEF Bytes, Visited, Text
<1> QED
  BY <1>1, <1>2, <1>3, <1>4, NextLine

LEMMA VisitStoreStep ==
  ASSUME FrameInv, VisitStore
  PROVE  FrameInv'
<1>1. /\ phase = "visit" /\ line > 0 /\ Visited.op \in {"store", "param", "br"}
      /\ line' = line + 1 /\ UNCHANGED <<sp_dev, ins_map>>
      /\ UNCHANGED <<phase, cur, FrontEnd>>
  BY DEF VisitStore, Visiting
<1>2. line < Len(Text)
  BY <1>1, MoreLines
<1>3. ~ Result(Visited)
  BY <1>1 DEF Result
<1> QED
  BY <1>1, <1>2, <1>3, NextLine

\* A call that is read has a result: the text reads results only.
LEMMA VisitCallStep ==
  ASSUME FrameInv, VisitCall
  PROVE  FrameInv'
<1>1. /\ phase = "visit" /\ line > 0 /\ Visited.op = "call" /\ line' = line + 1
      /\ UNCHANGED <<phase, cur, FrontEnd>>
      /\ IF UsedBy(cur, line) THEN Place(4) ELSE UNCHANGED <<sp_dev, ins_map>>
  BY DEF VisitCall, Visiting
<1>2. line < Len(Text)
  BY <1>1, MoreLines
<1>3. Bytes(<<cur, line>>) = 4
  BY <1>1 DEF Bytes, Visited, Text
<1>4. CASE UsedBy(cur, line)
  <2>1. PICK j \in DOMAIN Text : line \in Needs(Text[j])
    BY <1>4 DEF UsedBy, Text
  <2>2. Result(Text[line])
    BY <2>1, <1>1, InText DEF WellRead
  <2>3. Visited.bytes = 4
    BY <2>2, <1>1 DEF Result, Visited
  <2> QED BY <2>3, <1>1, <1>2, <1>3, <1>4, NextLine
<1>5. CASE ~ UsedBy(cur, line)
  BY <1>1, <1>2, <1>5, NextLine
<1> QED
  BY <1>4, <1>5

LEMMA VisitRetStep ==
  ASSUME FrameInv, VisitRet
  PROVE  FrameInv'
<1> DEFINE m == map_space_needed_for_function
<1>1. /\ phase = "visit" /\ line > 0 /\ Visited.op = "ret"
      /\ UNCHANGED <<sp_dev, ins_map, FrontEnd>>
      /\ \/ line < Len(Text) /\ line' = line + 1 /\ UNCHANGED <<phase, cur>>
         \/ /\ line' = 0
            /\ \/ cur < N /\ cur' = cur + 1 /\ UNCHANGED phase
               \/ phase' = "done" /\ UNCHANGED cur
  BY DEF VisitRet, Visiting
<1>2. CASE line < Len(Text) /\ line' = line + 1 /\ UNCHANGED <<phase, cur>>
  <2>1. ~ Result(Visited)
    BY <1>1 DEF Result
  <2> QED BY <2>1, <1>1, <1>2, NextLine
<1>3. CASE /\ line' = 0
           /\ \/ cur < N /\ cur' = cur + 1 /\ UNCHANGED phase
              \/ phase' = "done" /\ UNCHANGED cur
  <2>1. UNCHANGED <<sp_dev, ins_map, m, k_str, open, operands>>
    BY <1>1 DEF FrontEnd
  <2>2. TypeOK /\ cur \in Functions /\ N \in Nat
    BY <1>1, InText, FrameConstants
  <2>3. /\ cur' \in Functions /\ phase' \in {"visit", "done"} /\ phase' # "dump"
        /\ (phase' = "visit" => cur < cur')
    <3>1. CASE cur < N /\ cur' = cur + 1 /\ UNCHANGED phase
      <4>1. cur + 1 \in Functions /\ cur < cur + 1
        BY <3>1, <2>2 DEF Functions
      <4> QED BY <3>1, <4>1, <1>1
    <3>2. CASE phase' = "done" /\ UNCHANGED cur
      BY <3>2, <2>2
    <3> QED BY <3>1, <3>2, <1>3
  <2>4. ~ Dumping /\ ~ Dumping' /\ phase # "dump"
    BY <1>1, <2>3 DEF Dumping
  <2>5. open = <<>> /\ operands = <<>>
    BY <2>4 DEF FrameInv, OpenKept
  <2>6. TypeOK'
    <3>1. DOMAIN open' = {} /\ open' \in Seq(Frames) /\ operands' \in Seq(Nat)
      BY <2>1, <2>5
    <3>2. 0 \in Nat
      OBVIOUS
    <3> QED BY <3>1, <3>2, <2>1, <2>2, <2>3, <2>4, <1>3 DEF TypeOK
  <2>7. TextsKept'
    BY <2>1 DEF FrameInv, TextsKept, Claimed
  <2>8. OpenKept'
    BY <2>1, <2>4, <2>5 DEF OpenKept
  <2>9. Sized'
    BY <2>1, <2>3, <2>4 DEF FrameInv, Sized
  <2>10. Placed' /\ SlotsApart'
    BY <2>1 DEF FrameInv, Placed, SlotsApart, Bytes
  <2>11. Progress'
    <3>1. 0 \in 0 .. Len(Text')
      <4>1. Text' \in Seq(Lines)
        BY <2>1, <2>2, <2>3 DEF TypeOK, Text
      <4> QED BY <4>1
    <3>2. phase' = "visit" => \A w \in DOMAIN ins_map : w[1] < cur'
      <4> SUFFICES ASSUME phase' = "visit", NEW w \in DOMAIN ins_map
                   PROVE  w[1] < cur'
        OBVIOUS
      <4>1. w[1] < cur \/ w[1] = cur
        BY <1>1 DEF FrameInv, Progress
      <4>2. w[1] \in Functions
        BY <2>2 DEF TypeOK
      <4> QED BY <4>1, <4>2, <2>2, <2>3 DEF Functions
    <3>3. line' = 0 /\ ~ (line' > 0)
      BY <1>3
    <3> QED BY <3>1, <3>2, <3>3, <2>1, <2>3 DEF Progress
  <2> QED BY <2>6, <2>7, <2>8, <2>9, <2>10, <2>11 DEF FrameInv
<1> QED
  BY <1>1, <1>2, <1>3
-----------------------------------------------------------------------------
(* The theorems *)

LEMMA FrameInit ==
  Init => FrameInv
<1> SUFFICES ASSUME Init PROVE FrameInv
  OBVIOUS
<1>1. /\ phase = "dump" /\ cur = 1 /\ map_space_needed_for_function = <<>>
      /\ k_str = [f \in Functions |-> <<>>] /\ open = <<>> /\ operands = <<>>
      /\ line = 0 /\ sp_dev = 0 /\ DOMAIN ins_map = {}
  BY DEF Init
<1>2. 1 \in Functions /\ ~ Dumping
  BY <1>1, FrameConstants DEF Functions, Dumping
<1>3. TypeOK
  <2>1. k_str \in [Functions -> Seq(Lines)]
    BY <1>1
  <2>2. DOMAIN open = {}
    BY <1>1
  <2> QED BY <2>1, <2>2, <1>1, <1>2 DEF TypeOK
<1>4. TextsKept /\ OpenKept /\ Progress /\ Placed /\ SlotsApart
  BY <1>1, <1>2 DEF TextsKept, OpenKept, Progress, Placed, SlotsApart
<1>5. Sized
  BY <1>1 DEF Sized, Functions
<1> QED
  BY <1>3, <1>4, <1>5 DEF FrameInv

LEMMA FrameStep ==
  FrameInv /\ [Next]_vars => FrameInv'
<1> SUFFICES ASSUME FrameInv, [Next]_vars PROVE FrameInv'
  OBVIOUS
<1>1. CASE Dump
  BY <1>1, DumpFuncDefStep, DeclareAllocStep, DumpVarDefStep, DumpVarDefInitStep,
     DumpArrayDefStep, InitLocalArrayStep, DumpLValStep, DumpLValElemStep, DumpOpStep,
     DumpLogicStep, DumpLogicRhsStep, DumpLogicOpStep, DumpCallStep, DumpCallEndStep,
     DumpAssignStep, DumpElemPtrStep, DumpElemStoreStep, DumpExpStmtStep,
     DumpBranchStep, DumpReturnStep, DumpFuncEndStep
     DEF Dump
<1>2. CASE Visit
  BY <1>2, VisitFunctionStep, VisitAllocStep, VisitValueStep, VisitStoreStep,
     VisitCallStep, VisitRetStep DEF Visit
<1>3. CASE Finish \/ UNCHANGED vars
  <2>1. UNCHANGED vars
    BY <1>3 DEF Finish
  <2>2. /\ UNCHANGED <<phase, cur, map_space_needed_for_function, k_str, open, operands,
                       line, sp_dev, ins_map>>
        /\ Text' = Text /\ Space' = Space /\ Dumping' = Dumping
    BY <2>1 DEF vars, Text, Space, Dumping
  <2>3. Readable' = Readable /\ GoodFrames' = GoodFrames
    BY <2>2 DEF Readable, GoodFrames, Claimed
  <2>4. TypeOK' /\ OpenKept'
    BY <2>2, <2>3 DEF FrameInv, TypeOK, OpenKept
  <2>5. TextsKept' /\ Sized'
    BY <2>2 DEF FrameInv, TextsKept, Claimed, Sized
  <2>6. Progress' /\ Placed' /\ SlotsApart'
    BY <2>2 DEF FrameInv, Progress, Placed, SlotsApart, Bytes, UsedBy
  <2> QED BY <2>4, <2>5, <2>6 DEF FrameInv
<1> QED
  BY <1>1, <1>2, <1>3 DEF Next

\* The conjunction is an invariant.
THEOREM FrameInvariant ==
  Spec => []FrameInv
<1> QED
  BY FrameInit, FrameStep, PTL DEF Spec

\* The values of the variables of both walks, whatever the text.
THEOREM FrameTyping ==
  Spec => []TypeOK
<1>1. FrameInv => TypeOK
  BY DEF FrameInv
<1> QED
  BY <1>1, FrameInvariant, PTL

\* No two values of a function share a byte of its frame, whatever the text:
\* Visit hands each line the bytes above those it handed out before.
THEOREM SlotsDisjoint ==
  Spec => []SlotsApart
<1>1. FrameInv => SlotsApart
  BY DEF FrameInv
<1> QED
  BY <1>1, FrameInvariant, PTL

LEMMA InFrame ==
  FrameInv => SlotsInFrame
<1> SUFFICES ASSUME FrameInv, NEW v \in DOMAIN ins_map
             PROVE  LET space == map_space_needed_for_function[v[1]]
                    IN  /\ space.params_needed <= ins_map[v]
                        /\ ins_map[v] + Bytes(v)
                             <= space.total_needed - space.return_address_needed
  BY DEF SlotsInFrame
<1> DEFINE space == map_space_needed_for_function[v[1]]
           l == k_str[v[1]][v[2]]
<1>1. /\ phase # "dump" /\ TypeOK /\ v[1] \in Functions /\ ins_map[v] \in Nat
  BY DEF FrameInv, Progress, TypeOK
<1>2. /\ map_space_needed_for_function \in Seq(Spaces)
      /\ v[1] \in DOMAIN map_space_needed_for_function
      /\ k_str[v[1]] \in Seq(Lines)
  BY <1>1, FrameConstants DEF TypeOK, Functions
<1>3. /\ space.total_needed \in Nat /\ space.return_address_needed \in Nat
      /\ space.params_needed \in Nat /\ space.variate_needed \in Nat
  BY <1>2, SpaceTypes
<1>4. /\ v[2] \in DOMAIN k_str[v[1]] /\ space.params_needed <= ins_map[v]
      /\ ins_map[v] + Bytes(v) <= space.params_needed + l.counted
  BY DEF FrameInv, Placed
<1>5. l.counted <= space.variate_needed
  BY <1>2, <1>4 DEF FrameInv, TextsKept, WellCounted
<1>6. l \in Lines
  BY <1>2, <1>4
<1>7. l.counted \in Nat /\ Bytes(v) \in Nat
  BY <1>6 DEF Lines, Bytes
<1>8. space.variate_needed + space.return_address_needed + space.params_needed
        <= space.total_needed
  BY <1>1 DEF FrameInv, Sized
<1> HIDE DEF space, l
<1>9. ins_map[v] + Bytes(v) <= space.total_needed - space.return_address_needed
  <2> DEFINE x == ins_map[v] + Bytes(v)
  <2>1. x \in Nat /\ x <= space.params_needed + l.counted
    BY <1>1, <1>4, <1>7
  <2> HIDE DEF x
  <2>2. x <= space.total_needed - space.return_address_needed
    BY <2>1, <1>3, <1>5, <1>7, <1>8
  <2> QED BY <2>2 DEF x
<1> QED
  BY <1>4, <1>9 DEF space

\* The frame FuncDefAST::Dump sizes holds every slot the Visit functions hand
\* out, between the outgoing arguments and the saved return address.
THEOREM FrameSafe ==
  Spec => []SlotsInFrame
<1> QED
  BY InFrame, FrameInvariant, PTL

LEMMA Fit ==
  FrameInv => CallsFit
  BY DEF FrameInv, TextsKept, CallsFit, Claimed

\* Under every call, however deep it is nested, the arguments that go on the
\* stack have their room and the return address is saved.
THEOREM CallsHaveRoom ==
  Spec => []CallsFit
<1> QED
  BY Fit, FrameInvariant, PTL

LEMMA AllFound ==
  FrameInv => OperandsFound
<1> SUFFICES ASSUME FrameInv, phase = "visit", line > 0, NEW u \in Needs(Visited)
             PROVE  <<cur, u>> \in DOMAIN ins_map
  BY DEF OperandsFound, Found
<1>1. line \in DOMAIN Text /\ WellRead(Text) /\ Text \in Seq(Lines)
  BY InText
<1>2. u \in 1 .. line - 1 /\ Result(Text[u])
  BY <1>1 DEF WellRead, Visited
<1>3. UsedBy(cur, u)
  BY <1>1 DEF UsedBy, Visited, Text
<1> QED
  BY <1>2, <1>3 DEF FrameInv, Progress

\* The Visit functions find a place for whatever a line reads: none of their
\* assert(false) behind ins_map.find is ever reached.
THEOREM NoMissingSlot ==
  Spec => []OperandsFound
<1> QED
  BY AllFound, FrameInvariant, PTL
=============================================================================
