----------------------------- MODULE NumbersProofs -----------------------------
(***************************************************************************)
(* A literal of any length, in a word of any size, with or without a       *)
(* minus, arrives in the Koopa text as the number it is.                   *)
(***************************************************************************)
EXTENDS Numbers, Facts

(***************************************************************************)
(* The number that is read when the digits follow a number n: what is left *)
(* of num, followed by the digits on the stack, is a constant of the loops *)
(* of itostr.                                                              *)
(***************************************************************************)
Onto(n, base, digits) ==
  LET value[i \in 0 .. Len(digits)] ==
        IF i = 0 THEN n ELSE base * value[i - 1] + digits[i]
  IN  value[Len(digits)]

\* f reads the digits, one after the other.
Reads(f, n, base, digits) ==
  f[0] = n /\ \A i \in 1 .. Len(digits) : f[i] = base * f[i - 1] + digits[i]

LEMMA ReadSame ==
  ASSUME NEW n, NEW base, NEW digits, NEW L \in Nat, L = Len(digits),
         NEW f, Reads(f, n, base, digits), NEW g, Reads(g, n, base, digits)
  PROVE  \A i \in 0 .. L : f[i] = g[i]
<1> DEFINE S == {i \in 0 .. L : f[i] = g[i]}
<1>0. /\ f[0] = g[0] /\ \A i \in 1 .. L : f[i] = base * f[i - 1] + digits[i]
      /\ \A i \in 1 .. L : g[i] = base * g[i - 1] + digits[i]
  BY DEF Reads
<1>1. 0 \in S
  BY <1>0
<1>2. ASSUME NEW i \in 0 .. L - 1, i \in S PROVE i + 1 \in S
  <2>1. i + 1 \in 1 .. L /\ i + 1 - 1 = i /\ f[i] = g[i] /\ i + 1 \in 0 .. L
    BY <1>2
  <2>2. f[i + 1] = base * f[i] + digits[i + 1] /\ g[i + 1] = base * g[i] + digits[i + 1]
    BY <1>0, <2>1
  <2> QED BY <2>1, <2>2
<1> HIDE DEF S
<1>3. \A i \in 0 .. L : i \in S
  BY <1>1, <1>2, Climb
<1> QED BY <1>3 DEF S

LEMMA ReadsExists ==
  ASSUME NEW n \in Int, NEW base \in Int, NEW digits \in Seq(Int)
  PROVE  \E f \in [0 .. Len(digits) -> Int] : Reads(f, n, base, digits)
<1> PICK L : L = Len(digits)
  OBVIOUS
<1>0. L \in Nat /\ \A i \in 1 .. L : digits[i] \in Int
  OBVIOUS
<1> DEFINE upto(m, g) == g[0] = n /\ \A i \in 1 .. m : g[i] = base * g[i - 1] + digits[i]
           S == {m \in 0 .. L : \E g \in [0 .. m -> Int] : upto(m, g)}
<1>1. 0 \in S
  <2> DEFINE g == [i \in 0 .. 0 |-> n]
  <2>1. g \in [0 .. 0 -> Int] /\ upto(0, g)
    OBVIOUS
  <2> HIDE DEF g
  <2>2. \E e \in [0 .. 0 -> Int] : upto(0, e)
    BY <2>1
  <2>3. 0 \in 0 .. L
    BY <1>0
  <2> QED BY <2>2, <2>3
<1>2. ASSUME NEW m \in 0 .. L - 1, m \in S PROVE m + 1 \in S
  <2>1. PICK g \in [0 .. m -> Int] : upto(m, g)
    BY <1>2
  <2> DEFINE h == [i \in 0 .. m + 1 |-> IF i = m + 1 THEN base * g[m] + digits[m + 1] ELSE g[i]]
  <2>2. m \in Nat /\ m + 1 \in 1 .. L /\ m + 1 \in 0 .. L /\ digits[m + 1] \in Int
    BY <1>0
  <2>3. g[m] \in Int /\ base * g[m] + digits[m + 1] \in Int
    BY <2>2
  <2>4. h \in [0 .. m + 1 -> Int]
    BY <2>2, <2>3
  <2>5. /\ h[m + 1] = base * g[m] + digits[m + 1]
        /\ \A i \in 0 .. m : h[i] = g[i]
    BY <2>2
  <2> HIDE DEF h
  <2>6. upto(m + 1, h)
    <3>1. h[0] = n
      BY <2>1, <2>2, <2>5
    <3>2. ASSUME NEW i \in 1 .. m + 1 PROVE h[i] = base * h[i - 1] + digits[i]
      <4>1. CASE i = m + 1
        <5>1. i - 1 = m /\ m \in 0 .. m
          BY <2>2, <4>1
        <5> QED BY <2>5, <4>1, <5>1
      <4>2. CASE i \in 1 .. m
        <5>1. i \in 0 .. m /\ i - 1 \in 0 .. m
          BY <2>2, <4>2
        <5> QED BY <2>1, <2>5, <4>2, <5>1
      <4> QED BY <2>2, <4>1, <4>2
    <3> QED BY <3>1, <3>2
  <2> QED BY <2>2, <2>4, <2>6
<1>3. \A m \in 0 .. L : m \in S
  <2> HIDE DEF S
  <2> QED BY <1>0, <1>1, <1>2, Climb
<1>4. L \in S
  <2>1. L \in 0 .. L
    BY <1>0
  <2> HIDE DEF S
  <2> QED BY <2>1, <1>3
<1> QED BY <1>4 DEF Reads

\* The recursive function that a definition chooses is one that reads.
LEMMA OntoReads ==
  ASSUME NEW n \in Int, NEW base \in Int, NEW digits \in Seq(Int)
  PROVE  \E f \in [0 .. Len(digits) -> Int] :
           Reads(f, n, base, digits) /\ Onto(n, base, digits) = f[Len(digits)]
<1> DEFINE L == Len(digits)
           is(f) == f = [i \in 0 .. L |-> IF i = 0 THEN n ELSE base * f[i - 1] + digits[i]]
           value == CHOOSE f : is(f)
<1>1. PICK f \in [0 .. L -> Int] : Reads(f, n, base, digits)
  BY ReadsExists
<1>0. L \in Nat
  OBVIOUS
<1>2. is(f)
  <2>1. \A i \in 0 .. L : f[i] = IF i = 0 THEN n ELSE base * f[i - 1] + digits[i]
    <3> SUFFICES ASSUME NEW i \in 0 .. L
                 PROVE  f[i] = IF i = 0 THEN n ELSE base * f[i - 1] + digits[i]
      OBVIOUS
    <3>1. i = 0 \/ i \in 1 .. L
      BY <1>0
    <3> QED BY <1>1, <3>1 DEF Reads
  <2>2. f = [i \in 0 .. L |-> f[i]]
    OBVIOUS
  <2> QED BY <2>1, <2>2
<1>3. is(value)
  <2> HIDE DEF is
  <2> QED BY <1>2
<1>4. Onto(n, base, digits) = value[L]
  BY DEF Onto
<1> HIDE DEF value
<1>5. Reads(value, n, base, digits)
  <2>1. \A i \in 0 .. L : value[i] = IF i = 0 THEN n ELSE base * value[i - 1] + digits[i]
    BY <1>3
  <2> QED BY <1>0, <2>1 DEF Reads
<1>6. \A i \in 0 .. L : value[i] = f[i]
  BY <1>0, <1>1, <1>5, ReadSame
<1> QED BY <1>0, <1>1, <1>4, <1>6
LEMMA OntoType ==
  ASSUME NEW n \in Int, NEW base \in Int, NEW digits \in Seq(Int)
  PROVE  Onto(n, base, digits) \in Int
<1>1. PICK f \in [0 .. Len(digits) -> Int] : Onto(n, base, digits) = f[Len(digits)]
  BY OntoReads
<1>2. Len(digits) \in 0 .. Len(digits)
  OBVIOUS
<1> QED BY <1>1, <1>2

LEMMA OntoEmpty ==
  ASSUME NEW n \in Int, NEW base \in Int
  PROVE  Onto(n, base, <<>>) = n
<1>1. <<>> \in Seq(Int) /\ Len(<<>>) = 0
  OBVIOUS
<1>2. PICK f \in [0 .. Len(<<>>) -> Int] : Reads(f, n, base, <<>>) /\ Onto(n, base, <<>>) = f[Len(<<>>)]
  BY <1>1, OntoReads
<1> QED BY <1>1, <1>2 DEF Reads

\* Two ways to read one value give one number.
LEMMA ReadUp ==
  ASSUME NEW n \in Int, NEW base \in Int, NEW digits \in Seq(Int),
         NEW L, L = Len(digits), NEW f, Reads(f, n, base, digits)
  PROVE  Onto(n, base, digits) = f[L]
<1>1. PICK g \in [0 .. Len(digits) -> Int] :
        Reads(g, n, base, digits) /\ Onto(n, base, digits) = g[Len(digits)]
  BY OntoReads
<1>2. L \in Nat
  OBVIOUS
<1>3. \A i \in 0 .. L : f[i] = g[i]
  BY <1>1, <1>2, ReadSame
<1>4. L \in 0 .. L
  BY <1>2
<1> QED BY <1>1, <1>3, <1>4

LEMMA OntoAppend ==
  ASSUME NEW n \in Int, NEW base \in Int, NEW digits \in Seq(Int), NEW d \in Int
  PROVE  Onto(n, base, Append(digits, d)) = base * Onto(n, base, digits) + d
<1> PICK L, more : L = Len(digits) /\ more = Append(digits, d)
  OBVIOUS
<1>1. /\ L \in Nat /\ more \in Seq(Int) /\ Len(more) = L + 1 /\ more[L + 1] = d
      /\ \A i \in 1 .. L : more[i] = digits[i]
  OBVIOUS
<1>2. PICK f \in [0 .. Len(more) -> Int] :
        Reads(f, n, base, more) /\ Onto(n, base, more) = f[Len(more)]
  BY <1>1, OntoReads
<1>3. f[0] = n /\ \A i \in 1 .. L + 1 : f[i] = base * f[i - 1] + more[i]
  BY <1>1, <1>2 DEF Reads
<1>4. Reads(f, n, base, digits)
  <2>1. \A i \in 1 .. L : i \in 1 .. L + 1
    BY <1>1
  <2>2. \A i \in 1 .. L : f[i] = base * f[i - 1] + digits[i]
    BY ONLY <1>1, <1>3, <2>1
  <2> QED BY <1>3, <2>2 DEF Reads
<1>5. Onto(n, base, digits) = f[L]
  BY <1>4, ReadUp
<1>6. f[L + 1] = base * f[L] + d
  <2>1. L + 1 \in 1 .. L + 1 /\ L + 1 - 1 = L
    BY <1>1
  <2> QED BY ONLY <1>1, <1>3, <2>1
<1> QED BY <1>1, <1>2, <1>5, <1>6

LEMMA OntoFront ==
  ASSUME NEW n \in Int, NEW base \in Int, NEW digits \in Seq(Int), NEW d \in Int
  PROVE  Onto(n, base, <<d>> \o digits) = Onto(base * n + d, base, digits)
<1> PICK L, more : L = Len(digits) /\ more = <<d>> \o digits
  OBVIOUS
<1>1. /\ L \in Nat /\ more \in Seq(Int) /\ Len(more) = L + 1 /\ more[1] = d
      /\ \A i \in 1 .. L : more[i + 1] = digits[i]
  OBVIOUS
<1>2. PICK f \in [0 .. Len(more) -> Int] :
        Reads(f, n, base, more) /\ Onto(n, base, more) = f[Len(more)]
  BY <1>1, OntoReads
<1>3. f[0] = n /\ \A i \in 1 .. L + 1 : f[i] = base * f[i - 1] + more[i]
  BY <1>1, <1>2 DEF Reads
<1> DEFINE g == [i \in 0 .. L |-> f[i + 1]]
<1>4. \A i \in 0 .. L : g[i] = f[i + 1]
  OBVIOUS
<1> HIDE DEF g
<1>5. Reads(g, base * n + d, base, digits)
  <2>1. g[0] = base * n + d
    <3>1. 0 \in 0 .. L /\ 1 \in 1 .. L + 1 /\ 0 + 1 = 1 /\ 1 - 1 = 0
      BY <1>1
    <3> QED BY ONLY <1>1, <1>3, <1>4, <3>1
  <2>2. ASSUME NEW i \in 1 .. L PROVE g[i] = base * g[i - 1] + digits[i]
    <3>1. i \in 0 .. L /\ i - 1 \in 0 .. L /\ i + 1 \in 1 .. L + 1 /\ i + 1 - 1 = i /\ i - 1 + 1 = i
      BY <1>1
    <3> PICK j : j = i + 1
      OBVIOUS
    <3>4. j \in 1 .. L + 1 /\ j - 1 = i
      BY <3>1
    <3>5. f[j] = base * f[i] + more[j]
      BY ONLY <1>3, <3>4
    <3>2. f[i + 1] = base * f[i] + more[i + 1] /\ more[i + 1] = digits[i]
      BY <1>1, <3>5
    <3>3. g[i] = f[i + 1] /\ g[i - 1] = f[i]
      BY ONLY <1>4, <3>1
    <3> QED BY ONLY <3>2, <3>3
  <2> QED BY <2>1, <2>2 DEF Reads
<1>6. Onto(base * n + d, base, digits) = g[L]
  <2>1. base * n + d \in Int
    OBVIOUS
  <2> QED BY <1>5, <2>1, ReadUp
<1>7. g[L] = f[L + 1]
  BY <1>1, <1>4
<1> QED BY <1>1, <1>2, <1>6, <1>7
-----------------------------------------------------------------------------
(* Ints *)

LEMMA OneMultiple ==
  ASSUME NEW M \in Nat \ {0}, NEW k \in Int, NEW x \in 0 .. M - 1, NEW y \in 0 .. M - 1,
         x - y = M * k
  PROVE  x = y
<1>1. k = 0
  OBVIOUS
<1> QED BY <1>1

LEMMA IntsType ==
  /\ IntMin \in Int /\ IntMax \in Int /\ IntMin < 0 /\ IntMax = -IntMin - 1
  /\ IntCount \in Nat \ {0} /\ IntCount = IntMax - IntMin + 1
  /\ 0 \in Ints /\ \A n \in Ints : n \in Int /\ IntMin <= n /\ n <= IntMax
  /\ \A n \in Int : IntMin <= n /\ n <= IntMax => n \in Ints
  BY NumbersAssumption DEF IntMin, IntCount, Ints

\* Wrapped(n) is the int that differs from n by a multiple of IntCount.
LEMMA WrappedIs ==
  ASSUME NEW n \in Int
  PROVE  Wrapped(n) \in Ints /\ \E k \in Int : Wrapped(n) = n + IntCount * k
<1> PICK low, M, a : low = IntMin /\ M = IntCount /\ a = n - low
  OBVIOUS
<1>1. low \in Int /\ M \in Nat \ {0} /\ a \in Int /\ IntMax = low + M - 1
  BY IntsType
<1>2. /\ a % M \in 0 .. M - 1 /\ a \div M \in Int /\ a = M * (a \div M) + (a % M)
  BY ONLY <1>1
<1>3. Wrapped(n) = (a % M) + low
  BY DEF Wrapped
<1>4. low <= (a % M) + low /\ (a % M) + low <= low + M - 1 /\ (a % M) + low \in Int
  BY ONLY <1>1, <1>2
<1>5. Wrapped(n) \in Ints
  BY <1>1, <1>3, <1>4, IntsType
<1>6. -(a \div M) \in Int /\ (a % M) + low = n + M * (-(a \div M))
  BY <1>1, <1>2
<1> QED BY <1>3, <1>5, <1>6

LEMMA WrappedOne ==
  ASSUME NEW x \in Ints, NEW y \in Ints, NEW k \in Int, x - y = IntCount * k
  PROVE  x = y
<1> PICK M, u, v : M = IntCount /\ u = x - IntMin /\ v = y - IntMin
  OBVIOUS
<1>1. M \in Nat \ {0} /\ u \in 0 .. M - 1 /\ v \in 0 .. M - 1 /\ u - v = x - y
  BY IntsType
<1>2. u - v = M * k
  BY <1>1
<1>3. u = v
  BY ONLY <1>1, <1>2, k \in Int, OneMultiple
<1> QED BY <1>3, IntsType

LEMMA WrappedSame ==
  ASSUME NEW n \in Ints
  PROVE  Wrapped(n) = n
<1>1. n \in Int
  BY IntsType
<1>2. PICK k \in Int : Wrapped(n) = n + IntCount * k
  BY <1>1, WrappedIs
<1>3. Wrapped(n) \in Ints /\ Wrapped(n) - n = IntCount * k
  BY <1>1, <1>2, WrappedIs, IntsType
<1> QED BY <1>3, WrappedOne

LEMMA WrappedMinus ==
  ASSUME NEW n \in Int
  PROVE  Wrapped(-Wrapped(n)) = Wrapped(-n)
<1>1. PICK k \in Int : Wrapped(n) = n + IntCount * k
  BY WrappedIs
<1>2. Wrapped(n) \in Int /\ -n \in Int /\ -Wrapped(n) \in Int /\ IntCount \in Int
  BY WrappedIs, IntsType
<1>3. PICK i \in Int : Wrapped(-Wrapped(n)) = -Wrapped(n) + IntCount * i
  BY <1>2, WrappedIs
<1>4. PICK j \in Int : Wrapped(-n) = -n + IntCount * j
  BY <1>2, WrappedIs
<1>5. Wrapped(-Wrapped(n)) \in Ints /\ Wrapped(-n) \in Ints
  BY <1>2, WrappedIs
<1>6. i - k - j \in Int /\ Wrapped(-Wrapped(n)) - Wrapped(-n) = IntCount * (i - k - j)
  BY <1>1, <1>2, <1>3, <1>4
<1> QED BY <1>5, <1>6, WrappedOne
-----------------------------------------------------------------------------
(* The invariant *)

Literal == InBase(literal.base, literal.digits)
Abs(n) == IF n < 0 THEN -n ELSE n

LEMMA InBaseOnto ==
  ASSUME NEW base, NEW digits
  PROVE  InBase(base, digits) = Onto(0, base, digits)
  BY DEF InBase, Onto

LEMMA LiteralType ==
  ASSUME NEW l \in Literals
  PROVE  l.base \in Int /\ l.digits \in Seq(Int) /\ InBase(l.base, l.digits) \in Int
<1> DEFINE DigitSeqs(base) == UNION {[1..n -> 0 .. base - 1] : n \in 1..MaxDigits}
<1>1. \A base \in Int : DigitSeqs(base) \subseteq Seq(Int)
  <2> SUFFICES ASSUME NEW base \in Int, NEW n \in 1 .. MaxDigits, NEW d \in [1 .. n -> 0 .. base - 1]
               PROVE  d \in Seq(Int)
    OBVIOUS
  <2>1. n \in Nat /\ d \in [1 .. n -> Int]
    BY NumbersAssumption
  <2> QED BY <2>1
<1>d. DigitSeqs(8) \subseteq Seq(Int) /\ DigitSeqs(10) \subseteq Seq(Int) /\ DigitSeqs(16) \subseteq Seq(Int)
  <2>1. 8 \in Int /\ 10 \in Int /\ 16 \in Int
    OBVIOUS
  <2> HIDE DEF DigitSeqs
  <2> QED BY <1>1, <2>1
<1> HIDE DEF DigitSeqs
<1>2. \A d \in DigitSeqs(8) \cup {<<>>} : <<0>> \o d \in Seq(Int)
  <2> SUFFICES ASSUME NEW d \in DigitSeqs(8) \cup {<<>>} PROVE <<0>> \o d \in Seq(Int)
    OBVIOUS
  <2>1. d \in Seq(Int) /\ <<0>> \in Seq(Int)
    <3>1. <<>> \in Seq(Int) /\ <<0>> \in Seq(Int)
      OBVIOUS
    <3> QED BY <1>d, <3>1
  <2> QED BY ONLY <2>1, ConcatProperties
<1>3. /\ l.base \in {10, 8, 16}
      /\ l.digits \in DigitSeqs(10) \cup DigitSeqs(16) \cup {<<0>> \o d : d \in DigitSeqs(8) \cup {<<>>}}
  BY DEF Literals, DigitSeqs
<1>4. l.base \in Int /\ l.digits \in Seq(Int)
  <2>1. l.digits \in Seq(Int)
    BY <1>d, <1>2, <1>3, Zenon
  <2>2. 10 \in Int /\ 8 \in Int /\ 16 \in Int
    OBVIOUS
  <2> QED BY <1>3, <2>1, <2>2
<1>5. InBase(l.base, l.digits) \in Int
  BY <1>4, InBaseOnto, OntoType
<1> QED BY <1>4, <1>5

NumbersTypes ==
  /\ literal \in Literals /\ minus \in BOOLEAN
  /\ phase \in {"lex", "fold", "sign", "push", "pop", "parse", "done"}
  /\ val \in Ints /\ num \in Ints \cup {-IntMin}
  /\ s \in Seq(0 .. 9) /\ str \in [negative : BOOLEAN, digits : Seq(0 .. 9)]

\* How far the number has come.  In the loops of itostr what is left of num,
\* the digits on the stack and those in the string are together the number;
\* that they are digits of its absolute value is known unless it is IntMin.
Carried ==
  /\ phase \in {"lex", "fold", "sign"} => s = <<>> /\ str = [negative |-> FALSE, digits |-> <<>>]
  /\ phase = "fold" => val = Wrapped(Literal)
  /\ phase \notin {"lex", "fold"} => val = Value
  /\ phase = "sign" => num = val

Written ==
  /\ phase \in {"push", "pop", "parse"} => (str.negative <=> val < 0)
  /\ phase = "push" => num >= 0 /\ val # 0 /\ str.digits = <<>> /\ Onto(num, 10, s) = Abs(val)
  /\ phase = "pop" => val # 0 /\ Onto(InBase(10, str.digits), 10, s) = Abs(val)
  /\ phase = "parse" => str.digits # <<>> /\ InBase(10, str.digits) = Abs(val)
  /\ phase = "done" => parsed = [ok |-> TRUE, n |-> val]

NumbersInv == NumbersTypes /\ Carried /\ (val # IntMin => Written)

LEMMA NumbersInit == Init => NumbersInv
<1> SUFFICES ASSUME Init PROVE NumbersInv
  OBVIOUS
<1>1. NumbersTypes
  BY IntsType DEF Init, NumbersTypes
<1> QED BY <1>1 DEF Init, NumbersInv, Carried, Written

LEMMA DigitsType ==
  ASSUME NEW d \in Seq(0 .. 9)
  PROVE  d \in Seq(Int) /\ InBase(10, d) \in Int /\ InBase(10, d) = Onto(0, 10, d)
<1>1. d \in Seq(Int)
  OBVIOUS
<1> QED BY <1>1, InBaseOnto, OntoType

LEMMA NoDigits == InBase(10, <<>>) = 0 /\ InBase(10, <<0>>) = 0
<1>1. InBase(10, <<>>) = 0
  BY InBaseOnto, OntoEmpty
<1>2. Append(<<>>, 0) = <<0>> /\ <<>> \in Seq(Int)
  OBVIOUS
<1>3. Onto(0, 10, Append(<<>>, 0)) = 10 * Onto(0, 10, <<>>) + 0
  <2> PICK e, z, ten : e = <<>> /\ z = 0 /\ ten = 10
    OBVIOUS
  <2>1. e \in Seq(Int) /\ z \in Int /\ ten \in Int
    BY <1>2
  <2>2. Onto(z, ten, Append(e, z)) = ten * Onto(z, ten, e) + z
    BY ONLY <2>1, OntoAppend
  <2> QED BY <2>2
<1> QED BY <1>1, <1>2, <1>3, InBaseOnto, OntoEmpty

LEMMA StepLex == ASSUME NumbersInv, Lex PROVE NumbersInv'
<1>1. Literal \in Int /\ Literal' = Literal
  BY LiteralType DEF NumbersInv, NumbersTypes, Literal, Lex
<1>2. NumbersTypes'
  BY <1>1, WrappedIs DEF NumbersInv, NumbersTypes, Lex, Literal
<1> QED BY <1>1, <1>2 DEF NumbersInv, Carried, Written, Lex, Literal

LEMMA StepFold == ASSUME NumbersInv, Fold PROVE NumbersInv'
<1>1. Literal \in Int /\ val = Wrapped(Literal) /\ phase = "fold" /\ val \in Ints /\ minus \in BOOLEAN
  BY LiteralType DEF NumbersInv, NumbersTypes, Carried, Literal, Fold
<1>2. Value' = Value /\ Value = Wrapped(IF minus THEN -Literal ELSE Literal)
  BY DEF Value, Literal, Fold
<1>3. val' = Value
  BY <1>1, <1>2, WrappedMinus DEF Fold
<1>4. Value \in Ints
  <2>1. -Literal \in Int
    BY <1>1
  <2> QED BY <1>1, <1>2, <2>1, WrappedIs
<1>5. NumbersTypes'
  BY <1>3, <1>4 DEF NumbersInv, NumbersTypes, Fold
<1> QED BY <1>2, <1>3, <1>5 DEF NumbersInv, Carried, Written, Fold

LEMMA StepSign == ASSUME NumbersInv, Sign PROVE NumbersInv'
<1>1. /\ phase = "sign" /\ num = val /\ val \in Ints /\ val = Value /\ s = <<>>
      /\ str = [negative |-> FALSE, digits |-> <<>>] /\ val \in Int /\ IntMin <= val /\ val <= IntMax
      /\ IntMin \in Int /\ IntMax = -IntMin - 1
  BY IntsType DEF NumbersInv, NumbersTypes, Carried, Sign
<1>2. Value' = Value /\ val' = val /\ s' = s /\ literal' = literal /\ minus' = minus
  BY DEF Value, Sign
<1>3. CASE num = 0
  <2>1. phase' = "parse" /\ num' = num /\ str' = [str EXCEPT !.digits = <<0>>]
    BY <1>1, <1>3 DEF Sign
  <2>2. str' = [negative |-> FALSE, digits |-> <<0>>] /\ <<0>> \in Seq(0 .. 9) /\ <<0>> # <<>>
    <3>1. str = [negative |-> FALSE, digits |-> <<>>] /\ str' = [str EXCEPT !.digits = <<0>>]
      BY <1>1, <2>1
    <3>2. str' = [negative |-> FALSE, digits |-> <<0>>]
      BY ONLY <3>1
    <3>3. <<0>> \in Seq(0 .. 9) /\ <<0>> # <<>>
      OBVIOUS
    <3> QED BY <3>2, <3>3
  <2>3. InBase(10, <<0>>) = Abs(val)
    BY <1>1, <1>3, NoDigits DEF Abs
  <2>4. NumbersTypes'
    BY <1>2, <2>1, <2>2 DEF NumbersInv, NumbersTypes
  <2>5. Written'
    BY <1>1, <1>2, <1>3, <2>1, <2>2, <2>3 DEF Written, Abs
  <2> QED BY <1>1, <1>2, <2>1, <2>4, <2>5 DEF NumbersInv, Carried
<1>4. CASE num > 0
  <2>1. phase' = "push" /\ num' = num /\ str' = str
    BY <1>1, <1>4 DEF Sign
  <2>2. Onto(num, 10, <<>>) = Abs(val)
    BY <1>1, <1>4, OntoEmpty DEF Abs
  <2>3. NumbersTypes'
    BY <1>2, <2>1 DEF NumbersInv, NumbersTypes
  <2>4. Written'
    BY <1>1, <1>2, <1>4, <2>1, <2>2 DEF Written, Abs
  <2> QED BY <1>1, <1>2, <2>1, <2>3, <2>4 DEF NumbersInv, Carried
<1>5. CASE num < 0
  <2>1. /\ phase' = "push" /\ num' \in {Wrapped(-num), -num}
        /\ str' = [str EXCEPT !.negative = TRUE]
    BY <1>1, <1>5 DEF Sign
  <2>2. str' = [negative |-> TRUE, digits |-> <<>>] /\ <<>> \in Seq(0 .. 9)
    <3>1. str = [negative |-> FALSE, digits |-> <<>>] /\ str' = [str EXCEPT !.negative = TRUE]
      BY <1>1, <2>1
    <3>2. str' = [negative |-> TRUE, digits |-> <<>>]
      BY ONLY <3>1
    <3>3. <<>> \in Seq(0 .. 9)
      OBVIOUS
    <3> QED BY <3>2, <3>3
  <2>3. num' \in Ints \cup {-IntMin}
    <3>1. -num \in Int /\ Wrapped(-num) \in Ints
      BY <1>1, WrappedIs
    <3>2. -num \in Ints \/ -num = -IntMin
      BY <1>1, <1>5, IntsType
    <3> QED BY <2>1, <3>1, <3>2
  <2>4. NumbersTypes'
    BY <1>2, <2>1, <2>2, <2>3 DEF NumbersInv, NumbersTypes
  <2>5. ASSUME val # IntMin PROVE Written'
    <3>1. -num \in Ints
      BY <1>1, <1>5, <2>5, IntsType
    <3>2. num' = -val
      BY <1>1, <2>1, <3>1, WrappedSame
    <3>3. Onto(-val, 10, <<>>) = -val
      <4>1. -val \in Int
        BY <1>1
      <4> QED BY <4>1, OntoEmpty
    <3> QED BY <1>1, <1>2, <1>5, <2>1, <2>2, <3>2, <3>3 DEF Written, Abs
  <2> QED BY <1>1, <1>2, <2>1, <2>4, <2>5 DEF NumbersInv, Carried
<1> QED BY <1>1, <1>3, <1>4, <1>5

LEMMA StepPush == ASSUME NumbersInv, Push PROVE NumbersInv'
<1>1. /\ phase = "push" /\ NumbersTypes /\ Carried /\ val = Value
      /\ Value' = Value /\ val' = val /\ str' = str /\ literal' = literal /\ minus' = minus
      /\ num \in Int
  BY IntsType DEF NumbersInv, NumbersTypes, Carried, Push, Value
<1>2. s \in Seq(0 .. 9)
  BY <1>1 DEF NumbersTypes
<1>3. CASE num > 0
  <2>1. s' = <<num % 10>> \o s /\ num' = num \div 10 /\ phase' = phase
    BY <1>3 DEF Push, Pushed, Digit, Rest
  <2>2. /\ num % 10 \in 0 .. 9 /\ num \div 10 \in Nat /\ num = 10 * (num \div 10) + (num % 10)
        /\ num \div 10 < num
    BY <1>1, <1>3
  <2>3. s' \in Seq(0 .. 9)
    <3>1. <<num % 10>> \in Seq(0 .. 9)
      BY <2>2
    <3> QED BY ONLY <1>2, <2>1, <3>1, ConcatProperties
  <2>4. num' \in Ints
    <3>1. num <= -IntMin /\ IntMin \in Int /\ IntMin < 0
      BY <1>1, IntsType DEF NumbersTypes
    <3>2. IntMin <= num \div 10 /\ num \div 10 <= IntMax
      BY <2>2, <3>1, <1>1, IntsType
    <3> QED BY <2>1, <2>2, <3>2, IntsType
  <2>5. NumbersTypes'
    BY <1>1, <2>1, <2>3, <2>4 DEF NumbersTypes
  <2>6. Onto(num', 10, s') = Onto(num, 10, s)
    <3> PICK q, d : q = num \div 10 /\ d = num % 10
      OBVIOUS
    <3>1. q \in Int /\ d \in Int /\ 10 \in Int /\ s \in Seq(Int) /\ 10 * q + d = num
      BY <1>2, <2>2, DigitsType
    <3>2. Onto(q, 10, <<d>> \o s) = Onto(10 * q + d, 10, s)
      BY ONLY <3>1, OntoFront
    <3> QED BY <2>1, <3>1, <3>2
  <2>7. ASSUME val # IntMin PROVE Written'
    <3>1. Written
      BY <2>7 DEF NumbersInv
    <3> QED BY <1>1, <2>1, <2>2, <2>6, <3>1 DEF Written
  <2> QED BY <1>1, <2>1, <2>5, <2>7 DEF NumbersInv, Carried
<1>4. CASE ~ (num > 0)
  <2>1. phase' = "pop" /\ num' = num /\ s' = s
    BY <1>4 DEF Push
  <2>2. NumbersTypes'
    BY <1>1, <2>1 DEF NumbersTypes
  <2>3. ASSUME val # IntMin PROVE Written'
    <3>1. /\ num >= 0 /\ val # 0 /\ str.digits = <<>> /\ Onto(num, 10, s) = Abs(val)
          /\ (str.negative <=> val < 0)
      BY <1>1, <2>3 DEF NumbersInv, Written
    <3>2. num = 0
      BY <1>1, <1>4, <3>1
    <3> QED BY <1>1, <2>1, <3>1, <3>2, NoDigits DEF Written
  <2> QED BY <1>1, <2>1, <2>2, <2>3 DEF NumbersInv, Carried
<1> QED BY <1>3, <1>4

LEMMA StepPop == ASSUME NumbersInv, Pop PROVE NumbersInv'
<1>1. /\ phase = "pop" /\ NumbersTypes /\ Carried /\ val = Value /\ val \in Int
      /\ Value' = Value /\ val' = val /\ num' = num /\ literal' = literal /\ minus' = minus
  BY IntsType DEF NumbersInv, NumbersTypes, Carried, Pop, Value
<1>2. s \in Seq(0 .. 9) /\ str \in [negative : BOOLEAN, digits : Seq(0 .. 9)]
  BY <1>1 DEF NumbersTypes
<1>3. CASE s # <<>>
  <2>1. /\ s' = Tail(s) /\ phase' = phase
        /\ str' = [str EXCEPT !.digits = Append(@, Head(s))]
    BY <1>3 DEF Pop
  <2> PICK d, t, ds : d = Head(s) /\ t = Tail(s) /\ ds = str.digits
    OBVIOUS
  <2>2. d \in 0 .. 9 /\ t \in Seq(0 .. 9) /\ ds \in Seq(0 .. 9) /\ s = <<d>> \o t
    <3>1. s = <<Head(s)>> \o Tail(s) /\ Head(s) \in 0 .. 9 /\ Tail(s) \in Seq(0 .. 9)
      BY <1>2, <1>3, HeadTailProperties
    <3> QED BY <1>2, <3>1
  <2>3. /\ str'.digits = Append(ds, d) /\ str'.negative = str.negative
        /\ str' \in [negative : BOOLEAN, digits : Seq(0 .. 9)]
    <3>1. Append(ds, d) \in Seq(0 .. 9)
      BY ONLY <2>2
    <3> QED BY <1>2, <2>1, <3>1
  <2>4. NumbersTypes'
    BY <1>1, <2>1, <2>2, <2>3 DEF NumbersTypes
  <2>5. Onto(InBase(10, Append(ds, d)), 10, t) = Onto(InBase(10, ds), 10, s)
    <3> PICK n : n = InBase(10, ds)
      OBVIOUS
    <3>1. /\ ds \in Seq(Int) /\ t \in Seq(Int) /\ d \in Int /\ 10 \in Int /\ 0 \in Int
          /\ n \in Int /\ n = Onto(0, 10, ds)
      BY <2>2, DigitsType
    <3>2. Onto(0, 10, Append(ds, d)) = 10 * n + d
      BY ONLY <3>1, OntoAppend
    <3>3. Onto(n, 10, <<d>> \o t) = Onto(10 * n + d, 10, t)
      BY ONLY <3>1, OntoFront
    <3> QED BY <2>2, <3>2, <3>3, InBaseOnto
  <2>6. ASSUME val # IntMin PROVE Written'
    <3>1. Written
      BY <2>6 DEF NumbersInv
    <3> QED BY <1>1, <2>1, <2>3, <2>5, <3>1 DEF Written
  <2> QED BY <1>1, <2>1, <2>4, <2>6 DEF NumbersInv, Carried
<1>4. CASE s = <<>>
  <2>1. s' = s /\ phase' = "parse" /\ str' = str
    BY <1>4 DEF Pop
  <2>2. NumbersTypes'
    BY <1>1, <2>1 DEF NumbersTypes
  <2>3. ASSUME val # IntMin PROVE Written'
    <3>1. val # 0 /\ Onto(InBase(10, str.digits), 10, <<>>) = Abs(val) /\ (str.negative <=> val < 0)
      BY <1>1, <1>4, <2>3 DEF NumbersInv, Written
    <3>2. InBase(10, str.digits) \in Int /\ InBase(10, str.digits) = Abs(val)
      BY <1>2, <3>1, DigitsType, OntoEmpty
    <3>3. Abs(val) # 0
      BY <1>1, <3>1 DEF Abs
    <3>4. str.digits # <<>>
      BY <3>2, <3>3, NoDigits
    <3> QED BY <1>1, <2>1, <3>1, <3>2, <3>4 DEF Written
  <2> QED BY <1>1, <2>1, <2>2, <2>3 DEF NumbersInv, Carried
<1> QED BY <1>3, <1>4

LEMMA StepParse == ASSUME NumbersInv, Parse PROVE NumbersInv'
<1>1. /\ phase = "parse" /\ NumbersTypes /\ Carried /\ val = Value /\ val \in Int /\ phase' = "done"
      /\ Value' = Value /\ val' = val /\ num' = num /\ literal' = literal /\ minus' = minus
      /\ s' = s /\ str' = str
  BY IntsType DEF NumbersInv, NumbersTypes, Carried, Parse, Value
<1>2. NumbersTypes'
  BY <1>1 DEF NumbersTypes
<1>3. ASSUME val # IntMin PROVE Written'
  <2>1. str.digits # <<>> /\ InBase(10, str.digits) = Abs(val) /\ (str.negative <=> val < 0)
    BY <1>1, <1>3 DEF NumbersInv, Written
  <2>2. parsed' = [ok |-> TRUE, n |-> (IF str.negative THEN -1 ELSE 1) * Abs(val)]
    BY <2>1 DEF Parse
  <2>3. (IF str.negative THEN -1 ELSE 1) * Abs(val) = val
    BY <1>1, <2>1 DEF Abs
  <2> QED BY <1>1, <2>2, <2>3 DEF Written
<1> QED BY <1>1, <1>2, <1>3 DEF NumbersInv, Carried

LEMMA NumbersNext == NumbersInv /\ [Next]_vars => NumbersInv'
<1> SUFFICES ASSUME NumbersInv, [Next]_vars PROVE NumbersInv'
  OBVIOUS
<1>1. CASE Finished \/ UNCHANGED vars
  BY <1>1 DEF NumbersInv, NumbersTypes, Carried, Written, Literal, Value, Finished, vars
<1> QED BY <1>1, StepLex, StepFold, StepSign, StepPush, StepPop, StepParse DEF Next

\* The values of the variables: what is pushed and popped are decimal digits,
\* and num overflows at most to the absolute value of the least int.
THEOREM Typing ==
  Spec => []TypeOK
<1>1. NumbersInv => TypeOK
  BY DEF NumbersInv, NumbersTypes, TypeOK
<1> QED BY NumbersInit, NumbersNext, <1>1, PTL DEF Spec

\* Whatever the size of an int and the length of a literal, decimal, octal or
\* hexadecimal, negated or not: the number that libkoopa reads is the one that C
\* gives the program, unless it is the least int.
THEOREM NumbersArrive ==
  Spec => []NumberArrives
<1>1. NumbersInv => NumberArrives
  BY DEF NumbersInv, Carried, Written, NumberArrives
<1> QED BY NumbersInit, NumbersNext, <1>1, PTL DEF Spec
=============================================================================
