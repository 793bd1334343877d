--------------------------- MODULE ArrayInitProofs ---------------------------
(***************************************************************************)
(* Convert and the rule for initialisers put the same values into the      *)
(* same elements, in arrays of any number of dimensions.                   *)
(*                                                                         *)
(* The iterators are the digits of a number in a mixed base: the first d   *)
(* of them are the number of a subarray (Selected), all of them the offset *)
(* of an element.  By that the iterators are always at the rule's spot     *)
(* (InStep), and a call of Convert fills the subarray of the list that it  *)
(* was made for.                                                           *)
(***************************************************************************)
EXTENDS ArrayInit, Facts

IsShape(ds) == ds \in Seq(Nat \ {0}) /\ Len(ds) > 0

\* Size, Elements and Offset of an array of the dimensions ds.
SizeOf(ds, d) ==
  LET product[i \in 1 .. Len(ds) + 1] == IF i = Len(ds) + 1 THEN 1 ELSE ds[i] * product[i + 1]
  IN  product[d + 1]
ElementsOf(ds) ==
  {p \in [1 .. Len(ds) -> 0 .. Max(Range(ds)) - 1] : \A i \in 1 .. Len(ds) : p[i] < ds[i]}
OffsetOf(ds, p) ==
  LET sum[i \in 0 .. Len(ds)] == IF i = 0 THEN 0 ELSE sum[i - 1] + p[i] * SizeOf(ds, i)
  IN  sum[Len(ds)]

LEMMA Unprimed ==
  /\ \A d : Size(d) = SizeOf(dims, d)
  /\ Elements = ElementsOf(dims)
  /\ \A p : Offset(p) = OffsetOf(dims, p)
  BY DEF Size, Elements, Offset, N, SizeOf, ElementsOf, OffsetOf

LEMMA Primed ==
  /\ \A d : Size(d)' = SizeOf(dims', d)
  /\ Elements' = ElementsOf(dims')
  /\ \A p : Offset(p)' = OffsetOf(dims', p)
  BY DEF Size, Elements, Offset, N, SizeOf, ElementsOf, OffsetOf
-----------------------------------------------------------------------------
(* Sizes and places *)

LEMMA Sizes ==
  ASSUME NEW ds, IsShape(ds), NEW n \in Nat \ {0}, n = Len(ds)
  PROVE  /\ \A d \in 0 .. n : SizeOf(ds, d) \in Nat \ {0}
         /\ SizeOf(ds, n) = 1
         /\ \A d \in 1 .. n : SizeOf(ds, d - 1) = ds[d] * SizeOf(ds, d)
<1>0. \A d \in 1 .. n : ds[d] \in Nat \ {0}
  BY DEF IsShape
<1> DEFINE is(f) == f = [i \in 1 .. n + 1 |-> IF i = n + 1 THEN 1 ELSE ds[i] * f[i + 1]]
           product == CHOOSE f : is(f)
           g == [x \in (1 .. n) \X (Nat \ {0}) |-> ds[n + 1 - x[1]] * x[2]]
<1>1. g \in [(1 .. n) \X (Nat \ {0}) -> Nat \ {0}]
  <2> SUFFICES ASSUME NEW x \in (1 .. n) \X (Nat \ {0}) PROVE ds[n + 1 - x[1]] * x[2] \in Nat \ {0}
    OBVIOUS
  <2>1. n + 1 - x[1] \in 1 .. n /\ x[2] \in Nat \ {0}
    OBVIOUS
  <2>2. PICK a \in Nat \ {0}, b \in Nat \ {0} : a = ds[n + 1 - x[1]] /\ b = x[2]
    BY <1>0, <2>1
  <2>3. a * b \in Nat \ {0}
    OBVIOUS
  <2> QED BY <2>2, <2>3
<1>2. PICK f \in [0 .. n -> Nat \ {0}] : f[0] = 1 /\ \A i \in 1 .. n : f[i] = g[<<i, f[i - 1]>>]
  <2> HIDE DEF g
  <2>1. PICK T : T = Nat \ {0}
    OBVIOUS
  <2>2. n \in Nat /\ 1 \in T /\ g \in [(1 .. n) \X T -> T]
    BY <1>1, <2>1
  <2>3. \E f \in [0 .. n -> T] : Iterates(f, n, 1, g)
    BY <2>2, Iterated
  <2> QED BY <2>1, <2>3 DEF Iterates
<1>3. \A i \in 1 .. n : f[i] = ds[n + 1 - i] * f[i - 1]
  <2> SUFFICES ASSUME NEW i \in 1 .. n PROVE f[i] = ds[n + 1 - i] * f[i - 1]
    OBVIOUS
  <2>1. i - 1 \in 0 .. n
    OBVIOUS
  <2>2. <<i, f[i - 1]>> \in (1 .. n) \X (Nat \ {0})
    BY <2>1
  <2> QED BY <1>2, <2>2
<1>4. \E h : is(h)
  <2> DEFINE h == [i \in 1 .. n + 1 |-> f[n + 1 - i]]
  <2>1. ASSUME NEW i \in 1 .. n + 1 PROVE h[i] = IF i = n + 1 THEN 1 ELSE ds[i] * h[i + 1]
    <3>1. CASE i = n + 1
      BY <3>1, <1>2
    <3>2. CASE i # n + 1
      <4>1. n + 1 - i \in 1 .. n /\ n + 1 - (n + 1 - i) = i /\ i + 1 \in 1 .. n + 1
            /\ n + 1 - i - 1 = n + 1 - (i + 1)
        BY <3>2
      <4>2. f[n + 1 - i] = ds[i] * f[n + 1 - (i + 1)]
        <5>1. PICK j \in 1 .. n : j = n + 1 - i
          BY <4>1
        <5>2. f[j] = ds[n + 1 - j] * f[j - 1]
          BY <1>3
        <5>3. n + 1 - j = i /\ j - 1 = n + 1 - (i + 1)
          BY <5>1
        <5> QED BY <5>1, <5>2, <5>3
      <4>3. h[i] = f[n + 1 - i] /\ h[i + 1] = f[n + 1 - (i + 1)]
        BY <4>1
      <4> QED BY <3>2, <4>2, <4>3
    <3> QED BY <3>1, <3>2
  <2>2. h = [i \in 1 .. n + 1 |-> h[i]]
    OBVIOUS
  <2> HIDE DEF h
  <2>3. is(h)
    BY <2>1, <2>2
  <2> HIDE DEF is
  <2> QED BY <2>3
<1>5. is(product)
  <2> HIDE DEF is
  <2> QED BY <1>4
<1>6. \A d : SizeOf(ds, d) = product[d + 1]
  BY DEF SizeOf
<1> HIDE DEF product
<1>7. \A i \in 1 .. n + 1 : product[i] = IF i = n + 1 THEN 1 ELSE ds[i] * product[i + 1]
  BY <1>5
<1> HIDE DEF is, g
<1>8. SizeOf(ds, n) = 1
  BY <1>6, <1>7
<1>9. ASSUME NEW d \in 1 .. n PROVE SizeOf(ds, d - 1) = ds[d] * SizeOf(ds, d)
  <2>1. d \in 1 .. n + 1 /\ d # n + 1 /\ d - 1 + 1 = d
    OBVIOUS
  <2> QED BY <1>6, <1>7, <2>1
<1>10. \A d \in 0 .. n : SizeOf(ds, d) \in Nat \ {0}
  <2> DEFINE S == {i \in 0 .. n : SizeOf(ds, n - i) \in Nat \ {0}}
  <2>1. 0 \in S
    BY <1>8
  <2>2. ASSUME NEW i \in 0 .. n - 1, i \in S PROVE i + 1 \in S
    <3>1. n - i \in 1 .. n /\ n - i - 1 = n - (i + 1) /\ i + 1 \in 0 .. n
      OBVIOUS
    <3>2. SizeOf(ds, n - (i + 1)) = ds[n - i] * SizeOf(ds, n - i)
      BY <1>9, <3>1
    <3>3. PICK a \in Nat \ {0}, b \in Nat \ {0} : a = ds[n - i] /\ b = SizeOf(ds, n - i)
      BY <1>0, <2>2, <3>1
    <3>4. a * b \in Nat \ {0}
      OBVIOUS
    <3> QED BY <3>1, <3>2, <3>3, <3>4
  <2> HIDE DEF S
  <2>3. \A i \in 0 .. n : i \in S
    BY <2>1, <2>2, Climb
  <2> SUFFICES ASSUME NEW d \in 0 .. n PROVE SizeOf(ds, d) \in Nat \ {0}
    OBVIOUS
  <2>4. n - d \in 0 .. n /\ n - (n - d) = d
    OBVIOUS
  <2>5. n - d \in S
    BY <2>3, <2>4
  <2> QED BY <2>4, <2>5 DEF S
<1> QED BY <1>8, <1>9, <1>10

\* An element has an index below its dimension in each dimension.
LEMMA ElementsAre ==
  ASSUME NEW ds, IsShape(ds), NEW n \in Nat \ {0}, n = Len(ds)
  PROVE  \A p : p \in ElementsOf(ds) <=> p \in [1 .. n -> Nat] /\ \A i \in 1 .. n : p[i] < ds[i]
<1>0. ds \in [1 .. n -> Nat \ {0}]
  BY DEF IsShape
<1> DEFINE S == {m \in 1 .. n : \E i \in 1 .. m : \A j \in 1 .. m : ds[j] <= ds[i]}
<1>1. 1 \in S
  BY <1>0
<1>2. ASSUME NEW m \in 1 .. n - 1, m \in S PROVE m + 1 \in S
  <2>1. PICK i \in 1 .. m : \A j \in 1 .. m : ds[j] <= ds[i]
    BY <1>2
  <2>2. m + 1 \in 1 .. n /\ ds[m + 1] \in Nat /\ ds[i] \in Nat
    BY <1>0
  <2>3. CASE ds[m + 1] <= ds[i]
    BY <2>1, <2>2, <2>3
  <2>4. CASE ~ (ds[m + 1] <= ds[i])
    <3>1. \A j \in 1 .. m + 1 : ds[j] <= ds[m + 1]
      <4> SUFFICES ASSUME NEW j \in 1 .. m + 1 PROVE ds[j] <= ds[m + 1]
        OBVIOUS
      <4>1. ds[j] \in Nat
        BY <1>0
      <4> QED BY <2>1, <2>2, <2>4, <4>1
    <3> QED BY <2>2, <3>1
  <2> QED BY <2>3, <2>4
<1> HIDE DEF S
<1>3. \A m \in 1 .. n : m \in S
  BY <1>1, <1>2, Climb
<1>4. n \in S
  BY <1>3
<1>5. PICK i \in 1 .. n : \A j \in 1 .. n : ds[j] <= ds[i]
  BY <1>4 DEF S
<1>6. Range(ds) = {ds[j] : j \in 1 .. n}
  BY <1>0 DEF Range
<1>7. \E x \in Range(ds) : \A y \in Range(ds) : x >= y
  BY <1>0, <1>5, <1>6
<1>8. Max(Range(ds)) \in Range(ds) /\ \A y \in Range(ds) : Max(Range(ds)) >= y
  BY <1>7 DEF Max
<1>9. Max(Range(ds)) \in Nat /\ \A j \in 1 .. n : ds[j] \in Nat /\ ds[j] <= Max(Range(ds))
  BY <1>0, <1>6, <1>8
<1>10. ASSUME NEW p, p \in [1 .. n -> Nat], \A j \in 1 .. n : p[j] < ds[j]
       PROVE  p \in [1 .. n -> 0 .. Max(Range(ds)) - 1]
  <2> SUFFICES ASSUME NEW j \in 1 .. n PROVE p[j] \in 0 .. Max(Range(ds)) - 1
    BY <1>10
  <2>1. p[j] \in Nat /\ p[j] < ds[j] /\ ds[j] <= Max(Range(ds))
    BY <1>9, <1>10
  <2> QED BY <1>9, <2>1
<1> QED BY <1>10 DEF ElementsOf

\* The place of an element is a sum.
Sum(n, c) == CHOOSE h : h = [i \in 0 .. n |-> IF i = 0 THEN 0 ELSE h[i - 1] + c[i]]
IsSum(f, n, c) ==
  f \in [0 .. n -> Nat] /\ f[0] = 0 /\ \A i \in 1 .. n : f[i] = f[i - 1] + c[i]
LEMMA Sums ==
  ASSUME NEW n \in Nat, NEW c \in [1 .. n -> Nat], NEW f, f = Sum(n, c)
  PROVE  IsSum(f, n, c)
<1> DEFINE is(h) == h = [i \in 0 .. n |-> IF i = 0 THEN 0 ELSE h[i - 1] + c[i]]
           g == [x \in (1 .. n) \X Nat |-> x[2] + c[x[1]]]
<1>1. g \in [(1 .. n) \X Nat -> Nat]
  OBVIOUS
<1>2. PICK h \in [0 .. n -> Nat] : h[0] = 0 /\ \A i \in 1 .. n : h[i] = g[<<i, h[i - 1]>>]
  <2> HIDE DEF g
  <2>1. 0 \in Nat
    OBVIOUS
  <2>2. \E e \in [0 .. n -> Nat] : Iterates(e, n, 0, g)
    BY <1>1, <2>1, Iterated
  <2> QED BY <2>2 DEF Iterates
<1>3. \A i \in 1 .. n : i - 1 \in 0 .. n /\ h[i] = h[i - 1] + c[i]
  <2> SUFFICES ASSUME NEW i \in 1 .. n PROVE i - 1 \in 0 .. n /\ h[i] = h[i - 1] + c[i]
    OBVIOUS
  <2>1. i - 1 \in 0 .. n
    OBVIOUS
  <2>2. <<i, h[i - 1]>> \in (1 .. n) \X Nat
    BY <2>1
  <2> QED BY <1>2, <2>1, <2>2
<1>4. is(h)
  <2>1. \A i \in 0 .. n : h[i] = IF i = 0 THEN 0 ELSE h[i - 1] + c[i]
    BY <1>2, <1>3
  <2>2. h = [i \in 0 .. n |-> h[i]]
    OBVIOUS
  <2> QED BY <2>1, <2>2
<1>5. is(f)
  <2>1. f = CHOOSE e : is(e)
    BY DEF Sum
  <2> HIDE DEF is
  <2> QED BY <1>4, <2>1
<1>6. \A i \in 0 .. n : f[i] = IF i = 0 THEN 0 ELSE f[i - 1] + c[i]
  <2>1. f = [i \in 0 .. n |-> IF i = 0 THEN 0 ELSE f[i - 1] + c[i]]
    BY <1>5
  <2> QED BY ONLY <2>1
<1>7. \A i \in 1 .. n : f[i] = f[i - 1] + c[i]
  BY <1>6
<1> DEFINE S == {i \in 0 .. n : f[i] \in Nat}
<1>8. 0 \in S
  BY <1>6
<1>9. ASSUME NEW i \in 0 .. n - 1, i \in S PROVE i + 1 \in S
  <2>1. i + 1 \in 1 .. n /\ i + 1 - 1 = i /\ i + 1 \in 0 .. n
    OBVIOUS
  <2>2. f[i + 1] = f[i] + c[i + 1] /\ f[i] \in Nat /\ c[i + 1] \in Nat
    <3>1. PICK k \in 1 .. n : k = i + 1
      BY <2>1
    <3>2. f[k] = f[k - 1] + c[k] /\ c[k] \in Nat
      BY <1>7
    <3>3. k - 1 = i
      BY <3>1
    <3> QED BY <1>9, <3>1, <3>2, <3>3
  <2> QED BY <2>1, <2>2
<1>10. \A i \in 0 .. n : i \in S
  <2> HIDE DEF S
  <2> QED BY <1>8, <1>9, Climb
<1>11. f = [i \in 0 .. n |-> f[i]]
  BY <1>5
<1>12. f \in [0 .. n -> Nat]
  BY <1>10, <1>11
<1> QED BY <1>6, <1>7, <1>12 DEF IsSum

\* h[d] is the number of the subarray that the first d indices of p select,
\* counted among all such subarrays.
Selects(ds, p, h) ==
  /\ h \in [0 .. Len(ds) -> Nat] /\ h[0] = 0
  /\ \A i \in 1 .. Len(ds) : h[i] = h[i - 1] * ds[i] + p[i]
Selected(ds, p) == CHOOSE h : Selects(ds, p, h)

LEMMA SelectedIs ==
  ASSUME NEW ds, IsShape(ds), NEW p \in ElementsOf(ds)
  PROVE  Selects(ds, p, Selected(ds, p))
<1>1. PICK n \in Nat \ {0} : n = Len(ds)
  BY DEF IsShape
<1>2. p \in [1 .. n -> Nat] /\ \A i \in 1 .. n : ds[i] \in Nat
  BY <1>1, ElementsAre DEF IsShape
<1> DEFINE g == [x \in (1 .. n) \X Nat |-> x[2] * ds[x[1]] + p[x[1]]]
<1>3. g \in [(1 .. n) \X Nat -> Nat]
  <2> SUFFICES ASSUME NEW x \in (1 .. n) \X Nat PROVE x[2] * ds[x[1]] + p[x[1]] \in Nat
    OBVIOUS
  <2>1. PICK a \in Nat, b \in Nat, c \in Nat : a = x[2] /\ b = ds[x[1]] /\ c = p[x[1]]
    BY <1>2
  <2>2. a * b + c \in Nat
    OBVIOUS
  <2> QED BY <2>1, <2>2
<1>4. PICK h \in [0 .. n -> Nat] : h[0] = 0 /\ \A i \in 1 .. n : h[i] = g[<<i, h[i - 1]>>]
  <2> HIDE DEF g
  <2>1. 0 \in Nat
    OBVIOUS
  <2>2. \E e \in [0 .. n -> Nat] : Iterates(e, n, 0, g)
    BY <1>3, <2>1, Iterated
  <2> QED BY <2>2 DEF Iterates
<1>5. ASSUME NEW i \in 1 .. n PROVE h[i] = h[i - 1] * ds[i] + p[i]
  <2>1. i - 1 \in 0 .. n
    OBVIOUS
  <2>2. <<i, h[i - 1]>> \in (1 .. n) \X Nat
    BY <2>1
  <2> QED BY <1>4, <2>2
<1>6. Selects(ds, p, h)
  BY <1>1, <1>4, <1>5 DEF Selects
<1> QED BY <1>6 DEF Selected

LEMMA Algebra ==
  ASSUME NEW a \in Nat, NEW b \in Nat, NEW c \in Nat, NEW d \in Nat
  PROVE  /\ (a * b + c) * d = a * (b * d) + c * d
         /\ (a * b + c + 1) * d = a * (b * d) + (c + 1) * d
         /\ (a + 1) * (b * d) = a * (b * d) + b * d
         /\ c < b => (c + 1) * d <= b * d
         /\ c * d \in Nat /\ b * d \in Nat /\ a * (b * d) \in Nat
<1>1. (a * b + c) * d = a * (b * d) + c * d
  OBVIOUS
<1>2. (a * b + c + 1) * d = a * (b * d) + (c + 1) * d
  OBVIOUS
<1>3. (a + 1) * (b * d) = a * (b * d) + b * d
  OBVIOUS
<1>4. ASSUME c < b PROVE (c + 1) * d <= b * d
  <2>1. PICK e \in Nat : b = c + 1 + e
    <3>1. b - (c + 1) \in Nat /\ b = c + 1 + (b - (c + 1))
      BY <1>4
    <3> QED BY <3>1
  <2>2. (c + 1 + e) * d = (c + 1) * d + e * d /\ e * d \in Nat /\ (c + 1) * d \in Nat
    OBVIOUS
  <2> QED BY <2>1, <2>2
<1>5. c * d \in Nat /\ b * d \in Nat /\ a * (b * d) \in Nat
  OBVIOUS
<1> QED BY <1>1, <1>2, <1>3, <1>4, <1>5

\* The offset of an element, and the subarrays that it lies in: those that
\* fewer indices select are larger.
LEMMA Places ==
  ASSUME NEW ds, IsShape(ds), NEW n \in Nat \ {0}, n = Len(ds),
         NEW p \in ElementsOf(ds), NEW h, h = Selected(ds, p)
  PROVE  /\ h \in [0 .. n -> Nat]
         /\ OffsetOf(ds, p) = h[n]
         /\ \A d \in 0 .. n : \A e \in d .. n :
              /\ h[d] * SizeOf(ds, d) <= h[e] * SizeOf(ds, e)
              /\ (h[e] + 1) * SizeOf(ds, e) <= (h[d] + 1) * SizeOf(ds, d)
<1>1. /\ h \in [0 .. n -> Nat] /\ h[0] = 0
      /\ \A i \in 1 .. n : h[i] = h[i - 1] * ds[i] + p[i]
  BY SelectedIs DEF Selects
<1>2. p \in [1 .. n -> Nat] /\ \A i \in 1 .. n : p[i] < ds[i] /\ ds[i] \in Nat
  BY ElementsAre DEF IsShape
<1>3. /\ \A d \in 0 .. n : SizeOf(ds, d) \in Nat
      /\ SizeOf(ds, n) = 1
      /\ \A d \in 1 .. n : SizeOf(ds, d - 1) = ds[d] * SizeOf(ds, d)
  BY Sizes
<1>4. OffsetOf(ds, p) = h[n]
  <2> DEFINE c == [i \in 1 .. n |-> p[i] * SizeOf(ds, i)]
             f == CHOOSE e : e = [i \in 0 .. n |-> IF i = 0 THEN 0 ELSE e[i - 1] + p[i] * SizeOf(ds, i)]
             k == Sum(n, c)
  <2>1. OffsetOf(ds, p) = f[n]
    BY DEF OffsetOf
  <2>2. f = k
    <3>1. ASSUME NEW e
          PROVE  [i \in 0 .. n |-> IF i = 0 THEN 0 ELSE e[i - 1] + p[i] * SizeOf(ds, i)]
                   = [i \in 0 .. n |-> IF i = 0 THEN 0 ELSE e[i - 1] + c[i]]
      <4>1. \A i \in 0 .. n : i # 0 => c[i] = p[i] * SizeOf(ds, i)
        OBVIOUS
      <4> HIDE DEF c
      <4> QED BY <4>1
    <3> HIDE DEF c
    <3> QED BY <3>1, Zenon DEF Sum
  <2>3. c \in [1 .. n -> Nat]
    <3> SUFFICES ASSUME NEW i \in 1 .. n PROVE p[i] * SizeOf(ds, i) \in Nat
      OBVIOUS
    <3>0. p[i] \in Nat /\ SizeOf(ds, i) \in Nat
      <4>1. p[i] \in Nat
        BY <1>2
      <4>2. i \in 0 .. n
        OBVIOUS
      <4>3. SizeOf(ds, i) \in Nat
        BY <1>3, <4>2, Zenon
      <4> QED BY <4>1, <4>3
    <3>1. PICK a \in Nat, b \in Nat : a = p[i] /\ b = SizeOf(ds, i)
      BY <3>0
    <3>2. a * b \in Nat
      OBVIOUS
    <3> QED BY <3>1, <3>2
  <2>4. \A i \in 1 .. n : c[i] = p[i] * SizeOf(ds, i)
    OBVIOUS
  <2> HIDE DEF c
  <2>5. PICK s : s = k
    OBVIOUS
  <2>6. /\ s \in [0 .. n -> Nat] /\ s[0] = 0
        /\ \A i \in 1 .. n : s[i] = s[i - 1] + c[i]
    <3> HIDE DEF f
    <3>1. n \in Nat /\ s = Sum(n, c)
      BY <2>5
    <3>2. IsSum(s, n, c)
      BY <2>3, <3>1, Sums, Zenon
    <3> QED BY <3>2 DEF IsSum
  <2> DEFINE S == {i \in 0 .. n : s[i] = h[i] * SizeOf(ds, i)}
  <2>7. 0 \in S
    BY <1>1, <1>3, <2>6
  <2>8. ASSUME NEW i \in 0 .. n - 1, i \in S PROVE i + 1 \in S
    <3>1. i + 1 \in 1 .. n /\ i + 1 - 1 = i /\ i \in 0 .. n
      OBVIOUS
    <3>0. h[i] \in Nat /\ ds[i + 1] \in Nat /\ p[i + 1] \in Nat /\ SizeOf(ds, i + 1) \in Nat
      <4>1. SizeOf(ds, i + 1) \in Nat
        <5>1. i + 1 \in 0 .. n
          BY <3>1
        <5> QED BY <1>3, <5>1, Zenon
      <4>2. h[i] \in Nat
        BY <1>1, <3>1
      <4>3. ds[i + 1] \in Nat /\ p[i + 1] \in Nat
        BY <1>2, <3>1
      <4> QED BY <4>1, <4>2, <4>3
    <3>2. PICK a \in Nat, b \in Nat, q \in Nat, v \in Nat :
            a = h[i] /\ b = ds[i + 1] /\ q = p[i + 1] /\ v = SizeOf(ds, i + 1)
      BY <3>0
    <3>3. s[i + 1] = s[i] + q * v /\ SizeOf(ds, i) = b * v /\ h[i + 1] = a * b + q
      <4>1. s[i + 1] = s[i] + c[i + 1] /\ c[i + 1] = p[i + 1] * SizeOf(ds, i + 1)
        BY <2>4, <2>6, <3>1
      <4> QED BY <1>1, <1>3, <3>1, <3>2, <4>1
    <3>5. s[i] = a * SizeOf(ds, i)
      BY <2>8, <3>2
    <3>4. (a * b + q) * v = a * (b * v) + q * v
      OBVIOUS
    <3>6. s[i + 1] = a * (b * v) + q * v
      BY <3>3, <3>5
    <3>7. h[i + 1] * SizeOf(ds, i + 1) = (a * b + q) * v
      BY <3>2, <3>3
    <3>8. i + 1 \in 0 .. n
      BY <3>1
    <3> QED BY <3>4, <3>6, <3>7, <3>8
  <2>9. \A i \in 0 .. n : i \in S
    <3> HIDE DEF S
    <3> QED BY <2>7, <2>8, Climb
  <2>10. s[n] = h[n] * 1 /\ h[n] \in Nat
    BY <1>1, <1>3, <2>9
  <2>11. s[n] = h[n]
    BY <2>10
  <2> QED BY <2>1, <2>2, <2>5, <2>11
<1>5. ASSUME NEW d \in 0 .. n, NEW e \in d .. n
      PROVE  /\ h[d] * SizeOf(ds, d) <= h[e] * SizeOf(ds, e)
             /\ (h[e] + 1) * SizeOf(ds, e) <= (h[d] + 1) * SizeOf(ds, d)
  <2>0. PICK lo, hi : lo = h[d] * SizeOf(ds, d) /\ hi = (h[d] + 1) * SizeOf(ds, d)
    OBVIOUS
  <2>1. lo \in Nat /\ hi \in Nat
    <3>1. PICK a \in Nat, v \in Nat : a = h[d] /\ v = SizeOf(ds, d)
      BY <1>1, <1>3
    <3>2. a * v \in Nat /\ (a + 1) * v \in Nat
      OBVIOUS
    <3> QED BY <2>0, <3>1, <3>2
  <2> DEFINE S == {i \in d .. n : lo <= h[i] * SizeOf(ds, i) /\ (h[i] + 1) * SizeOf(ds, i) <= hi}
  <2>2. d \in S
    BY <2>0, <2>1
  <2>3. ASSUME NEW i \in d .. n - 1, i \in S PROVE i + 1 \in S
    <3>1. i + 1 \in 1 .. n /\ i + 1 - 1 = i /\ i \in 0 .. n /\ i + 1 \in d .. n
      OBVIOUS
    <3>0. h[i] \in Nat /\ ds[i + 1] \in Nat /\ p[i + 1] \in Nat /\ SizeOf(ds, i + 1) \in Nat
      <4>1. SizeOf(ds, i + 1) \in Nat
        <5>1. i + 1 \in 0 .. n
          BY <3>1
        <5> QED BY <1>3, <5>1, Zenon
      <4>2. h[i] \in Nat
        BY <1>1, <3>1
      <4>3. ds[i + 1] \in Nat /\ p[i + 1] \in Nat
        BY <1>2, <3>1
      <4> QED BY <4>1, <4>2, <4>3
    <3>2. PICK a \in Nat, b \in Nat, q \in Nat, v \in Nat :
            a = h[i] /\ b = ds[i + 1] /\ q = p[i + 1] /\ v = SizeOf(ds, i + 1)
      BY <3>0
    <3>3. SizeOf(ds, i) = b * v /\ h[i + 1] = a * b + q /\ q < b
      BY <1>1, <1>2, <1>3, <3>1, <3>2
    <3>4. lo <= a * (b * v) /\ (a + 1) * (b * v) <= hi
      BY <2>3, <3>1, <3>2, <3>3
    <3>5. lo <= (a * b + q) * v /\ (a * b + q + 1) * v <= hi
      BY <2>1, <3>3, <3>4, Algebra
    <3> QED BY <3>1, <3>2, <3>3, <3>5
  <2>4. \A i \in d .. n : i \in S
    <3> HIDE DEF S
    <3>1. d \in Nat /\ n \in Nat
      OBVIOUS
    <3> QED BY <2>2, <2>3, <3>1, Climb
  <2> QED BY <2>0, <2>4
<1> QED BY <1>1, <1>4, <1>5

LEMMA Division ==
  ASSUME NEW a \in Nat, NEW b \in Nat, NEW v \in Nat \ {0}, NEW c \in Nat, NEW d \in Nat
  PROVE  /\ a * v <= c /\ c < (a + 1) * v /\ b * v <= c /\ c < (b + 1) * v => a = b
         /\ a * v + c = b * v + d /\ c < v /\ d < v => a = b /\ c = d
         /\ a * v <= c /\ c < (a + 1) * v => (c % v = 0 <=> c = a * v)
         /\ (a * v) % v = 0
         /\ a < b => (a + 1) * v <= b * v
<1>1. ASSUME NEW x \in Nat, NEW y \in Nat, x < y PROVE (x + 1) * v <= y * v
  <2>1. PICK e \in Nat : y = x + 1 + e
    <3>1. y - (x + 1) \in Nat /\ y = x + 1 + (y - (x + 1))
      BY <1>1
    <3> QED BY <3>1
  <2>2. (x + 1 + e) * v = (x + 1) * v + e * v /\ e * v \in Nat /\ (x + 1) * v \in Nat
    OBVIOUS
  <2> QED BY <2>1, <2>2
<1>2. a * v \in Nat /\ b * v \in Nat /\ (a + 1) * v = a * v + v /\ (b + 1) * v = b * v + v
  OBVIOUS
<1>3. ASSUME NEW x \in Nat, a * v <= x, x < (a + 1) * v, b * v <= x, x < (b + 1) * v PROVE a = b
  <2>1. ~ (a < b) /\ ~ (b < a)
    BY <1>1, <1>2, <1>3
  <2> QED BY <2>1
<1>4. ASSUME a * v + c = b * v + d, c < v, d < v PROVE a = b /\ c = d
  <2>1. a = b
    <3>1. /\ a * v + c \in Nat /\ a * v <= a * v + c /\ a * v + c < (a + 1) * v
          /\ b * v <= a * v + c /\ a * v + c < (b + 1) * v
      BY <1>2, <1>4
    <3> QED BY <1>3, <3>1
  <2> QED BY <1>2, <1>4, <2>1
<1>5. ASSUME a * v <= c, c < (a + 1) * v PROVE c % v = 0 <=> c = a * v
  <2>1. PICK q \in Int, r \in 0 .. v - 1 : q = c \div v /\ r = c % v
    OBVIOUS
  <2>2. c = v * q + r
    BY <2>1
  <2>3. q \in Nat
    BY <2>2
  <2>4. PICK k \in Nat : k = q
    BY <2>3
  <2>5. c = k * v + r /\ c = a * v + (c - a * v) /\ c - a * v \in Nat /\ c - a * v < v
    BY <2>2, <2>4, <1>2, <1>5
  <2>6. ASSUME NEW e \in Nat, e = c - a * v PROVE k = a /\ r = e
    <3>1. a * v + e = k * v + r /\ e < v /\ r < v /\ r \in Nat
      BY <2>5, <2>6, <1>2
    <3>2. ~ (a < k)
      <4>1. a < k => (a + 1) * v <= k * v
        BY <1>1
      <4>2. k * v \in Nat
        OBVIOUS
      <4> QED BY <3>1, <4>1, <4>2, <1>2
    <3>3. ~ (k < a)
      <4>1. k < a => (k + 1) * v <= a * v
        BY <1>1
      <4>2. k * v \in Nat /\ (k + 1) * v = k * v + v
        OBVIOUS
      <4> QED BY <3>1, <4>1, <4>2, <1>2
    <3>4. k = a
      BY <3>2, <3>3
    <3> QED BY <3>1, <3>4, <1>2
  <2>7. r = c - a * v
    BY <2>5, <2>6
  <2> QED BY <2>1, <2>7, <1>2
<1>6. (a * v) % v = 0
  <2>1. PICK c0 \in Nat : c0 = a * v
    BY <1>2
  <2>2. PICK q \in Int, r \in 0 .. v - 1 : q = c0 \div v /\ r = c0 % v
    OBVIOUS
  <2>3. c0 = v * q + r
    BY <2>2
  <2>4. q \in Nat
    BY <2>3
  <2>5. PICK k \in Nat : k = q
    BY <2>4
  <2>6. a * v = k * v + r /\ k * v \in Nat /\ (k + 1) * v = k * v + v
    BY <2>1, <2>3, <2>5
  <2>7. ~ (a < k) /\ ~ (k < a)
    <3>1. a < k => (a + 1) * v <= k * v
      BY <1>1
    <3>2. k < a => (k + 1) * v <= a * v
      BY <1>1
    <3> QED BY <3>1, <3>2, <2>6, <1>2
  <2>8. k = a
    BY <2>7
  <2> QED BY <2>1, <2>2, <2>6, <2>8, <1>2
<1> QED BY <1>1, <1>3, <1>4, <1>5, <1>6

\* The elements of a subarray have the indices that select it.
Agree(p, q, d) == \A i \in 1 .. d : p[i] = q[i]
LEMMA SameSubarray ==
  ASSUME NEW ds, IsShape(ds), NEW n \in Nat \ {0}, n = Len(ds),
         NEW p \in ElementsOf(ds), NEW q \in ElementsOf(ds),
         NEW h, h = Selected(ds, p), NEW k, k = Selected(ds, q)
  PROVE  \A d \in 0 .. n : h[d] = k[d] <=> Agree(p, q, d)
<1>1. /\ h \in [0 .. n -> Nat] /\ h[0] = 0
      /\ \A i \in 1 .. n : h[i] = h[i - 1] * ds[i] + p[i]
  BY SelectedIs DEF Selects
<1>2. /\ k \in [0 .. n -> Nat] /\ k[0] = 0
      /\ \A i \in 1 .. n : k[i] = k[i - 1] * ds[i] + q[i]
  BY SelectedIs DEF Selects
<1>3. /\ p \in [1 .. n -> Nat] /\ \A i \in 1 .. n : p[i] < ds[i]
      /\ q \in [1 .. n -> Nat] /\ \A i \in 1 .. n : q[i] < ds[i] /\ ds[i] \in Nat \ {0}
  BY ElementsAre DEF IsShape
<1> DEFINE S == {d \in 0 .. n : h[d] = k[d] <=> \A i \in 1 .. d : p[i] = q[i]}
<1>4. 0 \in S
  BY <1>1, <1>2
<1>5. ASSUME NEW d \in 0 .. n - 1, d \in S PROVE d + 1 \in S
  <2>1. d + 1 \in 1 .. n /\ d + 1 - 1 = d /\ d \in 0 .. n /\ d + 1 \in 0 .. n
    OBVIOUS
  <2>2. h[d] \in Nat /\ k[d] \in Nat
    BY <1>1, <1>2, <2>1
  <2>3. p[d + 1] \in Nat /\ q[d + 1] \in Nat /\ ds[d + 1] \in Nat \ {0}
        /\ p[d + 1] < ds[d + 1] /\ q[d + 1] < ds[d + 1]
    BY <1>3, <2>1
  <2>4. h[d + 1] = h[d] * ds[d + 1] + p[d + 1] /\ k[d + 1] = k[d] * ds[d + 1] + q[d + 1]
    BY <1>1, <1>2, <2>1
  <2>5. h[d + 1] = k[d + 1] <=> h[d] = k[d] /\ p[d + 1] = q[d + 1]
    <3>1. h[d + 1] = k[d + 1] => h[d] = k[d] /\ p[d + 1] = q[d + 1]
      <4> HIDE DEF S
      <4>1. PICK a \in Nat, b \in Nat, v \in Nat \ {0}, c \in Nat, e \in Nat :
              a = h[d] /\ b = k[d] /\ v = ds[d + 1] /\ c = p[d + 1] /\ e = q[d + 1]
        BY <2>2, <2>3
      <4>2. a * v + c = b * v + e /\ c < v /\ e < v => a = b /\ c = e
        BY Division
      <4> QED BY <2>3, <2>4, <4>1, <4>2
    <3> QED BY <3>1, <2>4
  <2>6. (\A i \in 1 .. d + 1 : p[i] = q[i]) <=> (\A i \in 1 .. d : p[i] = q[i]) /\ p[d + 1] = q[d + 1]
    OBVIOUS
  <2>7. h[d] = k[d] <=> \A i \in 1 .. d : p[i] = q[i]
    BY <1>5
  <2> QED BY <2>1, <2>5, <2>6, <2>7
<1> HIDE DEF S
<1>6. \A d \in 0 .. n : d \in S
  BY <1>4, <1>5, Climb
<1> QED BY <1>6 DEF S, Agree

LEMMA Subarray ==
  ASSUME NEW ds, IsShape(ds), NEW n \in Nat \ {0}, n = Len(ds),
         NEW p \in ElementsOf(ds), NEW d \in 0 .. n,
         NEW h, h = Selected(ds, p)
  PROVE  /\ OffsetOf(ds, p) \in Nat /\ OffsetOf(ds, p) < SizeOf(ds, 0)
         /\ h[d] \in Nat
         /\ h[d] * SizeOf(ds, d) <= OffsetOf(ds, p)
         /\ OffsetOf(ds, p) < (h[d] + 1) * SizeOf(ds, d)
         /\ \A k \in Nat : k * SizeOf(ds, d) <= OffsetOf(ds, p) /\ OffsetOf(ds, p) < (k + 1) * SizeOf(ds, d)
                          => h[d] = k
<1>1. /\ h \in [0 .. n -> Nat] /\ OffsetOf(ds, p) = h[n]
      /\ \A a \in 0 .. n : \A e \in a .. n :
           /\ h[a] * SizeOf(ds, a) <= h[e] * SizeOf(ds, e)
           /\ (h[e] + 1) * SizeOf(ds, e) <= (h[a] + 1) * SizeOf(ds, a)
  BY Places
<1>2. h[0] = 0 /\ n \in 0 .. n /\ 0 \in 0 .. n
  BY SelectedIs DEF Selects
<1>3. /\ SizeOf(ds, d) \in Nat \ {0} /\ SizeOf(ds, 0) \in Nat \ {0} /\ SizeOf(ds, n) = 1
  BY <1>2, Sizes
<1>4. PICK a \in Nat, c \in Nat, v \in Nat \ {0}, w \in Nat \ {0} :
        a = h[d] /\ c = h[n] /\ v = SizeOf(ds, d) /\ w = SizeOf(ds, 0)
  BY <1>1, <1>2, <1>3
<1>5. a * v <= c * 1 /\ (c + 1) * 1 <= (a + 1) * v
  <2>1. n \in d .. n
    OBVIOUS
  <2> QED BY <1>1, <1>3, <1>4, <2>1
<1>6. (c + 1) * 1 <= (0 + 1) * w
  <2>1. n \in 0 .. n
    OBVIOUS
  <2>2. (h[n] + 1) * SizeOf(ds, n) <= (h[0] + 1) * SizeOf(ds, 0)
    BY <1>1, <1>2, <2>1
  <2> QED BY <1>2, <1>3, <1>4, <2>2
<1>7. a * v \in Nat /\ (a + 1) * v \in Nat
  OBVIOUS
<1>8. a * v <= c /\ c < (a + 1) * v /\ c < w
  BY <1>5, <1>6, <1>7
<1>9. ASSUME NEW k \in Nat, k * v <= c, c < (k + 1) * v PROVE a = k
  BY <1>8, <1>9, Division
<1> QED BY <1>1, <1>4, <1>8, <1>9

LEMMA Injective ==
  ASSUME NEW ds, IsShape(ds), NEW p \in ElementsOf(ds), NEW q \in ElementsOf(ds)
  PROVE  OffsetOf(ds, p) = OffsetOf(ds, q) <=> p = q
<1>1. PICK n \in Nat \ {0} : n = Len(ds)
  BY DEF IsShape
<1>2. PICK h, k : h = Selected(ds, p) /\ k = Selected(ds, q)
  OBVIOUS
<1>3. h[n] = k[n] <=> Agree(p, q, n)
  <2>1. n \in 0 .. n
    OBVIOUS
  <2> QED BY <1>1, <1>2, <2>1, SameSubarray
<1>4. OffsetOf(ds, p) = h[n] /\ OffsetOf(ds, q) = k[n]
  BY <1>1, <1>2, Places
<1>5. p \in [1 .. n -> Nat] /\ q \in [1 .. n -> Nat]
  BY <1>1, ElementsAre
<1> QED BY <1>3, <1>4, <1>5 DEF Agree

\* A subarray begins where the indices inside it are all zero.
LEMMA Beginning ==
  ASSUME NEW ds, IsShape(ds), NEW n \in Nat \ {0}, n = Len(ds),
         NEW p \in ElementsOf(ds), NEW d \in 0 .. n, NEW h, h = Selected(ds, p)
  PROVE  /\ (\A i \in d + 1 .. n : p[i] = 0) <=> OffsetOf(ds, p) = h[d] * SizeOf(ds, d)
         /\ (\A i \in d + 1 .. n : p[i] = 0) <=> OffsetOf(ds, p) % SizeOf(ds, d) = 0
<1>1. /\ h \in [0 .. n -> Nat] /\ OffsetOf(ds, p) = h[n]
      /\ \A a \in 0 .. n : \A e \in a .. n : h[a] * SizeOf(ds, a) <= h[e] * SizeOf(ds, e)
  BY Places
<1>2. \A i \in 1 .. n : h[i] = h[i - 1] * ds[i] + p[i]
  BY SelectedIs DEF Selects
<1>3. p \in [1 .. n -> Nat] /\ \A i \in 1 .. n : ds[i] \in Nat
  BY ElementsAre DEF IsShape
<1>4. /\ \A i \in 0 .. n : SizeOf(ds, i) \in Nat \ {0}
      /\ \A i \in 1 .. n : SizeOf(ds, i - 1) = ds[i] * SizeOf(ds, i)
      /\ SizeOf(ds, n) = 1
  BY Sizes
<1>5. ASSUME NEW i \in 1 .. n
      PROVE  /\ i \in 0 .. n /\ i - 1 \in 0 .. n
             /\ h[i] * SizeOf(ds, i) = h[i - 1] * SizeOf(ds, i - 1) + p[i] * SizeOf(ds, i)
             /\ h[i - 1] * SizeOf(ds, i - 1) \in Nat
             /\ p[i] * SizeOf(ds, i) \in Nat /\ (p[i] # 0 => p[i] * SizeOf(ds, i) # 0)
  <2>1. i \in 0 .. n /\ i - 1 \in 0 .. n
    OBVIOUS
  <2>2. h[i - 1] \in Nat /\ p[i] \in Nat /\ ds[i] \in Nat
    BY <1>1, <1>3, <2>1
  <2>3. SizeOf(ds, i) \in Nat \ {0}
    BY <1>4, <2>1, Zenon
  <2>4. PICK a \in Nat, b \in Nat, c \in Nat, v \in Nat \ {0} :
          a = h[i - 1] /\ b = ds[i] /\ c = p[i] /\ v = SizeOf(ds, i)
    BY <2>2, <2>3
  <2>5. h[i] = a * b + c /\ SizeOf(ds, i - 1) = b * v
    BY <1>2, <1>4, <2>4
  <2>6. (a * b + c) * v = a * (b * v) + c * v /\ c * v \in Nat /\ a * (b * v) \in Nat
    BY Algebra
  <2>7. c # 0 => c * v # 0
    OBVIOUS
  <2> QED BY <2>1, <2>4, <2>5, <2>6, <2>7
<1>6. ASSUME \A i \in d + 1 .. n : p[i] = 0 PROVE h[n] = h[d] * SizeOf(ds, d)
  <2> DEFINE S == {e \in d .. n : h[e] * SizeOf(ds, e) = h[d] * SizeOf(ds, d)}
  <2>1. d \in S
    OBVIOUS
  <2>2. ASSUME NEW e \in d .. n - 1, e \in S PROVE e + 1 \in S
    <3>1. e + 1 \in 1 .. n /\ e + 1 - 1 = e /\ p[e + 1] = 0 /\ e + 1 \in 0 .. n
      BY <1>6
    <3>2. SizeOf(ds, e + 1) \in Nat
      BY <1>4, <3>1, Zenon
    <3>3. p[e + 1] * SizeOf(ds, e + 1) = 0
      BY <3>1, <3>2
    <3>4. h[e + 1] * SizeOf(ds, e + 1) = h[e] * SizeOf(ds, e) + 0 /\ h[e] * SizeOf(ds, e) \in Nat
      BY <1>5, <3>1, <3>3
    <3> QED BY <2>2, <3>4
  <2>3. \A e \in d .. n : e \in S
    <3>1. d \in Nat /\ n \in Nat
      OBVIOUS
    <3> HIDE DEF S
    <3> QED BY <2>1, <2>2, <3>1, Climb
  <2>4. n \in S
    <3>1. n \in d .. n
      OBVIOUS
    <3> HIDE DEF S
    <3> QED BY <2>3, <3>1
  <2>5. h[n] * 1 = h[d] * SizeOf(ds, d) /\ h[n] \in Nat
    BY <1>1, <1>4, <2>4
  <2> QED BY <2>5
<1>7. ASSUME NEW i \in d + 1 .. n, p[i] # 0 PROVE h[n] # h[d] * SizeOf(ds, d)
  <2>1. i \in 1 .. n /\ i - 1 \in d .. n /\ n \in i .. n
    OBVIOUS
  <2>2. h[d] * SizeOf(ds, d) <= h[i - 1] * SizeOf(ds, i - 1)
    BY <1>1, <2>1
  <2>3. h[i] * SizeOf(ds, i) <= h[n] * SizeOf(ds, n)
    BY <1>1, <2>1
  <2>4. h[n] * SizeOf(ds, n) = h[n] /\ h[n] \in Nat
    BY <1>1, <1>4
  <2>5. h[d] \in Nat /\ SizeOf(ds, d) \in Nat
    BY <1>1, <1>4
  <2>6. h[d] * SizeOf(ds, d) \in Nat
    BY <2>5
  <2> QED BY <1>5, <1>7, <2>1, <2>2, <2>3, <2>4, <2>6
<1>8. h[n] % SizeOf(ds, d) = 0 <=> h[n] = h[d] * SizeOf(ds, d)
  <2>1. /\ OffsetOf(ds, p) \in Nat
        /\ h[d] \in Nat
        /\ h[d] * SizeOf(ds, d) <= OffsetOf(ds, p)
        /\ OffsetOf(ds, p) < (h[d] + 1) * SizeOf(ds, d)
    BY Subarray
  <2>2. SizeOf(ds, d) \in Nat \ {0}
    BY <1>4, Zenon
  <2>3. PICK a \in Nat, c \in Nat, v \in Nat \ {0} :
          a = h[d] /\ c = OffsetOf(ds, p) /\ v = SizeOf(ds, d)
    BY <2>1, <2>2
  <2>4. c % v = 0 <=> c = a * v
    <3>1. a * v <= c /\ c < (a + 1) * v
      BY <2>1, <2>3
    <3> QED BY <3>1, Division
  <2> QED BY <1>1, <2>3, <2>4
<1> QED BY <1>1, <1>6, <1>7, <1>8
-----------------------------------------------------------------------------
(* Where the iterators are *)

\* The place that the iterators p stand at.
PositionOf(ds, p) == IF p = ds THEN SizeOf(ds, 0) ELSE OffsetOf(ds, p)

LEMMA EndIsNoElement ==
  ASSUME NEW ds, IsShape(ds) PROVE ds \notin ElementsOf(ds)
<1>1. PICK n \in Nat \ {0} : n = Len(ds)
  BY DEF IsShape
<1>2. ds[1] \in Nat /\ 1 \in 1 .. n
  BY <1>1 DEF IsShape
<1> SUFFICES ASSUME ds \in ElementsOf(ds) PROVE FALSE
  OBVIOUS
<1>3. ds[1] < ds[1]
  BY <1>1, <1>2, ElementsAre
<1> QED BY <1>2, <1>3

\* ++ moves the iterators to the next element in memory, or to the end.
LEMMA MovedOn ==
  ASSUME IsShape(dims), NEW p \in ElementsOf(dims)
  PROVE  /\ Moved(p) \in ElementsOf(dims) \cup {dims}
         /\ PositionOf(dims, Moved(p)) = PositionOf(dims, p) + 1
<1>1. PICK ds : ds = dims
  OBVIOUS
<1>2. IsShape(ds) /\ p \in ElementsOf(ds)
  BY <1>1
<1>3. PICK n \in Nat \ {0} : n = Len(ds)
  BY <1>2 DEF IsShape
<1>4. PICK h : h = Selected(ds, p)
  OBVIOUS
<1>5. /\ p \in [1 .. n -> Nat] /\ \A i \in 1 .. n : p[i] < ds[i]
      /\ \A i \in 1 .. n : ds[i] \in Nat \ {0}
  BY <1>2, <1>3, ElementsAre DEF IsShape
<1>6. /\ h \in [0 .. n -> Nat] /\ h[0] = 0 /\ OffsetOf(ds, p) = h[n]
      /\ \A i \in 1 .. n : h[i] = h[i - 1] * ds[i] + p[i]
  <2>1. Selects(ds, p, h)
    BY <1>2, <1>4, SelectedIs
  <2>2. OffsetOf(ds, p) = h[n]
    BY <1>2, <1>3, <1>4, Places
  <2> QED BY <1>3, <2>1, <2>2 DEF Selects
<1>7. /\ \A i \in 0 .. n : SizeOf(ds, i) \in Nat \ {0}
      /\ \A i \in 1 .. n : SizeOf(ds, i - 1) = ds[i] * SizeOf(ds, i)
      /\ SizeOf(ds, n) = 1
  BY <1>2, <1>3, Sizes
<1>8. p # ds /\ PositionOf(ds, p) = h[n]
  BY <1>2, <1>6, EndIsNoElement DEF PositionOf
\* from the dimension that moves on, everything is at its last element
<1> DEFINE Full(l) == \A i \in l + 1 .. n : p[i] + 1 = ds[i]
<1>9. ASSUME NEW l \in 0 .. n, Full(l) PROVE h[n] + 1 = (h[l] + 1) * SizeOf(ds, l)
  <2> DEFINE S == {e \in l .. n : (h[e] + 1) * SizeOf(ds, e) = (h[l] + 1) * SizeOf(ds, l)}
  <2>1. l \in S
    OBVIOUS
  <2>2. ASSUME NEW e \in l .. n - 1, e \in S PROVE e + 1 \in S
    <3>1. e + 1 \in 1 .. n /\ e + 1 - 1 = e /\ e \in 0 .. n /\ e + 1 \in 0 .. n /\ e + 1 \in l .. n
          /\ e + 1 \in l + 1 .. n
      OBVIOUS
    <3>2. SizeOf(ds, e + 1) \in Nat /\ h[e] \in Nat /\ p[e + 1] \in Nat
      <4>1. SizeOf(ds, e + 1) \in Nat
        BY <1>7, <3>1, Zenon
      <4> QED BY <1>5, <1>6, <3>1, <4>1
    <3>3. p[e + 1] + 1 = ds[e + 1]
      BY <1>9, <3>1
    <3>4. PICK a \in Nat, c \in Nat, v \in Nat : a = h[e] /\ c = p[e + 1] /\ v = SizeOf(ds, e + 1)
      BY <3>2
    <3>5. h[e + 1] = a * (c + 1) + c /\ SizeOf(ds, e) = (c + 1) * v
      <4>1. h[e + 1] = h[e] * ds[e + 1] + p[e + 1]
        BY <1>6, <3>1
      <4>2. SizeOf(ds, e) = ds[e + 1] * SizeOf(ds, e + 1)
        BY <1>7, <3>1
      <4> QED BY <3>3, <3>4, <4>1, <4>2
    <3>6. (a * (c + 1) + c + 1) * v = (a + 1) * ((c + 1) * v)
      OBVIOUS
    <3>7. (h[e] + 1) * SizeOf(ds, e) = (h[l] + 1) * SizeOf(ds, l)
      BY <2>2
    <3> QED BY <3>1, <3>4, <3>5, <3>6, <3>7
  <2>3. n \in S
    <3>1. l \in Nat /\ n \in Nat /\ n \in l .. n
      OBVIOUS
    <3> HIDE DEF S
    <3> QED BY <2>1, <2>2, <3>1, Climb
  <2>4. (h[n] + 1) * 1 = (h[l] + 1) * SizeOf(ds, l) /\ h[n] \in Nat
    BY <1>6, <1>7, <2>3
  <2> QED BY <2>4
<1> DEFINE open == {i \in 1 .. n : p[i] + 1 < ds[i]}
           last == CHOOSE i \in open : \A j \in open : j <= i
           next == [i \in 1 .. n |-> IF i < last THEN p[i] ELSE IF i = last THEN p[i] + 1 ELSE 0]
<1>10. Moved(p) = IF open = {} THEN ds ELSE next
  BY <1>1, <1>3 DEF Moved, End, N
<1>11. \A i \in 1 .. n : i \notin open => p[i] + 1 = ds[i]
  BY <1>5
<1>12. CASE open = {}
  <2>1. Full(0)
    BY <1>11, <1>12
  <2>2. h[n] + 1 = (h[0] + 1) * SizeOf(ds, 0) /\ SizeOf(ds, 0) \in Nat
    BY <1>7, <1>9, <2>1
  <2> QED BY <1>1, <1>6, <1>8, <1>10, <1>12, <2>2 DEF PositionOf
<1>13. CASE open # {}
  <2>1. last \in open /\ \A j \in open : j <= last
    <3>1. \E i \in open : \A j \in open : j <= i
      <4> DEFINE T == {n - i : i \in open}
      <4>1. T \in SUBSET Nat /\ T # {}
        BY <1>13
      <4>2. PICK t \in T : \A u \in T : t <= u
        <5> HIDE DEF T, open
        <5> QED BY <4>1, LeastElement
      <4>3. PICK i \in open : t = n - i
        BY <4>2
      <4>4. \A j \in open : n - i <= n - j
        BY <4>2, <4>3
      <4>5. \A j \in open : j <= i
        BY <4>4
      <4> QED BY <4>5
    <3> HIDE DEF open
    <3> QED BY <3>1
  <2> HIDE DEF last
  <2>2. PICK l \in 1 .. n : l = last
    BY <2>1
  <2>3. PICK q : q = next
    OBVIOUS
  <2>4. q = [i \in 1 .. n |-> IF i < l THEN p[i] ELSE IF i = l THEN p[i] + 1 ELSE 0]
    BY <2>2, <2>3
  <2>5. p[l] + 1 < ds[l] /\ Full(l)
    BY <1>11, <2>1, <2>2
  <2>6. q \in ElementsOf(ds)
    <3>1. q \in [1 .. n -> Nat]
      BY <1>5, <2>4
    <3>2. \A i \in 1 .. n : q[i] < ds[i]
      BY <1>5, <2>4, <2>5
    <3> QED BY <1>2, <1>3, <3>1, <3>2, ElementsAre
  <2>7. PICK k : k = Selected(ds, q)
    OBVIOUS
  <2>8. OffsetOf(ds, q) = k[l] * SizeOf(ds, l)
    <3>1. \A i \in l + 1 .. n : q[i] = 0
      BY <2>4
    <3>2. l \in 0 .. n
      OBVIOUS
    <3> QED BY <1>2, <1>3, <2>6, <2>7, <3>1, <3>2, Beginning
  <2>9. k[l] = h[l] + 1
    <3>1. l - 1 \in 0 .. n
      OBVIOUS
    <3>2. h[l - 1] = k[l - 1] <=> Agree(p, q, l - 1)
      BY <1>2, <1>3, <1>4, <2>6, <2>7, <3>1, SameSubarray
    <3>3. Agree(p, q, l - 1)
      BY <2>4 DEF Agree
    <3>4. k[l] = k[l - 1] * ds[l] + q[l]
      BY <1>2, <1>3, <2>6, <2>7, SelectedIs DEF Selects
    <3>5. q[l] = p[l] + 1 /\ h[l] = h[l - 1] * ds[l] + p[l]
      BY <1>6, <2>4
    <3>6. h[l - 1] \in Nat /\ ds[l] \in Nat /\ p[l] \in Nat
      BY <1>5, <1>6, <3>1
    <3>7. PICK a \in Nat, b \in Nat, c \in Nat : a = h[l - 1] /\ b = ds[l] /\ c = p[l]
      BY <3>6
    <3>8. a * b + (c + 1) = a * b + c + 1
      OBVIOUS
    <3>9. k[l] = a * b + (c + 1) /\ h[l] = a * b + c
      BY <3>2, <3>3, <3>4, <3>5, <3>7
    <3> QED BY <3>8, <3>9
  <2>10. l \in 0 .. n
    OBVIOUS
  <2>11. OffsetOf(ds, q) = h[n] + 1
    BY <1>9, <2>5, <2>8, <2>9, <2>10
  <2>12. Moved(p) = q /\ q # ds
    BY <1>2, <1>10, <1>13, <2>3, <2>6, EndIsNoElement
  <2> QED BY <1>1, <1>8, <2>6, <2>11, <2>12 DEF PositionOf
<1> QED BY <1>12, <1>13

\* cur_init_index is the innermost dimension in which the iterators are not at
\* the beginning.
LEMMA IndexIs ==
  ASSUME NEW n \in Nat \ {0}, n = Len(dims), cur \in [1 .. n -> Nat]
  PROVE  /\ CurInitIndex \in 1 .. n
         /\ \A i \in CurInitIndex + 1 .. n : cur[i] = 0
         /\ CurInitIndex # 1 => cur[CurInitIndex] # 0
<1> DEFINE past == {i \in 1 .. n : cur[i] # 0}
           last == CHOOSE i \in past : \A j \in past : j <= i
<1>1. CurInitIndex = IF past = {} THEN 1 ELSE last
  BY DEF CurInitIndex, N
<1>2. CASE past = {}
  BY <1>1, <1>2
<1>3. CASE past # {}
  <2>1. \E i \in past : \A j \in past : j <= i
    <3> DEFINE T == {n - i : i \in past}
    <3>1. T \in SUBSET Nat /\ T # {}
      BY <1>3
    <3>2. PICK t \in T : \A u \in T : t <= u
      <4> HIDE DEF T, past
      <4> QED BY <3>1, LeastElement
    <3>3. PICK i \in past : t = n - i
      BY <3>2
    <3>4. \A j \in past : n - i <= n - j
      BY <3>2, <3>3
    <3>5. \A j \in past : j <= i
      BY <3>4
    <3> QED BY <3>5
  <2>2. last \in past /\ \A j \in past : j <= last
    <3> HIDE DEF past
    <3> QED BY <2>1
  <2> HIDE DEF last
  <2>3. CurInitIndex = last
    BY <1>1, <1>3
  <2>4. \A i \in last + 1 .. n : cur[i] = 0
    BY <2>2
  <2> QED BY <2>2, <2>3, <2>4
<1> QED BY <1>2, <1>3

\* What the same indices select, as iter_index is compared.
LEMMA SamePrefix ==
  ASSUME NEW n \in Nat \ {0}, NEW p \in [1 .. n -> Nat], NEW q \in [1 .. n -> Nat], NEW d \in 1 .. n
  PROVE  SubSeq(p, 1, d) = SubSeq(q, 1, d) <=> Agree(p, q, d)
<1>1. p \in Seq(Nat) /\ q \in Seq(Nat) /\ Len(p) = n /\ Len(q) = n
  <2>1. p \in Seq(Nat) /\ Len(p) = n
    OBVIOUS
  <2>2. q \in Seq(Nat) /\ Len(q) = n
    OBVIOUS
  <2> QED BY <2>1, <2>2
<1>2. SubSeq(p, 1, d) = [i \in 1 .. d |-> p[i]] /\ SubSeq(q, 1, d) = [i \in 1 .. d |-> q[i]]
  <2>1. /\ Len(SubSeq(p, 1, d)) = d /\ SubSeq(p, 1, d) \in Seq(Nat)
        /\ \A i \in 1 .. d : SubSeq(p, 1, d)[i] = p[i]
    BY <1>1
  <2>2. /\ Len(SubSeq(q, 1, d)) = d /\ SubSeq(q, 1, d) \in Seq(Nat)
        /\ \A i \in 1 .. d : SubSeq(q, 1, d)[i] = q[i]
    BY <1>1
  <2> QED BY <2>1, <2>2
<1>3. [i \in 1 .. d |-> p[i]] = [i \in 1 .. d |-> q[i]] <=> \A i \in 1 .. d : p[i] = q[i]
  <2>1. ASSUME [i \in 1 .. d |-> p[i]] = [i \in 1 .. d |-> q[i]], NEW i \in 1 .. d PROVE p[i] = q[i]
    <3>1. [j \in 1 .. d |-> p[j]][i] = [j \in 1 .. d |-> q[j]][i]
      BY <2>1
    <3> QED BY <3>1
  <2>2. ASSUME \A i \in 1 .. d : p[i] = q[i] PROVE [i \in 1 .. d |-> p[i]] = [i \in 1 .. d |-> q[i]]
    BY <2>2
  <2> QED BY <2>1, <2>2
<1> QED BY <1>2, <1>3 DEF Agree
-----------------------------------------------------------------------------
(* The invariant *)

Lists == [depth : Nat, end : Nat]
Calls == [index : Nat, iter_index : Seq(Nat), closing : BOOLEAN]

\* The list l is that of the subarray that x lies in, or has just been passed.
Within(ds, x, l) == l.end <= x + SizeOf(ds, l.depth) /\ x <= l.end

\* A subarray that d indices select ends at x.
IsEnd(ds, d, x) == \E m \in Nat : x = (m + 1) * SizeOf(ds, d)

\* The braces ls that are open lie in one another, and the next element sp lies
\* in the innermost of them.
Nested(ds, ls, sp) ==
  /\ sp \in 0 .. SizeOf(ds, 0)
  /\ \A i \in 1 .. Len(ls) :
       /\ ls[i].depth \in 0 .. Len(ds) - 1 /\ ls[i].end <= SizeOf(ds, 0)
       /\ IsEnd(ds, ls[i].depth, ls[i].end)
  /\ \A i \in 1 .. Len(ls) - 1 : ls[i].depth > 0 /\ Within(ds, ls[i].end, ls[i + 1])
  /\ ls # <<>> => Within(ds, sp, ls[1])

\* The innermost call may be at its last lines; its list is closed then.
Ending(cs) == IF cs # <<>> /\ Head(cs).closing THEN 1 ELSE 0
Paired(ds, cs, ls) ==
  /\ Len(ls) = Len(cs) - Ending(cs)
  /\ \A i \in 1 .. Len(cs) : cs[i].index \in 1 .. Len(ds) /\ (i > 1 => ~ cs[i].closing)

\* The call fills the subarray that d indices select and that ends at end; the
\* outermost call, whose list has no indices, is said to have one.
Fills(ds, call, d, end) ==
  IF d = 0 THEN call.index = 1 /\ call.iter_index = <<0>>
  ELSE /\ call.index = d
       /\ d > 1 => end < SizeOf(ds, 0)
       /\ \E q \in ElementsOf(ds) :
            /\ call.iter_index = SubSeq(q, 1, d)
            /\ end = (Selected(ds, q)[d] + 1) * SizeOf(ds, d)

\* The iterators c are where the rule is, or on the way to where it is after
\* the list that is ending; every call fills the subarray of its list.
InStep(ds, c, cs, ls, sp) ==
  /\ \A i \in 1 .. Len(ls) : Fills(ds, cs[i + Ending(cs)], ls[i].depth, ls[i].end)
  /\ cs # <<>> /\ Ending(cs) = 0 => PositionOf(ds, c) = sp
  /\ Ending(cs) = 1 =>
       \E d \in 0 .. Len(ds) - 1 :
         /\ Fills(ds, cs[1], d, sp)
         /\ d = 0 => Len(cs) = 1
         /\ d > 0 => sp <= PositionOf(ds, c) + SizeOf(ds, d) /\ PositionOf(ds, c) <= sp

\* What lies before the iterators is as the rule wants it, and the rest is zero;
\* the outermost list leaves them where they may be.
Agreeing(ds, c, cs, l, w) ==
  /\ l = w
  /\ cs # <<>> =>
       \A p \in ElementsOf(ds) : PositionOf(ds, c) <= OffsetOf(ds, p) => w[p] = 0

\* An iterator other than the last one has been moved behind its end.
IsPast(ds, c) == \E i \in 1 .. Len(ds) - 1 : c = [ds EXCEPT ![i] = @ + 1]

Types ==
  /\ dims \in Shapes
  /\ phase \in {"convert", "done", "lost", "past"}
  /\ cur \in ElementsOf(dims) \cup {dims} \/ (phase = "past" /\ IsPast(dims, cur))
  /\ given \in Nat
  /\ init_list \in [ElementsOf(dims) -> 0 .. given]
  /\ want \in [ElementsOf(dims) -> 0 .. given]
  /\ calls \in Seq(Calls) /\ lists \in Seq(Lists)
  /\ hard \in BOOLEAN

PlacedInv ==
  /\ Types /\ Nested(dims, lists, spot) /\ Paired(dims, calls, lists)
  /\ ~ hard => /\ phase \notin {"lost", "past"}
               /\ InStep(dims, cur, calls, lists, spot)
               /\ Agreeing(dims, cur, calls, init_list, want)
-----------------------------------------------------------------------------
LEMMA AtFront ==
  ASSUME NEW S, NEW s \in Seq(S), NEW a \in S, NEW t, t = <<a>> \o s
  PROVE  /\ t \in Seq(S) /\ Len(t) = Len(s) + 1 /\ t # <<>> /\ Head(t) = a /\ t[1] = a
         /\ \A i \in 1 .. Len(s) : t[i + 1] = s[i]
<1>1. <<a>> \in Seq(S) /\ Len(<<a>>) = 1
  OBVIOUS
<1>2. /\ t \in Seq(S) /\ Len(t) = 1 + Len(s) /\ Len(s) \in Nat
      /\ \A i \in 1 .. 1 + Len(s) : t[i] = IF i <= 1 THEN <<a>>[i] ELSE s[i - 1]
  BY <1>1, ConcatProperties
<1>3. t[1] = a
  <2>1. t[1] = <<a>>[1]
    BY <1>2
  <2> QED BY <2>1
<1>4. \A i \in 1 .. Len(s) : t[i + 1] = s[i]
  <2> SUFFICES ASSUME NEW i \in 1 .. Len(s) PROVE t[i + 1] = s[i]
    OBVIOUS
  <2>1. i + 1 \in 1 .. 1 + Len(s) /\ ~ (i + 1 <= 1) /\ i + 1 - 1 = i
    BY <1>2
  <2> QED BY <1>2, <2>1
<1>5. t # <<>> /\ Head(t) = t[1]
  BY <1>2
<1> QED BY <1>2, <1>3, <1>4, <1>5

LEMMA AtTail ==
  ASSUME NEW S, NEW s \in Seq(S), s # <<>>
  PROVE  /\ Tail(s) \in Seq(S) /\ Len(Tail(s)) = Len(s) - 1 /\ Len(s) \in Nat \ {0}
         /\ Head(s) = s[1] /\ Head(s) \in S
         /\ \A i \in 1 .. Len(s) - 1 : Tail(s)[i] = s[i + 1]
  BY HeadTailProperties

\* A smaller subarray that begins in a larger one ends in it.
LEMMA Inside ==
  ASSUME NEW ds, IsShape(ds), NEW n \in Nat \ {0}, n = Len(ds),
         NEW e \in 0 .. n, NEW d \in e .. n, NEW x \in Nat, NEW m \in Nat,
         x % SizeOf(ds, d) = 0, x < m * SizeOf(ds, e)
  PROVE  /\ x + SizeOf(ds, d) <= m * SizeOf(ds, e)
         /\ IsEnd(ds, d, x + SizeOf(ds, d))
<1>1. /\ \A i \in 0 .. n : SizeOf(ds, i) \in Nat \ {0}
      /\ \A i \in 1 .. n : SizeOf(ds, i - 1) = ds[i] * SizeOf(ds, i)
  BY Sizes
<1>2. \A i \in 1 .. n : ds[i] \in Nat
  BY DEF IsShape
<1> DEFINE S == {i \in e .. n : \E w \in Nat : SizeOf(ds, e) = w * SizeOf(ds, i)}
<1>3. e \in S
  <2>1. SizeOf(ds, e) \in Nat
    BY <1>1, Zenon
  <2>2. SizeOf(ds, e) = 1 * SizeOf(ds, e)
    BY <2>1
  <2> QED BY <2>2
<1>4. ASSUME NEW i \in e .. n - 1, i \in S PROVE i + 1 \in S
  <2>1. i + 1 \in 1 .. n /\ i + 1 - 1 = i /\ i + 1 \in e .. n /\ i + 1 \in 0 .. n
    OBVIOUS
  <2>2. PICK w \in Nat : SizeOf(ds, e) = w * SizeOf(ds, i)
    BY <1>4
  <2>3. SizeOf(ds, i + 1) \in Nat /\ ds[i + 1] \in Nat
    BY <1>1, <1>2, <2>1
  <2>4. PICK a \in Nat, v \in Nat : a = ds[i + 1] /\ v = SizeOf(ds, i + 1)
    BY <2>3
  <2>5. SizeOf(ds, i) = a * v
    BY <1>1, <2>1, <2>4
  <2>6. w * (a * v) = (w * a) * v /\ w * a \in Nat
    OBVIOUS
  <2>7. SizeOf(ds, e) = (w * a) * SizeOf(ds, i + 1)
    BY <2>2, <2>4, <2>5, <2>6
  <2> QED BY <2>1, <2>6, <2>7
<1>5. d \in S
  <2>1. e \in Nat /\ n \in Nat /\ d \in e .. n
    OBVIOUS
  <2> HIDE DEF S
  <2> QED BY <1>3, <1>4, <2>1, Climb
<1>6. PICK w \in Nat : SizeOf(ds, e) = w * SizeOf(ds, d)
  BY <1>5
<1>7. d \in 0 .. n
  OBVIOUS
<1>8. PICK v \in Nat \ {0} : v = SizeOf(ds, d)
  BY <1>1, <1>7
<1>9. PICK k \in Nat : x = k * v
  <2>1. x = v * (x \div v) + (x % v) /\ x \div v \in Int
    OBVIOUS
  <2>2. x = v * (x \div v)
    BY <1>8, <2>1
  <2>3. PICK k \in Int : k = x \div v
    BY <2>1
  <2>4. x = v * k /\ k \in Nat
    BY <2>2, <2>3
  <2>5. v * k = k * v
    OBVIOUS
  <2> QED BY <2>4, <2>5
<1>10. m * (w * v) = (m * w) * v /\ m * w \in Nat /\ k * v + v = (k + 1) * v
  OBVIOUS
<1>11. PICK a \in Nat : a = m * w
  BY <1>10
<1>12. k * v < a * v
  BY <1>6, <1>8, <1>9, <1>10, <1>11
<1>13. k < a
  <2>1. a < k => (a + 1) * v <= k * v
    BY Division
  <2>2. (a + 1) * v = a * v + v /\ a * v \in Nat /\ k * v \in Nat
    OBVIOUS
  <2> QED BY <1>12, <2>1, <2>2
<1>14. (k + 1) * v <= a * v
  BY <1>13, Division
<1>15. x + SizeOf(ds, d) = (k + 1) * SizeOf(ds, d)
  BY <1>8, <1>9, <1>10
<1>16. IsEnd(ds, d, x + SizeOf(ds, d))
  BY <1>15 DEF IsEnd
<1> QED BY <1>6, <1>8, <1>9, <1>10, <1>11, <1>14, <1>16

LEMMA OpenNested ==
  ASSUME NEW ds, IsShape(ds), NEW n \in Nat \ {0}, n = Len(ds),
         NEW ls \in Seq(Lists), ls # <<>>, NEW sp, Nested(ds, ls, sp), sp < Head(ls).end,
         NEW d \in Head(ls).depth + 1 .. n - 1, sp % SizeOf(ds, d) = 0
  PROVE  /\ Nested(ds, <<[depth |-> d, end |-> sp + SizeOf(ds, d)]>> \o ls, sp)
         /\ <<[depth |-> d, end |-> sp + SizeOf(ds, d)]>> \o ls \in Seq(Lists)
         /\ sp + SizeOf(ds, d) <= SizeOf(ds, 0)
<1>1. PICK e \in Nat, m \in Nat : e = Head(ls).depth /\ Head(ls).end = (m + 1) * SizeOf(ds, e)
      /\ Head(ls) = ls[1] /\ e <= n - 1 /\ Head(ls).end <= SizeOf(ds, 0) /\ Head(ls).end \in Nat
      /\ Len(ls) \in Nat \ {0}
  <2>1. ls[1] = Head(ls) /\ Head(ls) \in Lists /\ Len(ls) \in Nat \ {0}
    BY AtTail
  <2>2. /\ ls[1].depth \in 0 .. n - 1 /\ ls[1].end <= SizeOf(ds, 0)
        /\ \E m \in Nat : ls[1].end = (m + 1) * SizeOf(ds, ls[1].depth)
    BY <2>1 DEF Nested, IsEnd
  <2>3. PICK m \in Nat : ls[1].end = (m + 1) * SizeOf(ds, ls[1].depth)
    BY <2>2
  <2>4. ls[1].depth \in Nat /\ ls[1].end \in Nat
    BY <2>1 DEF Lists
  <2> QED BY <2>1, <2>2, <2>3, <2>4
<1>2. sp \in Nat /\ d \in Nat /\ d <= n - 1 /\ e + 1 <= d
  <2>1. SizeOf(ds, 0) \in Nat
    BY Sizes
  <2> QED BY <1>1, <2>1 DEF Nested
<1>3. /\ sp + SizeOf(ds, d) <= Head(ls).end
      /\ IsEnd(ds, d, sp + SizeOf(ds, d))
  <2>1. e \in 0 .. n /\ d \in e .. n /\ m + 1 \in Nat
    BY <1>1, <1>2
  <2>2. sp < (m + 1) * SizeOf(ds, e)
    BY <1>1
  <2>3. PICK m1 \in Nat : m1 = m + 1
    BY <2>1
  <2>4. /\ sp + SizeOf(ds, d) <= m1 * SizeOf(ds, e)
        /\ IsEnd(ds, d, sp + SizeOf(ds, d))
    BY <1>2, <2>1, <2>2, <2>3, Inside
  <2> QED BY <1>1, <2>3, <2>4
<1>4. /\ SizeOf(ds, d) \in Nat \ {0} /\ SizeOf(ds, e) \in Nat \ {0} /\ SizeOf(ds, 0) \in Nat
  <2>1. d \in 0 .. n /\ e \in 0 .. n /\ 0 \in 0 .. n
    BY <1>1, <1>2
  <2> QED BY <2>1, Sizes
<1>5. PICK l : l = [depth |-> d, end |-> sp + SizeOf(ds, d)]
  OBVIOUS
<1>6. l \in Lists /\ l.depth = d /\ l.end = sp + SizeOf(ds, d)
  <2>1. PICK v \in Nat : v = SizeOf(ds, d)
    BY <1>4
  <2>2. d \in Nat /\ sp + v \in Nat
    BY <1>2
  <2> QED BY <1>5, <2>1, <2>2 DEF Lists
<1>7. PICK t : t = <<l>> \o ls
  OBVIOUS
<1>8. /\ t \in Seq(Lists) /\ Len(t) = Len(ls) + 1 /\ t # <<>> /\ t[1] = l
      /\ \A i \in 1 .. Len(ls) : t[i + 1] = ls[i]
  BY <1>6, <1>7, AtFront
<1>9. ASSUME NEW i \in 1 .. Len(t)
      PROVE  /\ t[i].depth \in 0 .. n - 1 /\ t[i].end <= SizeOf(ds, 0)
             /\ IsEnd(ds, t[i].depth, t[i].end)
  <2>1. CASE i = 1
    <3>1. l.depth \in 0 .. n - 1 /\ l.end <= SizeOf(ds, 0)
      BY <1>1, <1>2, <1>3, <1>4, <1>6
    <3> QED BY <1>3, <1>6, <1>8, <2>1, <3>1
  <2>2. CASE i # 1
    <3>1. i - 1 \in 1 .. Len(ls) /\ i - 1 + 1 = i
      BY <1>1, <1>8, <2>2
    <3>2. t[i] = ls[i - 1]
      BY <1>8, <3>1
    <3> QED BY <3>1, <3>2 DEF Nested
  <2> QED BY <2>1, <2>2
<1>10. ASSUME NEW i \in 1 .. Len(t) - 1 PROVE t[i].depth > 0 /\ Within(ds, t[i].end, t[i + 1])
  <2>1. CASE i = 1
    <3>1. t[i + 1] = ls[1]
      BY <1>1, <1>8, <2>1
    <3>2. Within(ds, sp, ls[1])
      BY DEF Nested
    <3>3. t[i] = l
      BY <1>8, <2>1
    <3>4. ls[1].end <= sp + SizeOf(ds, e) /\ ls[1].end = Head(ls).end /\ ls[1].depth = e
      BY <1>1, <3>2 DEF Within
    <3>5. ls[1].end <= l.end + SizeOf(ds, e) /\ l.end <= ls[1].end
      <4>1. PICK v \in Nat, w \in Nat : v = SizeOf(ds, d) /\ w = SizeOf(ds, e)
        BY <1>4
      <4>0. PICK b \in Nat : b = ls[1].end
        BY <1>1, <3>4
      <4>2. PICK s \in Nat : s = sp
        BY <1>2
      <4>3. s + v <= b
        BY <1>1, <1>3, <3>4, <4>0, <4>1, <4>2
      <4>4. b <= s + w
        BY <3>4, <4>0, <4>1, <4>2
      <4>5. b <= s + v + w /\ s + v <= b
        BY <4>3, <4>4
      <4> QED BY <1>6, <4>0, <4>1, <4>2, <4>5
    <3>6. Within(ds, l.end, ls[1])
      BY <3>4, <3>5 DEF Within
    <3> QED BY <1>2, <1>6, <3>1, <3>3, <3>6
  <2>2. CASE i # 1
    <3>1. i - 1 \in 1 .. Len(ls) - 1 /\ i - 1 + 1 = i /\ i \in 1 .. Len(ls) /\ i - 1 \in 1 .. Len(ls)
      BY <1>1, <1>8, <2>2
    <3>2. t[i] = ls[i - 1] /\ t[i + 1] = ls[i]
      BY <1>8, <3>1
    <3> QED BY <3>1, <3>2 DEF Nested
  <2> QED BY <2>1, <2>2
<1>11. Within(ds, sp, t[1]) /\ sp \in 0 .. SizeOf(ds, 0)
  BY <1>2, <1>4, <1>6, <1>8 DEF Within, Nested
<1>12. Nested(ds, t, sp)
  BY <1>9, <1>10, <1>11 DEF Nested
<1>13. sp + SizeOf(ds, d) <= SizeOf(ds, 0)
  BY <1>1, <1>2, <1>3, <1>4
<1> QED BY <1>5, <1>7, <1>8, <1>12, <1>13
-----------------------------------------------------------------------------
(* The steps *)

LEMMA ShapeOfDims ==
  ASSUME Types PROVE IsShape(dims) /\ Len(dims) \in Nat \ {0} /\ N = Len(dims)
  BY ShapesAssumption DEF Types, IsShape, N

\* Where the iterators are at an element, and when they are at one.
LEMMA AtElement ==
  ASSUME NEW ds, IsShape(ds), NEW c \in ElementsOf(ds) \cup {ds}
  PROVE  /\ PositionOf(ds, c) \in 0 .. SizeOf(ds, 0)
         /\ c \in ElementsOf(ds) => PositionOf(ds, c) = OffsetOf(ds, c)
         /\ PositionOf(ds, c) # SizeOf(ds, 0) <=> c # ds
         /\ c # ds <=> c \in ElementsOf(ds)
<1>1. PICK n \in Nat \ {0} : n = Len(ds)
  BY DEF IsShape
<1>2. 0 \in 0 .. n /\ SizeOf(ds, 0) \in Nat
  BY <1>1, Sizes
<1>3. CASE c = ds
  BY <1>2, <1>3, EndIsNoElement DEF PositionOf
<1>4. CASE c \in ElementsOf(ds)
  <2>1. c # ds /\ PositionOf(ds, c) = OffsetOf(ds, c)
    BY <1>4, EndIsNoElement DEF PositionOf
  <2>2. PICK h : h = Selected(ds, c)
    OBVIOUS
  <2>3. OffsetOf(ds, c) \in Nat /\ OffsetOf(ds, c) < SizeOf(ds, 0)
    BY <1>1, <1>2, <1>4, <2>2, Subarray
  <2> QED BY <1>2, <1>4, <2>1, <2>3
<1> QED BY <1>3, <1>4

\* A value is assigned to the element that the iterators point to.
LEMMA Converted ==
  ASSUME Types, NEW v \in Nat, NEW g \in Nat, v <= g, given <= g, ConvertValue(v),
         phase = "convert"
  PROVE  /\ phase' \in {"convert", "lost"}
         /\ cur' \in ElementsOf(dims) \cup {dims}
         /\ init_list' \in [ElementsOf(dims) -> 0 .. g]
         /\ cur # dims => /\ phase' = "convert"
                          /\ init_list' = [init_list EXCEPT ![cur] = v]
                          /\ PositionOf(dims, cur') = PositionOf(dims, cur) + 1
<1>1. IsShape(dims)
  BY ShapeOfDims
<1>2. given \in Nat /\ cur \in ElementsOf(dims) \cup {dims} /\ init_list \in [ElementsOf(dims) -> 0 .. given]
  BY DEF Types
<1>3. \A x \in 0 .. given : x \in 0 .. g
  BY <1>2
<1>4. init_list \in [ElementsOf(dims) -> 0 .. g]
  BY <1>2, <1>3
<1>5. CASE cur = dims
  BY <1>2, <1>4, <1>5 DEF ConvertValue, End
<1>6. CASE cur # dims
  <2>1. cur \in ElementsOf(dims)
    BY <1>2, <1>6
  <2>2. phase' = phase /\ init_list' = [init_list EXCEPT ![cur] = v] /\ cur' = Moved(cur)
    BY <1>6 DEF ConvertValue, End
  <2>3. v \in 0 .. g
    OBVIOUS
  <2>4. [init_list EXCEPT ![cur] = v] \in [ElementsOf(dims) -> 0 .. g]
    BY <1>4, <2>1, <2>3
  <2>5. /\ Moved(cur) \in ElementsOf(dims) \cup {dims}
        /\ PositionOf(dims, Moved(cur)) = PositionOf(dims, cur) + 1
    BY <1>1, <2>1, MovedOn
  <2> QED BY <1>2, <2>2, <2>4, <2>5
<1> QED BY <1>5, <1>6

LEMMA ReadValueStep ==
  ASSUME PlacedInv, ReadValue PROVE PlacedInv'
<1>1. Types /\ Nested(dims, lists, spot) /\ Paired(dims, calls, lists)
  BY DEF PlacedInv
<1>2. /\ phase = "convert" /\ calls # <<>> /\ ~ Head(calls).closing
      /\ lists # <<>> /\ spot < Head(lists).end
      /\ ConvertValue(given + 1)
      /\ given' = given + 1
      /\ want' = [p \in ElementsOf(dims) |-> IF OffsetOf(dims, p) = spot THEN given + 1 ELSE want[p]]
      /\ spot' = spot + 1
      /\ dims' = dims /\ calls' = calls /\ lists' = lists /\ hard' = hard
      /\ words' = words /\ stores' = stores
  BY Unprimed DEF ReadValue, Reading, Room
<1>3. given \in Nat /\ given + 1 \in Nat /\ given + 1 <= given + 1 /\ given <= given + 1
  BY <1>1 DEF Types
<1>4. /\ phase' \in {"convert", "lost"}
      /\ cur' \in ElementsOf(dims) \cup {dims}
      /\ init_list' \in [ElementsOf(dims) -> 0 .. given + 1]
      /\ cur # dims => /\ phase' = "convert"
                       /\ init_list' = [init_list EXCEPT ![cur] = given + 1]
                       /\ PositionOf(dims, cur') = PositionOf(dims, cur) + 1
  BY <1>1, <1>2, <1>3, Converted
<1>5. Types'
  <2>1. want' \in [ElementsOf(dims) -> 0 .. given + 1]
    <3>1. want \in [ElementsOf(dims) -> 0 .. given]
      BY <1>1 DEF Types
    <3>2. \A p \in ElementsOf(dims) : want[p] \in 0 .. given + 1
      <4> SUFFICES ASSUME NEW p \in ElementsOf(dims) PROVE want[p] \in 0 .. given + 1
        OBVIOUS
      <4>1. want[p] \in 0 .. given
        BY <3>1
      <4> QED BY <1>3, <4>1
    <3>3. given + 1 \in 0 .. given + 1
      BY <1>3
    <3> QED BY <1>2, <3>2, <3>3
  <2> QED BY <1>1, <1>2, <1>3, <1>4, <2>1 DEF Types
<1>6. IsShape(dims) /\ Len(dims) \in Nat \ {0}
  BY <1>1, ShapeOfDims
<1>7. /\ Head(lists) = lists[1] /\ Len(lists) \in Nat \ {0} /\ lists[1].end \in Nat
      /\ lists[1].depth \in 0 .. Len(dims) - 1 /\ lists[1].end <= SizeOf(dims, 0)
      /\ Within(dims, spot, lists[1]) /\ spot \in Nat
      /\ SizeOf(dims, 0) \in Nat /\ SizeOf(dims, lists[1].depth) \in Nat
  <2>1. lists \in Seq(Lists)
    BY <1>1 DEF Types
  <2>2. Head(lists) = lists[1] /\ Len(lists) \in Nat \ {0} /\ lists[1] \in Lists
    BY <1>2, <2>1, AtTail
  <2>3. /\ lists[1].depth \in 0 .. Len(dims) - 1 /\ lists[1].end <= SizeOf(dims, 0)
        /\ Within(dims, spot, lists[1]) /\ spot \in 0 .. SizeOf(dims, 0)
    BY <1>1, <1>2, <2>2 DEF Nested
  <2>4. SizeOf(dims, 0) \in Nat /\ SizeOf(dims, lists[1].depth) \in Nat
    <3>1. lists[1].depth \in 0 .. Len(dims) /\ 0 \in 0 .. Len(dims)
      BY <1>6, <2>3
    <3> QED BY <1>6, <3>1, Sizes
  <2> QED BY <2>2, <2>3, <2>4 DEF Lists
<1>8. Nested(dims, lists, spot + 1)
  <2>1. Within(dims, spot + 1, lists[1])
    BY <1>2, <1>7 DEF Within
  <2>2. spot + 1 \in 0 .. SizeOf(dims, 0)
    BY <1>2, <1>7
  <2> QED BY <1>1, <2>1, <2>2 DEF Nested
<1>9. ASSUME ~ hard
      PROVE  /\ phase' \notin {"lost", "past"}
             /\ InStep(dims, cur', calls, lists, spot + 1)
             /\ Agreeing(dims, cur', calls, init_list', want')
  <2>1. InStep(dims, cur, calls, lists, spot) /\ Agreeing(dims, cur, calls, init_list, want)
    BY <1>9 DEF PlacedInv
  <2>2. Ending(calls) = 0
    BY <1>2 DEF Ending
  <2>3. PositionOf(dims, cur) = spot
    BY <1>2, <2>1, <2>2 DEF InStep
  <2>4. cur \in ElementsOf(dims) /\ cur # dims /\ OffsetOf(dims, cur) = spot
    <3>1. cur \in ElementsOf(dims) \cup {dims}
      BY <1>1, <1>2 DEF Types
    <3>2. PositionOf(dims, cur) # SizeOf(dims, 0)
      BY <1>2, <1>7, <2>3
    <3> QED BY <1>6, <2>3, <3>1, <3>2, AtElement
  <2>5. phase' \notin {"lost", "past"} /\ init_list' = [init_list EXCEPT ![cur] = given + 1]
        /\ PositionOf(dims, cur') = spot + 1
    BY <1>4, <2>3, <2>4
  <2>6. InStep(dims, cur', calls, lists, spot + 1)
    BY <2>1, <2>2, <2>5 DEF InStep
  <2>7. want' = init_list'
    <3>1. \A p \in ElementsOf(dims) : OffsetOf(dims, p) = spot <=> p = cur
      BY <1>6, <2>4, Injective
    <3>2. init_list = want /\ init_list \in [ElementsOf(dims) -> 0 .. given]
      BY <1>1, <2>1 DEF Agreeing, Types
    <3>3. init_list' = [p \in ElementsOf(dims) |-> IF p = cur THEN given + 1 ELSE init_list[p]]
      BY <2>5, <3>2
    <3> QED BY <1>2, <3>1, <3>2, <3>3
  <2>8. ASSUME NEW p \in ElementsOf(dims), spot + 1 <= OffsetOf(dims, p) PROVE want'[p] = 0
    <3>1. OffsetOf(dims, p) \in Nat
      <4>1. PositionOf(dims, p) \in 0 .. SizeOf(dims, 0) /\ PositionOf(dims, p) = OffsetOf(dims, p)
        BY <1>6, AtElement
      <4> QED BY <4>1
    <3>2. spot <= OffsetOf(dims, p) /\ OffsetOf(dims, p) # spot
      BY <1>7, <2>8, <3>1
    <3>3. want[p] = 0
      BY <1>2, <2>1, <2>3, <3>2 DEF Agreeing
    <3> QED BY <1>2, <3>2, <3>3
  <2> QED BY <2>5, <2>6, <2>7, <2>8 DEF Agreeing
<1> QED BY <1>1, <1>2, <1>5, <1>8, <1>9 DEF PlacedInv

LEMMA ReadCloseStep ==
  ASSUME PlacedInv, ReadClose PROVE PlacedInv'
<1>1. Types /\ Nested(dims, lists, spot) /\ Paired(dims, calls, lists)
  BY DEF PlacedInv
<1>2. /\ phase = "convert" /\ calls # <<>> /\ ~ Head(calls).closing
      /\ calls' = <<[Head(calls) EXCEPT !.closing = TRUE]>> \o Tail(calls)
      /\ spot' = Head(lists).end /\ lists' = Tail(lists)
      /\ dims' = dims /\ phase' = phase /\ cur' = cur /\ init_list' = init_list
      /\ given' = given /\ want' = want /\ hard' = hard
  BY DEF ReadClose, Reading
<1>3. IsShape(dims) /\ Len(dims) \in Nat \ {0}
  BY <1>1, ShapeOfDims
<1>4. /\ calls \in Seq(Calls) /\ Head(calls) = calls[1] /\ calls[1] \in Calls
      /\ Tail(calls) \in Seq(Calls) /\ Len(Tail(calls)) = Len(calls) - 1 /\ Len(calls) \in Nat \ {0}
      /\ \A i \in 1 .. Len(calls) - 1 : Tail(calls)[i] = calls[i + 1]
  <2>1. calls \in Seq(Calls)
    BY <1>1 DEF Types
  <2> QED BY <1>2, <2>1, AtTail
<1>5. Ending(calls) = 0 /\ Len(lists) = Len(calls)
  BY <1>1, <1>2, <1>4 DEF Ending, Paired
<1>6. /\ lists \in Seq(Lists) /\ Head(lists) = lists[1] /\ lists[1] \in Lists
      /\ lists' \in Seq(Lists) /\ Len(lists') = Len(lists) - 1 /\ lists # <<>>
      /\ \A i \in 1 .. Len(lists) - 1 : lists'[i] = lists[i + 1]
  <2>1. lists \in Seq(Lists) /\ lists # <<>>
    BY <1>1, <1>4, <1>5 DEF Types
  <2> QED BY <1>2, <2>1, AtTail
<1>7. PICK call : call = [Head(calls) EXCEPT !.closing = TRUE]
  OBVIOUS
<1>8. call \in Calls /\ call.index = calls[1].index /\ call.iter_index = calls[1].iter_index /\ call.closing
  BY <1>4, <1>7 DEF Calls
<1>9. /\ calls' \in Seq(Calls) /\ Len(calls') = Len(calls) /\ calls' # <<>> /\ Head(calls') = call
      /\ calls'[1] = call /\ \A i \in 1 .. Len(calls) - 1 : calls'[i + 1] = calls[i + 1]
  <2>1. PICK s \in Seq(Calls) : s = Tail(calls)
    BY <1>4
  <2>2. calls' = <<call>> \o s
    BY <1>2, <1>7, <2>1
  <2>3. /\ calls' \in Seq(Calls) /\ Len(calls') = Len(s) + 1 /\ calls' # <<>> /\ Head(calls') = call
        /\ calls'[1] = call /\ \A i \in 1 .. Len(s) : calls'[i + 1] = s[i]
    BY <1>8, <2>2, AtFront
  <2> QED BY <1>4, <2>1, <2>3
<1>10. Ending(calls') = 1
  BY <1>8, <1>9 DEF Ending
<1>11. Types'
  BY <1>1, <1>2, <1>6, <1>9 DEF Types
<1>12. Paired(dims, calls', lists')
  <2>1. ASSUME NEW i \in 1 .. Len(calls')
        PROVE  calls'[i].index \in 1 .. Len(dims) /\ (i > 1 => ~ calls'[i].closing)
    <3>1. CASE i = 1
      <4>1. calls[1].index \in 1 .. Len(dims)
        BY <1>1, <1>4 DEF Paired
      <4> QED BY <1>8, <1>9, <3>1, <4>1
    <3>2. CASE i # 1
      <4>1. i - 1 \in 1 .. Len(calls) - 1 /\ i - 1 + 1 = i /\ i \in 1 .. Len(calls)
        BY <1>4, <1>9, <3>2
      <4>2. calls'[i] = calls[i]
        BY <1>9, <4>1
      <4> QED BY <1>1, <4>1, <4>2 DEF Paired
    <3> QED BY <3>1, <3>2
  <2> QED BY <1>5, <1>6, <1>9, <1>10, <2>1 DEF Paired
<1>13. Nested(dims, lists', lists[1].end)
  <2>1. lists[1].end \in 0 .. SizeOf(dims, 0)
    BY <1>1, <1>4, <1>5, <1>6 DEF Nested, Lists
  <2>2. ASSUME NEW i \in 1 .. Len(lists')
        PROVE  /\ lists'[i].depth \in 0 .. Len(dims) - 1 /\ lists'[i].end <= SizeOf(dims, 0)
               /\ IsEnd(dims, lists'[i].depth, lists'[i].end)
    <3>1. lists'[i] = lists[i + 1] /\ i + 1 \in 1 .. Len(lists)
      BY <1>4, <1>5, <1>6
    <3> QED BY <1>1, <3>1 DEF Nested
  <2>3. ASSUME NEW i \in 1 .. Len(lists') - 1
        PROVE  lists'[i].depth > 0 /\ Within(dims, lists'[i].end, lists'[i + 1])
    <3>1. i \in 1 .. Len(lists') /\ i + 1 \in 1 .. Len(lists') /\ i + 1 \in 1 .. Len(lists) - 1
      <4>1. Len(lists') = Len(lists) - 1 /\ Len(lists) \in Nat
        BY <1>4, <1>6
      <4> QED BY <4>1
    <3>2. lists'[i] = lists[i + 1] /\ lists'[i + 1] = lists[i + 1 + 1]
      <4>1. \A j \in 1 .. Len(lists') : lists'[j] = lists[j + 1]
        BY <1>5, <1>6
      <4> QED BY <3>1, <4>1
    <3> QED BY <1>1, <3>1, <3>2 DEF Nested
  <2>4. lists' # <<>> => Within(dims, lists[1].end, lists'[1])
    <3> SUFFICES ASSUME lists' # <<>> PROVE Within(dims, lists[1].end, lists'[1])
      OBVIOUS
    <3>1. 1 \in 1 .. Len(lists) - 1 /\ lists'[1] = lists[1 + 1]
      BY <1>4, <1>5, <1>6
    <3> QED BY <1>1, <3>1 DEF Nested
  <2> QED BY <2>1, <2>2, <2>3, <2>4 DEF Nested
<1>14. ASSUME ~ hard PROVE InStep(dims, cur, calls', lists', lists[1].end)
  <2>1. InStep(dims, cur, calls, lists, spot)
    BY <1>14 DEF PlacedInv
  <2>2. \A i \in 1 .. Len(lists) : Fills(dims, calls[i], lists[i].depth, lists[i].end)
    BY <1>5, <2>1 DEF InStep
  <2>3. ASSUME NEW i \in 1 .. Len(lists')
        PROVE  Fills(dims, calls'[i + Ending(calls')], lists'[i].depth, lists'[i].end)
    <3>1. i \in 1 .. Len(lists) - 1 /\ i + 1 \in 1 .. Len(lists)
      BY <1>4, <1>5, <1>6
    <3>2. lists'[i] = lists[i + 1] /\ calls'[i + 1] = calls[i + 1]
      BY <1>5, <1>6, <1>9, <3>1
    <3> QED BY <1>10, <2>2, <3>1, <3>2
  <2>4. PICK d : d = lists[1].depth
    OBVIOUS
  <2>5. 1 \in 1 .. Len(lists) /\ d \in 0 .. Len(dims) - 1 /\ Within(dims, spot, lists[1])
    BY <1>1, <1>4, <1>5, <1>6, <2>4 DEF Nested
  <2>6. Fills(dims, calls'[1], d, lists[1].end)
    <3>1. Fills(dims, calls[1], d, lists[1].end)
      BY <2>2, <2>4, <2>5
    <3> QED BY <1>8, <1>9, <3>1 DEF Fills
  <2>7. d = 0 => Len(calls') = 1
    <3>1. Len(calls') # 1 => 1 \in 1 .. Len(lists) - 1
      BY <1>4, <1>5, <1>9
    <3>2. Len(calls') # 1 => d > 0
      BY <1>1, <2>4, <3>1 DEF Nested
    <3> QED BY <2>5, <3>2
  <2>8. PositionOf(dims, cur) = spot
    BY <1>2, <1>5, <2>1 DEF InStep
  <2>9. lists[1].end <= PositionOf(dims, cur) + SizeOf(dims, d) /\ PositionOf(dims, cur) <= lists[1].end
    BY <2>4, <2>5, <2>8 DEF Within
  <2> QED BY <1>10, <2>3, <2>5, <2>6, <2>7, <2>9 DEF InStep
<1>15. spot' = lists[1].end
  BY <1>2, <1>6
<1>16. ~ hard => phase \notin {"lost", "past"} /\ Agreeing(dims, cur, calls', init_list, want)
  BY DEF PlacedInv, Agreeing, ReadClose, Reading
<1> QED BY <1>2, <1>11, <1>12, <1>13, <1>14, <1>15, <1>16 DEF PlacedInv

LEMMA ReadOpenStep ==
  ASSUME PlacedInv, ReadOpen PROVE PlacedInv'
<1>1. Types /\ Nested(dims, lists, spot) /\ Paired(dims, calls, lists)
  BY DEF PlacedInv
<1>2. PICK n \in Nat \ {0} : n = Len(dims)
  BY <1>1, ShapeOfDims
<1>3. IsShape(dims) /\ N = n
  BY <1>1, <1>2, ShapeOfDims
<1>4. PICK c : c = CurInitIndex
  OBVIOUS
<1>5. PICK d : d = Largest(Subarrays)
  OBVIOUS
<1>6. /\ phase = "convert" /\ calls # <<>> /\ ~ Head(calls).closing
      /\ lists # <<>> /\ spot < Head(lists).end
      /\ calls' = <<[index |-> c, iter_index |-> SubSeq(cur, 1, c), closing |-> FALSE]>> \o calls
      /\ lists' = <<[depth |-> d, end |-> spot + SizeOf(dims, d)]>> \o lists
      /\ hard' = (\/ hard
                  \/ Head(lists).depth > 0 /\ spot = Head(lists).end - SizeOf(dims, Head(lists).depth)
                  \/ d > 1 /\ spot + SizeOf(dims, d) = SizeOf(dims, 0))
      /\ dims' = dims /\ phase' = phase /\ cur' = cur /\ init_list' = init_list
      /\ given' = given /\ want' = want /\ spot' = spot
  BY <1>4, <1>5, Unprimed DEF ReadOpen, Reading, Room, ConvertList
<1>7. /\ lists \in Seq(Lists) /\ Head(lists) = lists[1] /\ lists[1] \in Lists /\ Len(lists) \in Nat \ {0}
      /\ lists[1].depth \in 0 .. n - 1 /\ lists[1].end \in Nat
  <2>1. lists \in Seq(Lists)
    BY <1>1 DEF Types
  <2>2. Head(lists) = lists[1] /\ lists[1] \in Lists /\ Len(lists) \in Nat \ {0}
    BY <1>6, <2>1, AtTail
  <2> QED BY <1>1, <1>2, <2>1, <2>2 DEF Nested, Lists
<1>8. /\ d \in lists[1].depth + 1 .. n - 1 /\ spot % SizeOf(dims, d) = 0
      /\ \A e \in lists[1].depth + 1 .. n - 1 : spot % SizeOf(dims, e) = 0 => d <= e
  <2>1. Subarrays = {e \in lists[1].depth + 1 .. n - 1 : spot % SizeOf(dims, e) = 0}
    BY <1>3, <1>7, Unprimed DEF Subarrays
  <2>2. Subarrays \in SUBSET Nat /\ Subarrays # {}
    BY <1>7, <2>1 DEF ReadOpen
  <2>3. \E e \in Subarrays : \A f \in Subarrays : e <= f
    BY <2>2, LeastElement
  <2>4. d \in Subarrays /\ \A f \in Subarrays : d <= f
    BY <1>5, <2>3 DEF Largest
  <2> QED BY <2>1, <2>4
<1>9. /\ Nested(dims, lists', spot) /\ lists' \in Seq(Lists)
      /\ spot + SizeOf(dims, d) <= SizeOf(dims, 0)
  BY <1>1, <1>2, <1>3, <1>6, <1>7, <1>8, OpenNested
<1>10. /\ cur \in [1 .. n -> Nat] /\ cur \in ElementsOf(dims) \cup {dims}
  <2>1. cur \in ElementsOf(dims) \cup {dims}
    BY <1>1 DEF Types, ReadOpen, Reading
  <2>2. dims \in [1 .. n -> Nat]
    BY <1>2, <1>3 DEF IsShape
  <2>3. cur \in ElementsOf(dims) => cur \in [1 .. n -> Nat]
    BY <1>2, <1>3, ElementsAre
  <2> QED BY <2>1, <2>2, <2>3
<1>11. /\ c \in 1 .. n
       /\ \A i \in c + 1 .. n : cur[i] = 0
       /\ c # 1 => cur[c] # 0
  BY <1>2, <1>4, <1>10, IndexIs
<1>12. PICK call : call = [index |-> c, iter_index |-> SubSeq(cur, 1, c), closing |-> FALSE]
  OBVIOUS
<1>13. call \in Calls /\ call.index = c /\ call.iter_index = SubSeq(cur, 1, c) /\ ~ call.closing
  <2>1. SubSeq(cur, 1, c) \in Seq(Nat)
    <3>1. cur \in Seq(Nat) /\ Len(cur) = n
      BY <1>10
    <3> QED BY <1>11, <3>1
  <2> QED BY <1>11, <1>12, <2>1 DEF Calls
<1>14. /\ calls \in Seq(Calls) /\ calls' \in Seq(Calls) /\ Len(calls') = Len(calls) + 1 /\ calls' # <<>>
       /\ Head(calls') = call /\ calls'[1] = call /\ \A i \in 1 .. Len(calls) : calls'[i + 1] = calls[i]
       /\ Len(calls) \in Nat \ {0} /\ Head(calls) = calls[1]
  <2>1. calls \in Seq(Calls)
    BY <1>1 DEF Types
  <2>2. calls' = <<call>> \o calls
    BY <1>6, <1>12
  <2>3. Len(calls) \in Nat \ {0} /\ Head(calls) = calls[1]
    BY <1>6, <2>1, AtTail
  <2> QED BY <1>13, <2>1, <2>2, <2>3, AtFront
<1>15. Ending(calls') = 0 /\ Ending(calls) = 0 /\ Len(lists) = Len(calls)
  BY <1>1, <1>6, <1>7, <1>13, <1>14 DEF Ending, Paired
<1>16. PICK l : l = [depth |-> d, end |-> spot + SizeOf(dims, d)]
  OBVIOUS
<1>17. /\ Len(lists') = Len(lists) + 1 /\ lists'[1] = l /\ l.depth = d /\ l.end = spot + SizeOf(dims, d)
       /\ \A i \in 1 .. Len(lists) : lists'[i + 1] = lists[i]
  <2>1. l \in Lists
    <3>1. d \in 0 .. n /\ d \in Nat
      BY <1>7, <1>8
    <3>2. SizeOf(dims, d) \in Nat /\ spot \in Nat
      <4>1. 0 \in 0 .. n
        OBVIOUS
      <4>2. SizeOf(dims, 0) \in Nat /\ SizeOf(dims, d) \in Nat
        BY <1>2, <1>3, <3>1, <4>1, Sizes
      <4> QED BY <1>1, <4>2 DEF Nested
    <3> QED BY <1>16, <3>1, <3>2 DEF Lists
  <2>2. lists' = <<l>> \o lists
    BY <1>6, <1>16
  <2> QED BY <1>7, <1>16, <2>1, <2>2, AtFront
<1>18. Paired(dims, calls', lists')
  <2>1. ASSUME NEW i \in 1 .. Len(calls')
        PROVE  calls'[i].index \in 1 .. Len(dims) /\ (i > 1 => ~ calls'[i].closing)
    <3>1. CASE i = 1
      BY <1>2, <1>11, <1>13, <1>14, <3>1
    <3>2. CASE i # 1
      <4>1. i - 1 \in 1 .. Len(calls) /\ i - 1 + 1 = i
        BY <1>14, <3>2
      <4>2. calls'[i] = calls[i - 1]
        BY <1>14, <4>1
      <4>3. ~ calls[i - 1].closing /\ calls[i - 1].index \in 1 .. Len(dims)
        BY <1>1, <1>6, <1>14, <4>1 DEF Paired
      <4> QED BY <4>2, <4>3
    <3> QED BY <3>1, <3>2
  <2> QED BY <1>14, <1>15, <1>17, <2>1 DEF Paired
<1>19. Types'
  BY <1>1, <1>6, <1>9, <1>14 DEF Types
<1>20. ASSUME ~ hard' PROVE InStep(dims, cur, calls', lists', spot) /\ ~ hard
  <2>1. /\ ~ hard
        /\ ~ (lists[1].depth > 0 /\ spot = lists[1].end - SizeOf(dims, lists[1].depth))
        /\ ~ (d > 1 /\ spot + SizeOf(dims, d) = SizeOf(dims, 0))
    BY <1>6, <1>7, <1>20
  <2>2. InStep(dims, cur, calls, lists, spot)
    BY <2>1 DEF PlacedInv
  <2>3. PositionOf(dims, cur) = spot
    BY <1>6, <1>15, <2>2 DEF InStep
  <2>4. /\ lists[1].end <= SizeOf(dims, 0) /\ Within(dims, spot, lists[1])
        /\ SizeOf(dims, 0) \in Nat /\ SizeOf(dims, lists[1].depth) \in Nat \ {0} /\ SizeOf(dims, d) \in Nat
        /\ spot \in Nat
    <3>1. lists[1].depth \in 0 .. n /\ 0 \in 0 .. n /\ d \in 0 .. n
      BY <1>7, <1>8
    <3>2. SizeOf(dims, 0) \in Nat /\ SizeOf(dims, lists[1].depth) \in Nat \ {0} /\ SizeOf(dims, d) \in Nat
      BY <1>2, <1>3, <3>1, Sizes
    <3> QED BY <1>1, <1>6, <1>7, <3>2 DEF Nested
  <2>5. cur \in ElementsOf(dims) /\ OffsetOf(dims, cur) = spot
    <3>1. PositionOf(dims, cur) # SizeOf(dims, 0)
      BY <1>6, <1>7, <2>3, <2>4
    <3> QED BY <1>3, <1>10, <2>3, <3>1, AtElement
  <2>6. PICK h : h = Selected(dims, cur)
    OBVIOUS
  <2>7. \A e \in 0 .. n :
          /\ (\A i \in e + 1 .. n : cur[i] = 0) <=> spot = h[e] * SizeOf(dims, e)
          /\ (\A i \in e + 1 .. n : cur[i] = 0) <=> spot % SizeOf(dims, e) = 0
    BY <1>2, <1>3, <2>5, <2>6, Beginning
  <2>8. c = d
    <3>1. d <= n - 1 /\ d \in Nat /\ d \in 0 .. n /\ c \in 0 .. n /\ d >= lists[1].depth + 1
      BY <1>7, <1>8, <1>11
    <3>2. c = 1 \/ c <= d
      <4>1. \A i \in d + 1 .. n : cur[i] = 0
        BY <1>8, <2>7, <3>1
      <4> QED BY <1>11, <3>1, <4>1
    <3>3. d <= c
      <4>1. spot % SizeOf(dims, c) = 0
        BY <1>11, <2>7, <3>1
      <4>2. c > lists[1].depth
        <5>1. CASE lists[1].depth = 0
          BY <1>11, <5>1
        <5>2. CASE lists[1].depth # 0
          <6> SUFFICES ASSUME ~ (c > lists[1].depth) PROVE FALSE
            OBVIOUS
          <6>1. PICK e \in 0 .. n : e = lists[1].depth /\ c <= e /\ e > 0
            BY <1>7, <1>11, <5>2
          <6>2. \A i \in e + 1 .. n : cur[i] = 0
            BY <1>11, <6>1
          <6>3. spot = h[e] * SizeOf(dims, e) /\ h[e] \in Nat
            <7>1. h[e] \in Nat
              BY <1>2, <1>3, <2>5, <2>6, <6>1, Subarray
            <7> QED BY <2>7, <6>2, <7>1
          <6>4. PICK m \in Nat : lists[1].end = (m + 1) * SizeOf(dims, e)
            <7>1. IsEnd(dims, e, lists[1].end)
              BY <1>1, <1>7, <6>1 DEF Nested
            <7> QED BY <7>1 DEF IsEnd
          <6>5. PICK v \in Nat \ {0}, a \in Nat : v = SizeOf(dims, e) /\ a = h[e]
            BY <2>4, <6>1, <6>3
          <6>6. /\ spot = a * v /\ (m + 1) * v <= spot + v /\ spot < (m + 1) * v
                /\ spot # (m + 1) * v - v
            BY <1>6, <1>7, <2>1, <2>4, <6>1, <6>3, <6>4, <6>5 DEF Within
          <6>7. (m + 1) * v = m * v + v /\ m * v \in Nat /\ a * v \in Nat
            OBVIOUS
          <6>8. m * v <= a * v /\ a * v < m * v + v /\ a * v # m * v
            BY <6>6, <6>7
          <6>9. (a + 1) * v = a * v + v
            OBVIOUS
          <6>10. a < m => (a + 1) * v <= m * v
            BY Division
          <6>11. m < a => (m + 1) * v <= a * v
            BY Division
          <6>12. ~ (a < m) /\ ~ (m < a) /\ a # m
            BY <6>7, <6>8, <6>9, <6>10, <6>11
          <6> QED BY <6>12
        <5> QED BY <5>1, <5>2
      <4>3. c <= n - 1 => d <= c
        <5>1. c <= n - 1 => c \in lists[1].depth + 1 .. n - 1
          BY <1>7, <1>11, <4>2
        <5> QED BY <1>8, <4>1, <5>1
      <4> QED BY <1>11, <3>1, <4>3
    <3> QED BY <1>7, <1>11, <3>1, <3>2, <3>3
  <2>9. Fills(dims, call, d, spot + SizeOf(dims, d))
    <3>1. d \in 1 .. n /\ d # 0 /\ d \in 0 .. n /\ d \in Nat
      BY <1>11, <2>8
    <3>2. spot = h[d] * SizeOf(dims, d)
      BY <1>11, <2>7, <2>8, <3>1
    <3>3. h[d] \in Nat
      BY <1>2, <1>3, <2>5, <2>6, <3>1, Subarray
    <3>4. spot + SizeOf(dims, d) = (h[d] + 1) * SizeOf(dims, d)
      <4>1. PICK a \in Nat, v \in Nat : a = h[d] /\ v = SizeOf(dims, d)
        BY <2>4, <3>3
      <4>2. a * v + v = (a + 1) * v
        OBVIOUS
      <4> QED BY <3>2, <4>1, <4>2
    <3>5. d > 1 => spot + SizeOf(dims, d) < SizeOf(dims, 0)
      BY <1>9, <2>1, <2>4
    <3> QED BY <1>13, <2>5, <2>6, <2>8, <3>1, <3>4, <3>5 DEF Fills
  <2>10. ASSUME NEW i \in 1 .. Len(lists')
         PROVE  Fills(dims, calls'[i + Ending(calls')], lists'[i].depth, lists'[i].end)
    <3>0. i + Ending(calls') = i
      BY <1>15
    <3>1. CASE i = 1
      BY <1>14, <1>17, <2>9, <3>0, <3>1
    <3>2. CASE i # 1
      <4>1. i - 1 \in 1 .. Len(lists) /\ i - 1 + 1 = i
        BY <1>7, <1>17, <3>2
      <4>2. calls'[i] = calls[i - 1] /\ lists'[i] = lists[i - 1]
        BY <1>14, <1>15, <1>17, <4>1
      <4>3. Fills(dims, calls[i - 1], lists[i - 1].depth, lists[i - 1].end)
        <5>1. i - 1 + Ending(calls) = i - 1
          BY <1>15, <4>1
        <5>2. Fills(dims, calls[i - 1 + Ending(calls)], lists[i - 1].depth, lists[i - 1].end)
          BY <2>2, <4>1 DEF InStep
        <5> QED BY <5>1, <5>2
      <4> QED BY <3>0, <4>2, <4>3
    <3> QED BY <3>1, <3>2
  <2> QED BY <1>15, <2>1, <2>3, <2>10 DEF InStep
<1>21. ~ hard => phase \notin {"lost", "past"} /\ Agreeing(dims, cur, calls', init_list, want)
  BY DEF PlacedInv, Agreeing, ReadOpen, Reading
<1> QED BY <1>6, <1>9, <1>18, <1>19, <1>20, <1>21 DEF PlacedInv

\* While a list is ending its call asks whether the iterators are still in its
\* subarray, by its iter_index.
LEMMA Zeros ==
  ASSUME Types, phase = "convert", calls # <<>>, Head(calls) = calls[1],
         Paired(dims, calls, lists), NEW n \in Nat \ {0}, n = Len(dims), NEW d \in 0 .. n - 1, NEW end \in 0 .. SizeOf(dims, 0),
         Fills(dims, calls[1], d, end),
         d > 0 => /\ end <= PositionOf(dims, cur) + SizeOf(dims, d)
                  /\ PositionOf(dims, cur) <= end
  PROVE  /\ NeedsZero(Head(calls)) => cur \in ElementsOf(dims)
         /\ NeedsZero(Head(calls)) /\ d > 0 => PositionOf(dims, cur) < end
         /\ ~ NeedsZero(Head(calls)) /\ d > 0 =>
              PositionOf(dims, cur) = end /\ (cur = dims => calls[1].index = 1)
<1>1. IsShape(dims) /\ cur \in ElementsOf(dims) \cup {dims}
  BY ShapeOfDims DEF Types
<1>2. dims \in [1 .. n -> Nat \ {0}]
  BY <1>1 DEF IsShape
<1>3. dims \in [1 .. n -> Nat] /\ cur \in [1 .. n -> Nat]
  <2>1. dims \in [1 .. n -> Nat]
    BY <1>2
  <2>2. cur \in ElementsOf(dims) => cur \in [1 .. n -> Nat]
    BY <1>1, ElementsAre
  <2> QED BY <1>1, <2>1, <2>2
<1>4. NeedsZero(Head(calls)) <=> SubSeq(cur, 1, calls[1].index) = calls[1].iter_index
  BY DEF NeedsZero
<1>5. CASE d = 0
  <2>1. calls[1].index = 1 /\ calls[1].iter_index = <<0>>
    BY <1>5 DEF Fills
  <2>2. cur = dims => SubSeq(cur, 1, 1) # <<0>>
    <3>1. dims \in Seq(Nat) /\ 1 \in 1 .. n /\ Len(dims) = n
      BY <1>1 DEF IsShape
    <3>2. SubSeq(dims, 1, 1)[1] = dims[1] /\ dims[1] # 0
      BY <1>2, <3>1
    <3>3. <<0>>[1] = 0
      OBVIOUS
    <3> QED BY <3>2, <3>3
  <2> QED BY <1>1, <1>4, <1>5, <2>1, <2>2
<1>6. CASE d # 0
  <2>1. d \in 1 .. n /\ d \in 0 .. n /\ d > 0
    BY <1>6
  <2>2. PICK q \in ElementsOf(dims) : /\ calls[1].iter_index = SubSeq(q, 1, d)
                                      /\ end = (Selected(dims, q)[d] + 1) * SizeOf(dims, d)
    BY <1>6 DEF Fills
  <2>3. calls[1].index = d /\ (d > 1 => end < SizeOf(dims, 0))
    BY <1>6 DEF Fills
  <2>4. q \in [1 .. n -> Nat] /\ \A i \in 1 .. n : q[i] < dims[i]
    BY <1>1, ElementsAre
  <2>5. NeedsZero(Head(calls)) <=> Agree(cur, q, d)
    <3>1. SubSeq(cur, 1, d) = SubSeq(q, 1, d) <=> Agree(cur, q, d)
      BY <1>3, <2>1, <2>4, SamePrefix
    <3> QED BY <1>4, <2>2, <2>3, <3>1
  <2>6. CASE cur = dims
    <3>1. ~ Agree(cur, q, d)
      <4>1. 1 \in 1 .. d /\ 1 \in 1 .. n
        BY <1>3, <2>1
      <4>2. q[1] < dims[1] /\ q[1] \in Nat
        BY <2>4, <4>1
      <4>3. q[1] # dims[1]
        BY <4>2
      <4> QED BY <2>6, <4>1, <4>3 DEF Agree
    <3>2. PositionOf(dims, cur) = SizeOf(dims, 0) /\ SizeOf(dims, 0) \in Nat
      <4>1. SizeOf(dims, 0) \in Nat
        <5>1. 0 \in 0 .. n
          OBVIOUS
        <5> QED BY <1>1, <5>1, Sizes
      <4> QED BY <2>6, <4>1 DEF PositionOf
    <3>3. PositionOf(dims, cur) = end /\ d = 1
      BY <2>1, <2>3, <3>2
    <3> QED BY <2>3, <2>5, <3>1, <3>3
  <2>7. CASE cur \in ElementsOf(dims)
    <3>1. PICK h, k : h = Selected(dims, cur) /\ k = Selected(dims, q)
      OBVIOUS
    <3>2. Agree(cur, q, d) <=> h[d] = k[d]
      BY <1>1, <2>1, <2>7, <3>1, SameSubarray
    <3>3. /\ OffsetOf(dims, cur) \in Nat /\ h[d] \in Nat
          /\ OffsetOf(dims, cur) < (h[d] + 1) * SizeOf(dims, d)
          /\ \A m \in Nat : /\ m * SizeOf(dims, d) <= OffsetOf(dims, cur)
                            /\ OffsetOf(dims, cur) < (m + 1) * SizeOf(dims, d)
                            => h[d] = m
      BY <1>1, <2>1, <2>7, <3>1, Subarray
    <3>4. k[d] \in Nat
      BY <1>1, <2>1, <3>1, Subarray
    <3>5. SizeOf(dims, d) \in Nat
      BY <1>1, <2>1, Sizes
    <3>6. PICK a \in Nat, v \in Nat : a = k[d] /\ v = SizeOf(dims, d)
      BY <3>4, <3>5
    <3>7. a * v \in Nat /\ (a + 1) * v = a * v + v
      OBVIOUS
    <3>8. PositionOf(dims, cur) = OffsetOf(dims, cur) /\ cur # dims
      BY <1>1, <2>7, AtElement
    <3>9. end = a * v + v
      BY <2>2, <3>1, <3>6, <3>7
    <3>10. end <= OffsetOf(dims, cur) + v /\ OffsetOf(dims, cur) <= end
      BY <2>1, <3>6, <3>8
    <3>11. a * v <= OffsetOf(dims, cur)
      BY <3>3, <3>7, <3>9, <3>10
    <3>12. OffsetOf(dims, cur) < end <=> h[d] = k[d]
      <4>1. h[d] = k[d] => OffsetOf(dims, cur) < end
        BY <3>3, <3>6, <3>7, <3>9
      <4>2. OffsetOf(dims, cur) < end => h[d] = a
        BY <3>3, <3>6, <3>7, <3>9, <3>11
      <4> QED BY <3>6, <4>1, <4>2
    <3>13. ~ (OffsetOf(dims, cur) < end) => OffsetOf(dims, cur) = end
      BY <3>3, <3>7, <3>9, <3>10
    <3> QED BY <2>5, <2>7, <3>2, <3>8, <3>12, <3>13
  <2> QED BY <1>1, <2>6, <2>7
<1> QED BY <1>5, <1>6

LEMMA ClosingCall ==
  ASSUME PlacedInv, Closing
  PROVE  /\ phase = "convert" /\ calls # <<>> /\ Head(calls).closing
         /\ calls \in Seq(Calls) /\ Head(calls) = calls[1] /\ Len(calls) \in Nat \ {0}
         /\ Ending(calls) = 1 /\ Len(lists) = Len(calls) - 1
         /\ spot \in 0 .. SizeOf(dims, 0)
<1>1. phase = "convert" /\ calls # <<>> /\ Head(calls).closing /\ calls \in Seq(Calls)
  BY DEF Closing, PlacedInv, Types
<1>2. Head(calls) = calls[1] /\ Len(calls) \in Nat \ {0}
  BY <1>1, AtTail
<1> QED BY <1>1, <1>2 DEF PlacedInv, Paired, Ending, Nested

LEMMA FillZeroStep ==
  ASSUME PlacedInv, FillZero PROVE PlacedInv'
<1>1. Types /\ Nested(dims, lists, spot) /\ Paired(dims, calls, lists)
  BY DEF PlacedInv
<1>2. /\ Closing /\ NeedsZero(Head(calls)) /\ ConvertValue(0)
      /\ dims' = dims /\ calls' = calls /\ given' = given /\ lists' = lists /\ spot' = spot
      /\ want' = want /\ hard' = hard
  BY DEF FillZero, ruleVars
<1>3. /\ phase = "convert" /\ calls # <<>> /\ Head(calls).closing
      /\ calls \in Seq(Calls) /\ Head(calls) = calls[1] /\ Len(calls) \in Nat \ {0}
      /\ Ending(calls) = 1 /\ spot \in 0 .. SizeOf(dims, 0)
  BY <1>2, ClosingCall
<1>4. IsShape(dims) /\ Len(dims) \in Nat \ {0}
  BY <1>1, ShapeOfDims
<1>5. given \in Nat /\ 0 <= given /\ given <= given /\ 0 \in Nat
  BY <1>1 DEF Types
<1>6. /\ phase' \in {"convert", "lost"}
      /\ cur' \in ElementsOf(dims) \cup {dims}
      /\ init_list' \in [ElementsOf(dims) -> 0 .. given]
      /\ cur # dims => /\ phase' = "convert"
                       /\ init_list' = [init_list EXCEPT ![cur] = 0]
                       /\ PositionOf(dims, cur') = PositionOf(dims, cur) + 1
  BY <1>1, <1>2, <1>3, <1>5, Converted
<1>7. Types'
  BY <1>1, <1>2, <1>6 DEF Types
<1>8. ASSUME ~ hard
      PROVE  /\ phase' \notin {"lost", "past"}
             /\ InStep(dims, cur', calls, lists, spot)
             /\ Agreeing(dims, cur', calls, init_list', want)
  <2>1. InStep(dims, cur, calls, lists, spot) /\ Agreeing(dims, cur, calls, init_list, want)
    BY <1>8 DEF PlacedInv
  <2>2. PICK d \in 0 .. Len(dims) - 1 :
          /\ Fills(dims, calls[1], d, spot)
          /\ d = 0 => Len(calls) = 1
          /\ d > 0 => /\ spot <= PositionOf(dims, cur) + SizeOf(dims, d)
                      /\ PositionOf(dims, cur) <= spot
    BY <1>3, <2>1 DEF InStep
  <2>3. cur \in ElementsOf(dims) /\ (d > 0 => PositionOf(dims, cur) < spot)
    BY <1>1, <1>2, <1>3, <1>4, <2>2, Zeros
  <2>4. cur # dims /\ OffsetOf(dims, cur) = PositionOf(dims, cur) /\ PositionOf(dims, cur) \in Nat
    BY <1>4, <2>3, AtElement
  <2>5. phase' \notin {"lost", "past"} /\ init_list' = [init_list EXCEPT ![cur] = 0]
        /\ PositionOf(dims, cur') = PositionOf(dims, cur) + 1
    BY <1>6, <2>4
  <2>6. InStep(dims, cur', calls, lists, spot)
    <3>1. d > 0 => /\ spot <= PositionOf(dims, cur') + SizeOf(dims, d)
                   /\ PositionOf(dims, cur') <= spot
      <4>1. SizeOf(dims, d) \in Nat
        <5>1. d \in 0 .. Len(dims)
          BY <1>4
        <5> QED BY <1>4, <5>1, Sizes
      <4>2. spot \in Nat
        BY <1>1, <1>3
      <4> QED BY <2>2, <2>3, <2>4, <2>5, <4>1, <4>2
    <3> QED BY <1>3, <2>1, <2>2, <3>1 DEF InStep
  <2>7. init_list' = want
    <3>1. init_list = want /\ want \in [ElementsOf(dims) -> 0 .. given] /\ want[cur] = 0
      BY <1>1, <1>3, <2>1, <2>3, <2>4 DEF Agreeing, Types
    <3> QED BY <2>3, <2>5, <3>1
  <2>8. ASSUME NEW p \in ElementsOf(dims), PositionOf(dims, cur') <= OffsetOf(dims, p) PROVE want[p] = 0
    <3>1. OffsetOf(dims, p) \in Nat
      <4>1. PositionOf(dims, p) \in 0 .. SizeOf(dims, 0) /\ PositionOf(dims, p) = OffsetOf(dims, p)
        BY <1>4, AtElement
      <4> QED BY <4>1
    <3>2. PositionOf(dims, cur) <= OffsetOf(dims, p)
      BY <2>4, <2>5, <2>8, <3>1
    <3> QED BY <1>3, <2>1, <3>2 DEF Agreeing
  <2> QED BY <2>5, <2>6, <2>7, <2>8 DEF Agreeing
<1> QED BY <1>1, <1>2, <1>7, <1>8 DEF PlacedInv

\* The iterators inside the dimension k start again, those before it stay.
Reset(c, k) == [i \in 1..N |-> IF i <= k THEN c[i] ELSE 0]

\* Behind a list the iterators that it starts again stand at the beginning of a
\* subarray already, if the list was in step with the rule.
LEMMA ResetIsIdle ==
  ASSUME IsShape(dims), NEW n \in Nat \ {0}, n = Len(dims), NEW d \in 1 .. n - 1,
         cur \in ElementsOf(dims), NEW end,
         Fills(dims, calls[1], d, end), PositionOf(dims, cur) = end
  PROVE  Reset(cur, d) = cur
<1>1. PICK q \in ElementsOf(dims) : end = (Selected(dims, q)[d] + 1) * SizeOf(dims, d)
  BY DEF Fills
<1>2. d \in 0 .. n /\ d \in 1 .. n
  OBVIOUS
<1>3. PICK h, k : h = Selected(dims, cur) /\ k = Selected(dims, q)
  OBVIOUS
<1>4. OffsetOf(dims, cur) = (k[d] + 1) * SizeOf(dims, d)
  BY <1>1, <1>3, AtElement
<1>5. k[d] \in Nat
  BY <1>2, <1>3, Subarray
<1>6. SizeOf(dims, d) \in Nat \ {0}
  BY <1>2, Sizes
<1>7. h[d] = k[d] + 1
  <2>1. PICK m \in Nat, v \in Nat \ {0} : m = k[d] + 1 /\ v = SizeOf(dims, d)
    BY <1>5, <1>6
  <2>2. m * v <= m * v /\ m * v < (m + 1) * v
    OBVIOUS
  <2>3. m * v <= OffsetOf(dims, cur) /\ OffsetOf(dims, cur) < (m + 1) * v
    BY <1>4, <2>1, <2>2
  <2>4. \A j \in Nat : /\ j * SizeOf(dims, d) <= OffsetOf(dims, cur)
                       /\ OffsetOf(dims, cur) < (j + 1) * SizeOf(dims, d)
                       => h[d] = j
    BY <1>2, <1>3, Subarray
  <2>5. h[d] = m
    BY <2>1, <2>3, <2>4
  <2> QED BY <2>1, <2>5
<1>8. \A i \in d + 1 .. n : cur[i] = 0
  BY <1>2, <1>3, <1>4, <1>7, Beginning
<1>9. N = n /\ cur \in [1 .. n -> Nat]
  BY ElementsAre DEF N
<1> QED BY <1>8, <1>9 DEF Reset

LEMMA ResetIn ==
  ASSUME IsShape(dims), cur \in ElementsOf(dims), NEW k \in Nat
  PROVE  Reset(cur, k) \in ElementsOf(dims)
<1>1. PICK n \in Nat \ {0} : n = Len(dims)
  BY DEF IsShape
<1>2. N = n /\ cur \in [1 .. n -> Nat] /\ \A i \in 1 .. n : cur[i] < dims[i]
  BY <1>1, ElementsAre DEF N
<1>3. \A i \in 1 .. n : 0 < dims[i]
  BY <1>1 DEF IsShape
<1>4. Reset(cur, k) \in [1 .. n -> Nat] /\ \A i \in 1 .. n : Reset(cur, k)[i] < dims[i]
  BY <1>2, <1>3 DEF Reset
<1> QED BY <1>1, <1>4, ElementsAre

LEMMA EndListStep ==
  ASSUME PlacedInv, EndList PROVE PlacedInv'
<1>1. Types /\ Nested(dims, lists, spot) /\ Paired(dims, calls, lists)
  BY DEF PlacedInv
<1>2. /\ Closing /\ ~ NeedsZero(Head(calls))
      /\ calls' = Tail(calls)
      /\ init_list' = init_list
      /\ dims' = dims /\ given' = given /\ lists' = lists /\ spot' = spot
      /\ want' = want /\ hard' = hard
  BY DEF EndList, ConvertListEnd, ruleVars
<1>3. /\ phase = "convert" /\ calls # <<>> /\ Head(calls).closing
      /\ calls \in Seq(Calls) /\ Head(calls) = calls[1] /\ Len(calls) \in Nat \ {0}
      /\ Ending(calls) = 1 /\ Len(lists) = Len(calls) - 1 /\ spot \in 0 .. SizeOf(dims, 0)
  BY <1>2, ClosingCall
<1>4. IsShape(dims) /\ Len(dims) \in Nat \ {0}
  BY <1>1, ShapeOfDims
<1>5. /\ calls' \in Seq(Calls) /\ Len(calls') = Len(calls) - 1
      /\ \A i \in 1 .. Len(calls) - 1 : calls'[i] = calls[i + 1]
  BY <1>2, <1>3, AtTail
<1>6. calls[1].index \in 1 .. Len(dims) /\ cur \in ElementsOf(dims) \cup {dims}
  <2>1. 1 \in 1 .. Len(calls)
    BY <1>3
  <2> QED BY <1>1, <1>3, <2>1 DEF Paired, Types
<1>12. LET k == calls[1].index IN
       \/ cur # dims /\ cur' = Reset(cur, k) /\ phase' = "convert"
       \/ cur = dims /\ k = 1 /\ cur' = cur /\ phase' = "convert"
       \/ cur = dims /\ k > 1 /\ cur' = [cur EXCEPT ![k - 1] = @ + 1] /\ phase' = "past"
  BY <1>3 DEF EndList, ConvertListEnd, End, Reset
<1>13. Types'
  <2>1. /\ cur' \in ElementsOf(dims) \cup {dims} \/ (phase' = "past" /\ IsPast(dims, cur'))
        /\ phase' \in {"convert", "past"}
    <3> DEFINE k == calls[1].index
    <3>1. CASE cur # dims /\ cur' = Reset(cur, k) /\ phase' = "convert"
      <4>1. cur \in ElementsOf(dims) /\ k \in Nat
        BY <1>4, <1>6, <3>1
      <4> QED BY <1>4, <3>1, <4>1, ResetIn
    <3>2. CASE cur = dims /\ k = 1 /\ cur' = cur /\ phase' = "convert"
      BY <3>2
    <3>3. CASE cur = dims /\ k > 1 /\ cur' = [cur EXCEPT ![k - 1] = @ + 1] /\ phase' = "past"
      <4>1. k - 1 \in 1 .. Len(dims) - 1
        BY <1>4, <1>6, <3>3
      <4> QED BY <3>3, <4>1 DEF IsPast
    <3> QED BY <1>12, <3>1, <3>2, <3>3
  <2> QED BY <1>1, <1>2, <1>5, <2>1 DEF Types
<1>7. \A i \in 1 .. Len(calls') : calls'[i].index \in 1 .. Len(dims) /\ ~ calls'[i].closing
  <2> SUFFICES ASSUME NEW i \in 1 .. Len(calls')
               PROVE  calls'[i].index \in 1 .. Len(dims) /\ ~ calls'[i].closing
    OBVIOUS
  <2>1. i + 1 \in 1 .. Len(calls) /\ i + 1 > 1 /\ calls'[i] = calls[i + 1]
    BY <1>3, <1>5
  <2> QED BY <1>1, <2>1 DEF Paired
<1>8. Ending(calls') = 0
  <2>1. calls' # <<>> => Head(calls') = calls'[1] /\ 1 \in 1 .. Len(calls')
    BY <1>5, AtTail
  <2> QED BY <1>7, <2>1 DEF Ending
<1>9. Paired(dims, calls', lists)
  BY <1>3, <1>5, <1>7, <1>8 DEF Paired
<1>10. ASSUME ~ hard
       PROVE  /\ phase' \notin {"lost", "past"}
              /\ InStep(dims, cur', calls', lists, spot)
              /\ calls' # <<>> => cur' = cur
  <2>1. InStep(dims, cur, calls, lists, spot)
    BY <1>10 DEF PlacedInv
  <2>2. PICK d \in 0 .. Len(dims) - 1 :
          /\ Fills(dims, calls[1], d, spot)
          /\ d = 0 => Len(calls) = 1
          /\ d > 0 => /\ spot <= PositionOf(dims, cur) + SizeOf(dims, d)
                      /\ PositionOf(dims, cur) <= spot
    BY <1>3, <2>1 DEF InStep
  <2>3. d > 0 => PositionOf(dims, cur) = spot /\ (cur = dims => calls[1].index = 1)
    BY <1>1, <1>2, <1>3, <1>4, <2>2, Zeros
  <2>4. d = 0 => calls[1].index = 1 /\ calls' = <<>>
    <3>1. d = 0 => calls[1].index = 1
      BY <2>2 DEF Fills
    <3>2. d = 0 => calls' = <<>>
      <4>1. d = 0 => Len(calls) = 1
        BY <2>2
      <4>2. d = 0 => Len(calls') = 0
        <5>1. Len(calls') = Len(calls) - 1
          BY <1>5
        <5> QED BY <4>1, <5>1
      <4> QED BY <1>5, <4>2, EmptySeq
    <3> QED BY <3>1, <3>2
  <2>5. phase' \notin {"lost", "past"} /\ (cur = dims => cur' = cur)
    BY <1>12, <2>2, <2>3, <2>4
  <2>8. calls' # <<>> => cur' = cur /\ PositionOf(dims, cur) = spot
    <3>1. SUFFICES ASSUME d > 0, cur # dims PROVE cur' = cur
      BY <2>2, <2>3, <2>4, <2>5
    <3>2. /\ d \in 1 .. Len(dims) - 1 /\ cur \in ElementsOf(dims)
          /\ PositionOf(dims, cur) = spot /\ calls[1].index = d
      BY <1>4, <1>6, <2>2, <2>3, <3>1 DEF Fills
    <3>3. Reset(cur, d) = cur
      BY <1>4, <2>2, <3>2, ResetIsIdle
    <3> QED BY <1>12, <3>1, <3>2, <3>3
  <2>6. calls' # <<>> => PositionOf(dims, cur') = spot
    BY <2>8
  <2>7. ASSUME NEW i \in 1 .. Len(lists)
        PROVE  Fills(dims, calls'[i + Ending(calls')], lists[i].depth, lists[i].end)
    <3>1. i + Ending(calls') = i /\ i \in 1 .. Len(calls) - 1 /\ i + Ending(calls) = i + 1
      BY <1>3, <1>8
    <3>2. calls'[i] = calls[i + 1]
      BY <1>5, <3>1
    <3>3. Fills(dims, calls[i + Ending(calls)], lists[i].depth, lists[i].end)
      BY <2>1 DEF InStep
    <3> QED BY <3>1, <3>2, <3>3
  <2> QED BY <1>8, <2>5, <2>6, <2>7, <2>8 DEF InStep
<1>11. ~ hard => Agreeing(dims, cur', calls', init_list, want)
  BY <1>3, <1>10 DEF PlacedInv, Agreeing
<1> QED BY <1>1, <1>2, <1>9, <1>10, <1>11, <1>13 DEF PlacedInv

LEMMA OtherSteps ==
  ASSUME PlacedInv, Write \/ UNCHANGED vars PROVE PlacedInv'
<1>1. CASE Write
  <2>1. /\ calls = <<>> /\ phase = "convert" /\ phase' = "done"
        /\ dims' = dims /\ cur' = cur /\ init_list' = init_list /\ calls' = calls /\ given' = given
        /\ lists' = lists /\ spot' = spot /\ want' = want /\ hard' = hard
    BY <1>1 DEF Write, ruleVars
  <2>2. Types'
    BY <2>1 DEF PlacedInv, Types
  <2> QED BY <2>1, <2>2 DEF PlacedInv
<1>2. CASE UNCHANGED vars
  <2>1. /\ phase' = phase
        /\ dims' = dims /\ cur' = cur /\ init_list' = init_list /\ calls' = calls /\ given' = given
        /\ lists' = lists /\ spot' = spot /\ want' = want /\ hard' = hard
    BY <1>2 DEF vars, ruleVars
  <2>2. Types'
    BY <2>1 DEF PlacedInv, Types
  <2> QED BY <2>1, <2>2 DEF PlacedInv
<1> QED BY <1>1, <1>2

LEMMA PlacedInit == Init => PlacedInv
<1> SUFFICES ASSUME Init PROVE PlacedInv
  OBVIOUS
<1>1. /\ dims \in Shapes /\ phase = "convert" /\ cur = First
      /\ init_list = [p \in ElementsOf(dims) |-> 0] /\ want = [p \in ElementsOf(dims) |-> 0]
      /\ calls = <<[index |-> 1, iter_index |-> <<0>>, closing |-> FALSE]>>
      /\ given = 0 /\ lists = <<[depth |-> 0, end |-> SizeOf(dims, 0)]>> /\ spot = 0 /\ hard = FALSE
  BY Unprimed DEF Init
<1>2. PICK n \in Nat \ {0} : n = Len(dims)
  BY <1>1, ShapesAssumption
<1>3. IsShape(dims) /\ N = n
  BY <1>1, <1>2, ShapesAssumption DEF IsShape, N
<1>4. SizeOf(dims, 0) \in Nat \ {0}
  <2>1. 0 \in 0 .. n
    OBVIOUS
  <2> QED BY <1>2, <1>3, <2>1, Sizes
<1>5. cur \in ElementsOf(dims)
  <2>1. cur = [i \in 1 .. n |-> 0]
    BY <1>1, <1>3 DEF First
  <2>2. cur \in [1 .. n -> Nat] /\ \A i \in 1 .. n : cur[i] < dims[i]
    BY <1>2, <1>3, <2>1 DEF IsShape
  <2> QED BY <1>2, <1>3, <2>2, ElementsAre
<1>6. PositionOf(dims, cur) = 0
  <2>1. PICK h : h = Selected(dims, cur)
    OBVIOUS
  <2>2. \A i \in 0 + 1 .. n : cur[i] = 0
    BY <1>1, <1>3 DEF First
  <2>3. OffsetOf(dims, cur) = h[0] * SizeOf(dims, 0)
    <3>1. 0 \in 0 .. n
      OBVIOUS
    <3> QED BY <1>2, <1>3, <1>5, <2>1, <2>2, <3>1, Beginning
  <2>4. h[0] = 0
    BY <1>3, <1>5, <2>1, SelectedIs DEF Selects
  <2>5. OffsetOf(dims, cur) = 0
    BY <1>4, <2>3, <2>4
  <2> QED BY <1>3, <1>5, <2>5, AtElement
<1>7. PICK call : call = [index |-> 1, iter_index |-> <<0>>, closing |-> FALSE]
  OBVIOUS
<1>8. call \in Calls /\ call.index = 1 /\ call.iter_index = <<0>> /\ ~ call.closing
  BY <1>7 DEF Calls
<1>9. /\ calls \in Seq(Calls) /\ Len(calls) = 1 /\ calls[1] = call /\ Head(calls) = call /\ calls # <<>>
  BY <1>1, <1>7, <1>8
<1>10. PICK l : l = [depth |-> 0, end |-> SizeOf(dims, 0)]
  OBVIOUS
<1>11. l \in Lists /\ l.depth = 0 /\ l.end = SizeOf(dims, 0)
  BY <1>4, <1>10 DEF Lists
<1>12. lists \in Seq(Lists) /\ Len(lists) = 1 /\ lists[1] = l
  BY <1>1, <1>10, <1>11
<1>13. Types
  <2>1. init_list \in [ElementsOf(dims) -> 0 .. given]
    BY <1>1
  <2>2. want \in [ElementsOf(dims) -> 0 .. given]
    BY <1>1
  <2> QED BY <1>1, <1>5, <1>9, <1>12, <2>1, <2>2 DEF Types
<1>14. Nested(dims, lists, spot)
  <2>1. IsEnd(dims, 0, SizeOf(dims, 0))
    <3>1. SizeOf(dims, 0) = (0 + 1) * SizeOf(dims, 0)
      BY <1>4
    <3> QED BY <3>1 DEF IsEnd
  <2>2. Within(dims, spot, lists[1])
    BY <1>1, <1>4, <1>11, <1>12 DEF Within
  <2>3. ASSUME NEW i \in 1 .. Len(lists)
        PROVE  /\ lists[i].depth \in 0 .. Len(dims) - 1 /\ lists[i].end <= SizeOf(dims, 0)
               /\ IsEnd(dims, lists[i].depth, lists[i].end)
    <3>1. i = 1
      BY <1>12
    <3> QED BY <1>2, <1>4, <1>11, <1>12, <2>1, <3>1
  <2>4. spot \in 0 .. SizeOf(dims, 0)
    BY <1>1, <1>4
  <2>5. 1 .. Len(lists) - 1 = {}
    BY <1>12
  <2> QED BY <2>2, <2>3, <2>4, <2>5 DEF Nested
<1>15. Ending(calls) = 0
  BY <1>8, <1>9 DEF Ending
<1>16. Paired(dims, calls, lists)
  <2>1. \A i \in 1 .. Len(calls) : i = 1
    BY <1>9
  <2> QED BY <1>2, <1>8, <1>9, <1>12, <1>15, <2>1 DEF Paired
<1>17. InStep(dims, cur, calls, lists, spot)
  <2>1. Fills(dims, call, 0, SizeOf(dims, 0))
    BY <1>8 DEF Fills
  <2>2. \A i \in 1 .. Len(lists) : i = 1 /\ i + Ending(calls) = 1
    BY <1>12, <1>15
  <2>3. \A i \in 1 .. Len(lists) : Fills(dims, calls[i + Ending(calls)], lists[i].depth, lists[i].end)
    BY <1>9, <1>11, <1>12, <2>1, <2>2
  <2> QED BY <1>1, <1>6, <1>15, <2>3 DEF InStep
<1>18. Agreeing(dims, cur, calls, init_list, want)
  BY <1>1 DEF Agreeing
<1>19. phase \notin {"lost", "past"}
  BY <1>1
<1> QED BY <1>13, <1>14, <1>16, <1>17, <1>18, <1>19 DEF PlacedInv

LEMMA PlacedAlways == Spec => []PlacedInv
<1>1. PlacedInv /\ [Next]_vars => PlacedInv'
  <2> SUFFICES ASSUME PlacedInv, [Next]_vars PROVE PlacedInv'
    OBVIOUS
  <2>1. CASE ReadValue
    BY <2>1, ReadValueStep
  <2>2. CASE ReadOpen
    BY <2>2, ReadOpenStep
  <2>3. CASE ReadClose
    BY <2>3, ReadCloseStep
  <2>4. CASE FillZero
    BY <2>4, FillZeroStep
  <2>5. CASE EndList
    BY <2>5, EndListStep
  <2>6. CASE Write \/ UNCHANGED vars
    BY <2>6, OtherSteps
  <2> QED BY <2>1, <2>2, <2>3, <2>4, <2>5, <2>6 DEF Next, Step, Finished
<1> QED BY <1>1, PlacedInit, PTL DEF Spec

\* The values of the variables; the rule and Convert have the same lists open.
LEMMA PlacedTypes == PlacedInv => TypeOK
<1> SUFFICES ASSUME PlacedInv PROVE TypeOK
  OBVIOUS
<1>1. Types /\ Nested(dims, lists, spot) /\ Paired(dims, calls, lists)
  BY DEF PlacedInv
<1>2. N = Len(dims)
  BY DEF N
<1>3. calls \in Seq(Calls) /\ DOMAIN calls = 1 .. Len(calls) /\ Len(calls) \in Nat
  BY <1>1 DEF Types
<1>4. \A i \in DOMAIN calls : calls[i].index \in 1 .. N
  BY <1>1, <1>2, <1>3 DEF Paired
<1>5. Len(lists) = Cardinality({i \in DOMAIN calls : ~ calls[i].closing})
  <2>1. CASE calls # <<>> /\ Head(calls).closing
    <3>1. Head(calls) = calls[1] /\ Len(calls) \in Nat \ {0}
      BY <1>3, <2>1, AtTail
    <3>2. {i \in DOMAIN calls : ~ calls[i].closing} = 2 .. Len(calls)
      <4>1. \A i \in DOMAIN calls : ~ calls[i].closing <=> i > 1
        BY <1>1, <1>3, <2>1, <3>1 DEF Paired
      <4>2. \A i : i \in DOMAIN calls /\ i > 1 <=> i \in 2 .. Len(calls)
        BY <1>3, <3>1
      <4> QED BY <4>1, <4>2
    <3>3. Cardinality(2 .. Len(calls)) = Len(calls) - 1
      <4>1. PICK L \in Nat \ {0} : L = Len(calls)
        BY <3>1
      <4>2. 2 \in Int /\ L \in Int
        OBVIOUS
      <4>3. Cardinality(2 .. L) = IF 2 > L THEN 0 ELSE L - 2 + 1
        BY <4>2, FS_Interval
      <4>4. Cardinality(2 .. L) = L - 1
        BY <4>3
      <4> QED BY <4>1, <4>4
    <3> QED BY <1>1, <2>1, <3>2, <3>3 DEF Paired, Ending
  <2>2. CASE ~ (calls # <<>> /\ Head(calls).closing)
    <3>1. {i \in DOMAIN calls : ~ calls[i].closing} = 1 .. Len(calls)
      <4>1. ASSUME NEW i \in 1 .. Len(calls) PROVE ~ calls[i].closing
        <5>1. calls # <<>> /\ Head(calls) = calls[1]
          <6>1. calls # <<>>
            BY <1>3
          <6> QED BY <1>3, <6>1, AtTail
        <5> QED BY <1>1, <1>3, <2>2, <5>1 DEF Paired
      <4> QED BY <1>3, <4>1
    <3>2. Cardinality(1 .. Len(calls)) = Len(calls)
      <4>1. PICK L \in Nat : L = Len(calls)
        BY <1>3
      <4>2. 1 \in Int /\ L \in Int
        OBVIOUS
      <4>3. Cardinality(1 .. L) = IF 1 > L THEN 0 ELSE L - 1 + 1
        BY <4>2, FS_Interval
      <4>4. Cardinality(1 .. L) = L
        BY <4>3
      <4> QED BY <4>1, <4>4
    <3>3. Ending(calls) = 0
      BY <2>2 DEF Ending
    <3>4. Len(lists) = Len(calls)
      <4>1. Len(lists) = Len(calls) - Ending(calls)
        BY <1>1 DEF Paired
      <4> QED BY <1>3, <3>3, <4>1
    <3> QED BY <3>1, <3>2, <3>4
  <2> QED BY <2>1, <2>2
<1>6. spot \in 0 .. Size(0)
  BY <1>1, Unprimed DEF Nested
<1>7. /\ \/ cur \in Elements \cup {End}
         \/ phase = "past" /\ \E i \in 1 .. N - 1 : cur = [End EXCEPT ![i] = @ + 1]
      /\ init_list \in [Elements -> 0 .. given]
  BY <1>1, Unprimed DEF Types, End, IsPast, N
<1> QED BY <1>1, <1>4, <1>5, <1>6, <1>7 DEF TypeOK, Types
-----------------------------------------------------------------------------
(* Writing the list out *)

\* What FlattenSeq makes of sequences of one length.
Laid(r, S, L, m, ss) ==
  /\ r \in Seq(S) /\ Len(r) = L * m
  /\ \A k \in 1 .. L : \A j \in 1 .. m : r[(k - 1) * m + j] = ss[k][j]
LEMMA Flatten ==
  ASSUME NEW S, NEW L \in Nat \ {0}, NEW m \in Nat, NEW ss \in [1 .. L -> [1 .. m -> S]]
  PROVE  Laid(FlattenSeq(ss), S, L, m, ss)
<1> DEFINE is(f) == f = [i \in 1 .. L |-> IF i = 1 THEN ss[i] ELSE f[i - 1] \o ss[i]]
           flatten == CHOOSE f : is(f)
           g == [x \in (1 .. L - 1) \X Seq(S) |-> x[2] \o ss[x[1] + 1]]
<1>1. \A k \in 1 .. L : ss[k] \in Seq(S) /\ Len(ss[k]) = m /\ ss[k] \in [1 .. m -> S]
  OBVIOUS
<1>2. FlattenSeq(ss) = flatten[L]
  <2>1. Len(ss) = L
    OBVIOUS
  <2> QED BY <2>1 DEF FlattenSeq
<1>3. g \in [(1 .. L - 1) \X Seq(S) -> Seq(S)]
  <2> SUFFICES ASSUME NEW x \in (1 .. L - 1) \X Seq(S) PROVE x[2] \o ss[x[1] + 1] \in Seq(S)
    OBVIOUS
  <2>1. x[2] \in Seq(S) /\ x[1] + 1 \in 1 .. L
    OBVIOUS
  <2>2. ss[x[1] + 1] \in Seq(S)
    BY <1>1, <2>1
  <2> QED BY <2>1, <2>2, ConcatProperties
<1> HIDE DEF is
<1>4. PICK f \in [0 .. L - 1 -> Seq(S)] :
        f[0] = ss[1] /\ \A i \in 1 .. L - 1 : f[i] = g[<<i, f[i - 1]>>]
  <2> HIDE DEF g
  <2>1. ss[1] \in Seq(S) /\ L - 1 \in Nat
    BY <1>1
  <2>2. \E e \in [0 .. L - 1 -> Seq(S)] : Iterates(e, L - 1, ss[1], g)
    BY <1>3, <2>1, Iterated
  <2> QED BY <2>2 DEF Iterates
<1>5. \E h : is(h)
  <2> DEFINE h == [i \in 1 .. L |-> f[i - 1]]
  <2>1. ASSUME NEW i \in 1 .. L, i # 1 PROVE h[i] = h[i - 1] \o ss[i]
    <3>1. i - 1 \in 1 .. L - 1 /\ i - 1 - 1 \in 0 .. L - 1 /\ i - 1 + 1 = i /\ i - 1 \in 1 .. L
      BY <2>1
    <3>2. <<i - 1, f[i - 1 - 1]>> \in (1 .. L - 1) \X Seq(S)
      BY <3>1
    <3>3. f[i - 1] = f[i - 1 - 1] \o ss[i]
      BY <1>4, <3>1, <3>2
    <3>4. h[i] = f[i - 1] /\ h[i - 1] = f[i - 1 - 1]
      BY <3>1
    <3> QED BY <3>3, <3>4
  <2>2. h[1] = ss[1]
    BY <1>4
  <2>3. h = [i \in 1 .. L |-> h[i]]
    OBVIOUS
  <2> HIDE DEF h
  <2>4. is(h)
    BY <2>1, <2>2, <2>3 DEF is
  <2> QED BY <2>4
<1>6. is(flatten)
  BY <1>5
<1> HIDE DEF flatten, g
<1>7. PICK F : F = flatten
  OBVIOUS
<1>8. /\ F[1] = ss[1]
      /\ \A i \in 1 .. L - 1 : F[i + 1] = F[i] \o ss[i + 1]
  <2>1. \A i \in 1 .. L : F[i] = IF i = 1 THEN ss[i] ELSE F[i - 1] \o ss[i]
    <3>1. F = [i \in 1 .. L |-> IF i = 1 THEN ss[i] ELSE F[i - 1] \o ss[i]]
      BY <1>6, <1>7 DEF is
    <3> QED BY ONLY <3>1
  <2>2. F[1] = ss[1]
    <3>1. 1 \in 1 .. L
      OBVIOUS
    <3> QED BY <2>1, <3>1
  <2>3. ASSUME NEW i \in 1 .. L - 1 PROVE F[i + 1] = F[i] \o ss[i + 1]
    <3>1. PICK k : k = i + 1
      OBVIOUS
    <3>2. k \in 1 .. L /\ k # 1 /\ k - 1 = i
      BY <3>1
    <3>3. F[k] = F[k - 1] \o ss[k]
      BY <2>1, <3>2
    <3> QED BY <3>1, <3>2, <3>3
  <2> QED BY <2>2, <2>3
<1> DEFINE good(i) == /\ F[i] \in Seq(S) /\ Len(F[i]) = i * m
                      /\ \A k \in 1 .. i : \A j \in 1 .. m : F[i][(k - 1) * m + j] = ss[k][j]
           G == {i \in 1 .. L : good(i)}
<1>9. 1 \in G
  <2>1. \A k \in 1 .. 1 : \A j \in 1 .. m : (k - 1) * m + j = j /\ k = 1
    OBVIOUS
  <2>2. F[1] \in Seq(S) /\ Len(F[1]) = 1 * m
    BY <1>1, <1>8
  <2> QED BY <1>8, <2>1, <2>2
<1>10. ASSUME NEW i \in 1 .. L - 1, i \in G PROVE i + 1 \in G
  <2>1. i + 1 \in 1 .. L /\ F[i + 1] = F[i] \o ss[i + 1]
    <3>1. i + 1 \in 1 .. L
      OBVIOUS
    <3> QED BY <1>8, <3>1
  <2>2. F[i] \in Seq(S) /\ Len(F[i]) = i * m
        /\ \A k \in 1 .. i : \A j \in 1 .. m : F[i][(k - 1) * m + j] = ss[k][j]
    BY <1>10
  <2>3. ss[i + 1] \in Seq(S) /\ Len(ss[i + 1]) = m
    BY <1>1, <2>1
  <2>4. PICK s, t, u : s = F[i] /\ t = ss[i + 1] /\ u = F[i + 1]
    OBVIOUS
  <2>10. s \in Seq(S) /\ t \in Seq(S) /\ u = s \o t /\ Len(s) = i * m /\ Len(t) = m
    BY <2>1, <2>2, <2>3, <2>4
  <2>11. /\ u \in Seq(S) /\ Len(u) = Len(s) + Len(t)
         /\ \A j \in 1 .. Len(s) + Len(t) : u[j] = IF j <= Len(s) THEN s[j] ELSE t[j - Len(s)]
    BY <2>10, ConcatProperties
  <2>5. PICK w \in Nat : w = i * m
    OBVIOUS
  <2>6. (i + 1) * m = w + m
    BY <2>5
  <2>12. \A j \in 1 .. w + m : u[j] = IF j <= w THEN s[j] ELSE t[j - w]
    BY <2>10, <2>11, <2>5
  <2>7. \A j \in 1 .. w + m : F[i + 1][j] = IF j <= w THEN F[i][j] ELSE ss[i + 1][j - w]
    BY <2>4, <2>12, Zenon
  <2>8. ASSUME NEW k \in 1 .. i + 1, NEW j \in 1 .. m
        PROVE  F[i + 1][(k - 1) * m + j] = ss[k][j]
    <3>1. PICK a \in Nat : k = a + 1 /\ a <= i
      <4>1. k - 1 \in Nat /\ k = k - 1 + 1 /\ k - 1 <= i
        OBVIOUS
      <4> QED BY <4>1
    <3>2. PICK v \in Nat : v = a * m
      OBVIOUS
    <3>3. (k - 1) * m + j = v + j
      BY <3>1, <3>2
    <3>4. CASE a = i
      <4>1. v = w
        BY <2>5, <3>2, <3>4
      <4>2. v + j \in 1 .. w + m /\ ~ (v + j <= w) /\ v + j - w = j
        BY <4>1
      <4>3. F[i + 1][v + j] = ss[i + 1][j]
        BY <2>7, <4>2
      <4> QED BY <3>1, <3>3, <3>4, <4>3
    <3>5. CASE a < i
      <4>1. PICK e \in Nat : i = a + 1 + e
        <5>1. i - (a + 1) \in Nat /\ i = a + 1 + (i - (a + 1))
          BY <3>5
        <5> QED BY <5>1
      <4>2. (a + 1 + e) * m = a * m + m + e * m /\ e * m \in Nat
        OBVIOUS
      <4>3. v + m <= w
        BY <2>5, <3>2, <4>1, <4>2
      <4>4. v + j \in 1 .. w + m /\ v + j <= w
        BY <4>3
      <4>5. k \in 1 .. i
        BY <3>1, <3>5
      <4> QED BY <2>2, <2>7, <3>3, <4>4, <4>5
    <3> QED BY <3>1, <3>4, <3>5
  <2>9. F[i + 1] \in Seq(S) /\ Len(F[i + 1]) = (i + 1) * m
    BY <2>4, <2>5, <2>6, <2>10, <2>11
  <2> QED BY <2>1, <2>8, <2>9
<1>11. \A i \in 1 .. L : i \in G
  <2> HIDE DEF G
  <2> QED BY <1>9, <1>10, Climb
<1>12. good(L)
  BY <1>11
<1> QED BY <1>2, <1>7, <1>12 DEF Laid

\* The loops over the indices meet the elements in the order of the memory.
LEMMA InOrderIs ==
  ASSUME IsShape(dims)
  PROVE  /\ DOMAIN InOrder = 1 .. SizeOf(dims, 0)
         /\ \A p \in ElementsOf(dims) : InOrder[OffsetOf(dims, p) + 1] = p
<1>1. PICK ds : ds = dims
  OBVIOUS
<1>2. PICK n \in Nat \ {0} : n = Len(ds)
  BY <1>1 DEF IsShape
<1>3. N = n /\ IsShape(ds) /\ \A i \in 1 .. n : ds[i] \in Nat \ {0}
  BY <1>1, <1>2 DEF N, IsShape
<1>4. /\ \A d \in 0 .. n : SizeOf(ds, d) \in Nat \ {0}
      /\ SizeOf(ds, n) = 1
      /\ \A d \in 1 .. n : SizeOf(ds, d - 1) = ds[d] * SizeOf(ds, d)
  BY <1>2, <1>3, Sizes
<1> DEFINE deeper(d, s) ==
             [k \in DOMAIN s |-> [i \in 1 .. ds[d] |-> Append(s[k], i - 1)]]
           appends(r, s, m) ==
             \A k \in 1 .. Len(s) : \A j \in 1 .. m : r[(k - 1) * m + j] = Append(s[k], j - 1)
           is(f) == f = [d \in 0 .. n |-> IF d = 0 THEN <<<<>>>> ELSE FlattenSeq(deeper(d, f[d - 1]))]
           indices == CHOOSE f : is(f)
           T == {s \in Seq(Seq(Nat)) : Len(s) # 0}
           g == [x \in (1 .. n) \X T |-> FlattenSeq(deeper(x[1], x[2]))]
<1>5. InOrder = indices[n]
  BY <1>1, <1>3 DEF InOrder
<1>6. ASSUME NEW d \in 1 .. n, NEW s \in T, NEW m \in Nat \ {0}, m = ds[d]
      PROVE  /\ FlattenSeq(deeper(d, s)) \in T
             /\ Len(FlattenSeq(deeper(d, s))) = Len(s) * m
             /\ appends(FlattenSeq(deeper(d, s)), s, m)
  <2>1. PICK L \in Nat \ {0} : L = Len(s)
    OBVIOUS
  <2>2. s \in [1 .. L -> Seq(Nat)]
    BY <2>1
  <2>3. PICK ss : ss = deeper(d, s)
    OBVIOUS
  <2>4. ss = [k \in 1 .. L |-> [i \in 1 .. m |-> Append(s[k], i - 1)]]
    BY <1>6, <2>2, <2>3
  <2>5. ss \in [1 .. L -> [1 .. m -> Seq(Nat)]]
    <3> SUFFICES ASSUME NEW k \in 1 .. L, NEW i \in 1 .. m PROVE Append(s[k], i - 1) \in Seq(Nat)
      BY <2>4
    <3>1. s[k] \in Seq(Nat) /\ i - 1 \in Nat
      BY <2>2
    <3> QED BY <3>1, AppendProperties
  <2>9. PICK r : r = FlattenSeq(ss)
    OBVIOUS
  <2>6. /\ r \in Seq(Seq(Nat)) /\ Len(r) = L * m
        /\ \A k \in 1 .. L : \A j \in 1 .. m : r[(k - 1) * m + j] = ss[k][j]
    <3>1. PICK S : S = Seq(Nat)
      OBVIOUS
    <3>2. ss \in [1 .. L -> [1 .. m -> S]]
      BY <2>5, <3>1
    <3>3. m \in Nat
      OBVIOUS
    <3>4. Laid(r, S, L, m, ss)
      BY <2>9, <3>2, <3>3, Flatten
    <3> QED BY <3>1, <3>4 DEF Laid
  <2>7. L * m # 0
    OBVIOUS
  <2>8. \A k \in 1 .. L : \A j \in 1 .. m : ss[k][j] = Append(s[k], j - 1)
    BY <2>4
  <2>10. appends(r, s, m)
    <3>1. ASSUME NEW k \in 1 .. L, NEW j \in 1 .. m PROVE r[(k - 1) * m + j] = Append(s[k], j - 1)
      <4>1. r[(k - 1) * m + j] = ss[k][j]
        BY <2>6
      <4>2. ss[k][j] = Append(s[k], j - 1)
        BY <2>8
      <4> QED BY <4>1, <4>2
    <3> QED BY <2>1, <3>1
  <2> HIDE DEF deeper, appends
  <2> QED BY <2>1, <2>3, <2>6, <2>7, <2>9, <2>10
<1> HIDE DEF deeper, appends
<1>7. g \in [(1 .. n) \X T -> T]
  <2> SUFFICES ASSUME NEW x \in (1 .. n) \X T PROVE FlattenSeq(deeper(x[1], x[2])) \in T
    OBVIOUS
  <2>1. PICK d \in 1 .. n, s \in T : d = x[1] /\ s = x[2]
    OBVIOUS
  <2>2. PICK m \in Nat \ {0} : m = ds[d]
    BY <1>3
  <2>3. FlattenSeq(deeper(d, s)) \in T
    BY <1>6, <2>2
  <2> QED BY <2>1, <2>3
<1>8. PICK f \in [0 .. n -> T] : f[0] = <<<<>>>> /\ \A d \in 1 .. n : f[d] = g[<<d, f[d - 1]>>]
  <2> HIDE DEF g
  <2>1. <<<<>>>> \in T
    <3>1. <<>> \in Seq(Nat)
      OBVIOUS
    <3>2. <<<<>>>> \in Seq(Seq(Nat)) /\ Len(<<<<>>>>) = 1
      BY <3>1
    <3> QED BY <3>2
  <2> HIDE DEF T
  <2>2. \E e \in [0 .. n -> T] : Iterates(e, n, <<<<>>>>, g)
    BY <1>7, <2>1, Iterated
  <2> QED BY <2>2 DEF Iterates
<1> HIDE DEF T
<1>9. is(f)
  <2>1. ASSUME NEW d \in 0 .. n, d # 0 PROVE f[d] = FlattenSeq(deeper(d, f[d - 1]))
    <3>1. d \in 1 .. n /\ d - 1 \in 0 .. n
      BY <2>1
    <3>2. <<d, f[d - 1]>> \in (1 .. n) \X T
      BY <3>1
    <3> QED BY <1>8, <3>1, <3>2
  <2>2. f = [d \in 0 .. n |-> f[d]]
    OBVIOUS
  <2> HIDE DEF g
  <2> QED BY <1>8, <2>1, <2>2
<1> HIDE DEF is, g
<1>10. is(indices)
  BY <1>9
<1> HIDE DEF indices
<1>11. PICK F : F = indices
  OBVIOUS
<1>12. F[0] = <<<<>>>> /\ \A d \in 0 .. n - 1 : F[d + 1] = FlattenSeq(deeper(d + 1, F[d]))
  <2>1. \A d \in 0 .. n : F[d] = IF d = 0 THEN <<<<>>>> ELSE FlattenSeq(deeper(d, F[d - 1]))
    <3>1. F = [d \in 0 .. n |-> IF d = 0 THEN <<<<>>>> ELSE FlattenSeq(deeper(d, F[d - 1]))]
      BY <1>10, <1>11 DEF is
    <3> QED BY ONLY <3>1
  <2>2. F[0] = <<<<>>>>
    <3>1. 0 \in 0 .. n
      OBVIOUS
    <3> QED BY <2>1, <3>1
  <2>3. ASSUME NEW d \in 0 .. n - 1 PROVE F[d + 1] = FlattenSeq(deeper(d + 1, F[d]))
    <3>1. PICK e : e = d + 1
      OBVIOUS
    <3>2. e \in 0 .. n /\ e # 0 /\ e - 1 = d
      BY <3>1
    <3>3. F[e] = FlattenSeq(deeper(e, F[e - 1]))
      BY <2>1, <3>2
    <3> QED BY <3>1, <3>2, <3>3
  <2> QED BY <2>2, <2>3
<1> DEFINE first(p, d) == [i \in 1 .. d |-> p[i]]
           in(p, d) == /\ Selected(ds, p)[d] + 1 \in 1 .. Len(F[d])
                       /\ F[d][Selected(ds, p)[d] + 1] = first(p, d)
           good(d) == /\ F[d] \in T /\ Len(F[d]) * SizeOf(ds, d) = SizeOf(ds, 0)
                      /\ \A p \in ElementsOf(ds) : in(p, d)
           G == {d \in 0 .. n : good(d)}
<1>13. 0 \in G
  <2>1. F[0] \in T
    <3>1. 0 \in 0 .. n
      OBVIOUS
    <3> QED BY <1>8, <1>12, <3>1
  <2>2. Len(F[0]) = 1 /\ F[0][1] = <<>>
    BY <1>12
  <2>3. 1 * SizeOf(ds, 0) = SizeOf(ds, 0)
    BY <1>4
  <2>4. ASSUME NEW p \in ElementsOf(ds) PROVE in(p, 0)
    <3>1. Selected(ds, p)[0] = 0
      BY <1>3, SelectedIs DEF Selects
    <3>2. first(p, 0) = <<>>
      OBVIOUS
    <3> QED BY <2>2, <3>1, <3>2
  <2> HIDE DEF in
  <2> QED BY <2>1, <2>2, <2>3, <2>4
<1>14. ASSUME NEW d \in 0 .. n - 1, d \in G PROVE d + 1 \in G
  <2>1. d + 1 \in 1 .. n /\ d + 1 \in 0 .. n /\ d \in 0 .. n /\ d + 1 - 1 = d
    OBVIOUS
  <2>2. PICK s \in T : s = F[d]
    BY <1>14
  <2>3. PICK L \in Nat \ {0} : L = Len(s)
    BY <2>2 DEF T
  <2>4. PICK m \in Nat \ {0} : m = ds[d + 1]
    BY <1>3, <2>1
  <2>5. PICK t : t = F[d + 1]
    OBVIOUS
  <2>6. /\ t \in T /\ Len(t) = L * m
        /\ \A k \in 1 .. L : \A j \in 1 .. m : t[(k - 1) * m + j] = Append(s[k], j - 1)
    <3>1. t = FlattenSeq(deeper(d + 1, s))
      BY <1>12, <2>2, <2>5
    <3>2. t \in T /\ Len(t) = Len(s) * m /\ appends(t, s, m)
      BY <1>6, <2>1, <2>4, <3>1
    <3> QED BY <2>3, <3>2 DEF appends
  <2>7. Len(t) * SizeOf(ds, d + 1) = SizeOf(ds, 0)
    <3>1. PICK v \in Nat : v = SizeOf(ds, d + 1)
      BY <1>4, <2>1
    <3>2. SizeOf(ds, d) = m * v
      BY <1>4, <2>1, <2>4, <3>1
    <3>3. L * (m * v) = SizeOf(ds, 0)
      BY <1>14, <2>2, <2>3, <3>2
    <3>4. (L * m) * v = L * (m * v)
      OBVIOUS
    <3> QED BY <2>6, <3>1, <3>3, <3>4
  <2>8. ASSUME NEW p \in ElementsOf(ds)
        PROVE  /\ Selected(ds, p)[d + 1] + 1 \in 1 .. Len(t)
               /\ t[Selected(ds, p)[d + 1] + 1] = first(p, d + 1)
    <3>1. PICK h : h = Selected(ds, p)
      OBVIOUS
    <3>2. h \in [0 .. n -> Nat] /\ h[d + 1] = h[d] * ds[d + 1] + p[d + 1]
      BY <1>2, <1>3, <2>1, <3>1, SelectedIs DEF Selects
    <3>3. p \in [1 .. n -> Nat] /\ p[d + 1] < ds[d + 1]
      BY <1>2, <1>3, <2>1, ElementsAre
    <3>4. PICK a \in Nat, q \in Nat : a = h[d] /\ q = p[d + 1]
      BY <2>1, <3>2, <3>3
    <3>5. h[d + 1] = a * m + q /\ q < m
      BY <2>4, <3>2, <3>3, <3>4
    <3>6. a + 1 \in 1 .. L /\ s[a + 1] = first(p, d)
      BY <1>14, <2>2, <2>3, <3>1, <3>4
    <3>7. t[a * m + q + 1] = Append(s[a + 1], q)
      <4>1. q + 1 \in 1 .. m /\ a + 1 - 1 = a /\ q + 1 - 1 = q
        BY <3>5
      <4>2. PICK k, j : k = a + 1 /\ j = q + 1
        OBVIOUS
      <4>3. t[(k - 1) * m + j] = Append(s[k], j - 1)
        BY <2>6, <3>6, <4>1, <4>2
      <4>4. (k - 1) * m + j = a * m + q + 1 /\ j - 1 = q
        <5>1. k - 1 = a /\ j = q + 1
          BY <4>2
        <5>2. a * m \in Nat
          OBVIOUS
        <5> QED BY <5>1, <5>2
      <4> QED BY <4>2, <4>3, <4>4
    <3>8. a * m + q + 1 \in 1 .. L * m
      <4>1. PICK e \in Nat : L = a + 1 + e
        <5>1. L - (a + 1) \in Nat /\ L = a + 1 + (L - (a + 1))
          BY <3>6
        <5> QED BY <5>1
      <4>2. (a + 1 + e) * m = a * m + m + e * m /\ e * m \in Nat /\ a * m \in Nat
        OBVIOUS
      <4>3. L * m = a * m + m + e * m
        BY <4>1, <4>2
      <4> QED BY <3>5, <4>2, <4>3
    <3>9. Append(first(p, d), q) = first(p, d + 1)
      <4>1. PICK u, v : u = first(p, d) /\ v = first(p, d + 1)
        OBVIOUS
      <4>2. \A i \in 1 .. d + 1 : p[i] \in Nat
        BY <2>1, <3>3
      <4>3. /\ u \in Seq(Nat) /\ Len(u) = d /\ \A i \in 1 .. d : u[i] = p[i]
            /\ v \in Seq(Nat) /\ Len(v) = d + 1 /\ \A i \in 1 .. d + 1 : v[i] = p[i]
        BY <4>1, <4>2
      <4>4. /\ Append(u, q) \in Seq(Nat) /\ Len(Append(u, q)) = d + 1
            /\ \A i \in 1 .. d : Append(u, q)[i] = u[i]
            /\ Append(u, q)[d + 1] = q
        BY <4>3, AppendProperties
      <4>5. \A i \in 1 .. d + 1 : Append(u, q)[i] = v[i]
        <5> SUFFICES ASSUME NEW i \in 1 .. d + 1 PROVE Append(u, q)[i] = v[i]
          OBVIOUS
        <5>1. v[i] = p[i]
          BY <4>3
        <5>2. CASE i = d + 1
          BY <3>4, <4>4, <5>1, <5>2
        <5>3. CASE i # d + 1
          <6>1. i \in 1 .. d
            BY <5>3
          <6> QED BY <4>3, <4>4, <5>1, <6>1
        <5> QED BY <5>2, <5>3
      <4>6. Append(u, q) = v
        BY <4>3, <4>4, <4>5, SeqEqual
      <4> QED BY <4>1, <4>6
    <3> HIDE DEF first
    <3> QED BY <2>6, <3>1, <3>5, <3>6, <3>7, <3>8, <3>9
  <2> HIDE DEF first
  <2> QED BY <2>1, <2>5, <2>6, <2>7, <2>8
<1>15. \A d \in 0 .. n : d \in G
  <2> HIDE DEF G
  <2> QED BY <1>13, <1>14, Climb
<1>16. good(n)
  BY <1>15
<1>17. Len(F[n]) = SizeOf(ds, 0) /\ DOMAIN F[n] = 1 .. Len(F[n])
  <2>1. Len(F[n]) \in Nat /\ DOMAIN F[n] = 1 .. Len(F[n])
    <3>1. PICK s : s = F[n]
      OBVIOUS
    <3>2. s \in Seq(Seq(Nat))
      BY <1>16, <3>1 DEF T
    <3>3. Len(s) \in Nat /\ DOMAIN s = 1 .. Len(s)
      BY <3>2
    <3> QED BY <3>1, <3>3
  <2>2. Len(F[n]) * 1 = SizeOf(ds, 0)
    BY <1>4, <1>16
  <2> QED BY <2>1, <2>2
<1>18. ASSUME NEW p \in ElementsOf(ds) PROVE F[n][OffsetOf(ds, p) + 1] = p
  <2>1. F[n][Selected(ds, p)[n] + 1] = first(p, n)
    BY <1>16
  <2>2. OffsetOf(ds, p) = Selected(ds, p)[n]
    BY <1>2, <1>3, Places
  <2>3. first(p, n) = p
    BY <1>2, <1>3, ElementsAre
  <2> QED BY <2>1, <2>2, <2>3
<1> QED BY <1>1, <1>5, <1>11, <1>17, <1>18

\* The offset in bytes that the indices of an element add up to.
LEMMA GetElemPtrsIs ==
  ASSUME IsShape(dims), NEW p \in ElementsOf(dims)
  PROVE  GetElemPtrs(p) = 4 * OffsetOf(dims, p)
<1>1. PICK ds : ds = dims
  OBVIOUS
<1>2. PICK n \in Nat \ {0} : n = Len(ds)
  BY <1>1 DEF IsShape
<1>3. IsShape(ds) /\ p \in ElementsOf(ds) /\ N = n
  BY <1>1, <1>2 DEF N
<1>4. PICK h : h = Selected(ds, p)
  OBVIOUS
<1>5. /\ h \in [0 .. n -> Nat] /\ h[0] = 0
      /\ \A i \in 1 .. n : h[i] = h[i - 1] * ds[i] + p[i]
  BY <1>2, <1>3, <1>4, SelectedIs DEF Selects
<1>6. p \in [1 .. n -> Nat] /\ \A i \in 1 .. n : ds[i] \in Nat
  BY <1>2, <1>3, ElementsAre DEF IsShape
<1>7. /\ \A d \in 0 .. n : SizeOf(ds, d) \in Nat
      /\ SizeOf(ds, n) = 1
      /\ \A d \in 1 .. n : SizeOf(ds, d - 1) = ds[d] * SizeOf(ds, d)
  BY <1>2, <1>3, Sizes
<1> DEFINE c == [i \in 1 .. n |-> p[i] * (4 * SizeOf(ds, i))]
           f == CHOOSE e : e = [i \in 0 .. n |-> IF i = 0 THEN 0 ELSE e[i - 1] + p[i] * (4 * SizeOf(ds, i))]
           k == Sum(n, c)
<1>8. GetElemPtrs(p) = f[n]
  BY <1>1, <1>3, Unprimed DEF GetElemPtrs
<1>9. f = k
  <2>1. ASSUME NEW e
        PROVE  [i \in 0 .. n |-> IF i = 0 THEN 0 ELSE e[i - 1] + p[i] * (4 * SizeOf(ds, i))]
                 = [i \in 0 .. n |-> IF i = 0 THEN 0 ELSE e[i - 1] + c[i]]
    <3>1. \A i \in 0 .. n : i # 0 => c[i] = p[i] * (4 * SizeOf(ds, i))
      OBVIOUS
    <3> HIDE DEF c
    <3> QED BY <3>1
  <2> HIDE DEF c
  <2> QED BY <2>1, Zenon DEF Sum
<1>10. ASSUME NEW i \in 1 .. n PROVE p[i] \in Nat /\ SizeOf(ds, i) \in Nat
  <2>1. p[i] \in Nat
    BY <1>6
  <2>2. i \in 0 .. n
    OBVIOUS
  <2>3. SizeOf(ds, i) \in Nat
    BY <1>7, <2>2, Zenon
  <2> QED BY <2>1, <2>3
<1>11. c \in [1 .. n -> Nat]
  <2> SUFFICES ASSUME NEW i \in 1 .. n PROVE p[i] * (4 * SizeOf(ds, i)) \in Nat
    OBVIOUS
  <2>1. PICK a \in Nat, b \in Nat : a = p[i] /\ b = SizeOf(ds, i)
    BY <1>10
  <2>2. a * (4 * b) \in Nat
    OBVIOUS
  <2> QED BY <2>1, <2>2
<1>12. \A i \in 1 .. n : c[i] = p[i] * (4 * SizeOf(ds, i))
  OBVIOUS
<1> HIDE DEF c
<1>13. PICK s : s = k
  OBVIOUS
<1>14. /\ s \in [0 .. n -> Nat] /\ s[0] = 0
       /\ \A i \in 1 .. n : s[i] = s[i - 1] + c[i]
  <2> HIDE DEF f
  <2>1. n \in Nat /\ s = Sum(n, c)
    BY <1>13
  <2>2. IsSum(s, n, c)
    BY <1>11, <2>1, Sums, Zenon
  <2> QED BY <2>2 DEF IsSum
<1> DEFINE S == {i \in 0 .. n : s[i] = 4 * (h[i] * SizeOf(ds, i))}
<1>15. 0 \in S
  <2>1. 0 \in 0 .. n
    OBVIOUS
  <2>2. SizeOf(ds, 0) \in Nat
    BY <1>7, <2>1, Zenon
  <2> QED BY <1>5, <1>14, <2>2
<1>16. ASSUME NEW i \in 0 .. n - 1, i \in S PROVE i + 1 \in S
  <2>1. i + 1 \in 1 .. n /\ i + 1 - 1 = i /\ i \in 0 .. n /\ i + 1 \in 0 .. n
    OBVIOUS
  <2>2. PICK a \in Nat, b \in Nat, q \in Nat, v \in Nat :
          a = h[i] /\ b = ds[i + 1] /\ q = p[i + 1] /\ v = SizeOf(ds, i + 1)
    <3>1. h[i] \in Nat
      BY <1>5, <2>1
    <3>2. ds[i + 1] \in Nat
      BY <1>6, <2>1
    <3>3. p[i + 1] \in Nat /\ SizeOf(ds, i + 1) \in Nat
      BY <1>10, <2>1
    <3> QED BY <3>1, <3>2, <3>3
  <2>3. SizeOf(ds, i) = b * v /\ h[i + 1] = a * b + q
    <3>1. SizeOf(ds, i) = ds[i + 1] * SizeOf(ds, i + 1)
      <4>1. PICK e \in 1 .. n : e = i + 1
        BY <2>1
      <4>2. SizeOf(ds, e - 1) = ds[e] * SizeOf(ds, e)
        BY <1>7
      <4>3. e - 1 = i
        BY <4>1
      <4> QED BY <4>1, <4>2, <4>3
    <3>2. h[i + 1] = h[i + 1 - 1] * ds[i + 1] + p[i + 1]
      BY <1>5, <2>1
    <3> QED BY <2>1, <2>2, <3>1, <3>2
  <2>4. s[i + 1] = s[i] + q * (4 * v)
    <3>1. s[i + 1] = s[i] + c[i + 1] /\ c[i + 1] = p[i + 1] * (4 * SizeOf(ds, i + 1))
      BY <1>12, <1>14, <2>1
    <3> QED BY <2>2, <3>1
  <2>5. s[i] = 4 * (a * (b * v))
    BY <1>16, <2>2, <2>3
  <2>6. 4 * ((a * b + q) * v) = 4 * (a * (b * v)) + q * (4 * v)
    OBVIOUS
  <2> QED BY <2>1, <2>2, <2>3, <2>4, <2>5, <2>6
<1>17. \A i \in 0 .. n : i \in S
  <2> HIDE DEF S
  <2> QED BY <1>15, <1>16, Climb
<1>18. h[n] = OffsetOf(ds, p) /\ h[n] \in Nat
  <2>1. h[n] = OffsetOf(ds, p)
    BY <1>2, <1>3, <1>4, Places
  <2> QED BY <1>5, <2>1
<1>19. s[n] = 4 * (h[n] * 1)
  BY <1>7, <1>17
<1>20. s[n] = 4 * OffsetOf(ds, p)
  <2>1. PICK x \in Nat : x = h[n]
    BY <1>18
  <2>2. s[n] = 4 * (x * 1) /\ x * 1 = x
    BY <1>19, <2>1
  <2> QED BY <1>18, <2>1, <2>2
<1> HIDE DEF f, k
<1>21. GetElemPtrs(p) = s[n]
  BY <1>8, <1>9, <1>13
<1> QED BY <1>1, <1>20, <1>21

\* SameImage in terms of its variables.
Imaged(ds, ph, values, image, st) ==
  ph = "done" =>
    /\ Len(image) = SizeOf(ds, 0) /\ Len(st) = SizeOf(ds, 0)
    /\ \A p \in ElementsOf(ds) :
         /\ image[OffsetOf(ds, p) + 1] = values[p]
         /\ \E k \in DOMAIN st : st[k] = <<4 * OffsetOf(ds, p), values[p]>>

LEMMA WriteImages ==
  ASSUME PlacedInv, Write PROVE Imaged(dims, phase', init_list, words', stores')
<1>1. IsShape(dims)
  BY ShapeOfDims DEF PlacedInv
<1>2. SizeOf(dims, 0) \in Nat
  <2>1. PICK n \in Nat \ {0} : n = Len(dims)
    BY <1>1 DEF IsShape
  <2>2. 0 \in 0 .. n
    OBVIOUS
  <2> QED BY <1>1, <2>1, <2>2, Sizes
<1>3. PICK order : order = InOrder
  OBVIOUS
<1>4. DOMAIN order = 1 .. SizeOf(dims, 0) /\ \A p \in ElementsOf(dims) : order[OffsetOf(dims, p) + 1] = p
  BY <1>1, <1>3, InOrderIs
<1>5. /\ words' = [k \in 1 .. SizeOf(dims, 0) |-> init_list[order[k]]]
      /\ stores' = [k \in 1 .. SizeOf(dims, 0) |-> <<GetElemPtrs(order[k]), init_list[order[k]]>>]
  BY <1>3, <1>4 DEF Write, InitGlobalArray, InitLocalArray
<1>6. Len(words') = SizeOf(dims, 0) /\ Len(stores') = SizeOf(dims, 0)
  BY <1>2, <1>5
<1>7. ASSUME NEW p \in ElementsOf(dims)
      PROVE  /\ words'[OffsetOf(dims, p) + 1] = init_list[p]
             /\ \E k \in DOMAIN stores' : stores'[k] = <<4 * OffsetOf(dims, p), init_list[p]>>
  <2>1. PICK k : k = OffsetOf(dims, p) + 1
    OBVIOUS
  <2>2. k \in 1 .. SizeOf(dims, 0)
    <3>1. PICK n \in Nat \ {0} : n = Len(dims)
      BY <1>1 DEF IsShape
    <3>2. PICK h : h = Selected(dims, p)
      OBVIOUS
    <3>3. 0 \in 0 .. n
      OBVIOUS
    <3>4. OffsetOf(dims, p) \in Nat /\ OffsetOf(dims, p) < SizeOf(dims, 0)
      BY <1>1, <3>1, <3>2, <3>3, Subarray
    <3> QED BY <1>2, <2>1, <3>4
  <2>3. order[k] = p
    BY <1>4, <2>1
  <2>4. GetElemPtrs(p) = 4 * OffsetOf(dims, p)
    BY <1>1, GetElemPtrsIs
  <2>5. words'[k] = init_list[p] /\ stores'[k] = <<4 * OffsetOf(dims, p), init_list[p]>>
    BY <1>5, <2>2, <2>3, <2>4
  <2>6. k \in DOMAIN stores'
    BY <1>5, <2>2
  <2> QED BY <2>1, <2>5, <2>6
<1> QED BY <1>6, <1>7 DEF Imaged

LEMMA ImagedIs ==
  /\ SameImage <=> Imaged(dims, phase, init_list, words, stores)
  /\ SameImage' <=> Imaged(dims', phase', init_list', words', stores')
  BY Unprimed, Primed DEF SameImage, Imaged
-----------------------------------------------------------------------------
\* The iterators stay in the array or at its end, and the code has the same
\* lists open as the rule, for every shape and initialiser.
THEOREM Typing == Spec => []TypeOK
  BY PlacedAlways, PlacedTypes, PTL

\* Convert puts every value where the rule of C puts it, and zero elsewhere,
\* whatever braces are there or left out, in arrays of any number of
\* dimensions, but for the initialisers that hard marks.
THEOREM ValuesPlaced == Spec => []PlacedByTheRule
<1>1. PlacedInv => PlacedByTheRule
  BY DEF PlacedInv, PlacedByTheRule, Agreeing, Types
<1> QED BY <1>1, PlacedAlways, PTL
\* The .word lines of a global and the stores to a local of the same type and
\* initialiser make the same array, every element of it at the offset that its
\* indices give it.
THEOREM ImagesAgree == Spec => []SameImage
<1>1. Init => SameImage
  BY DEF Init, SameImage
<1>2. PlacedInv /\ SameImage /\ [Next]_vars => SameImage'
  <2> SUFFICES ASSUME PlacedInv, SameImage, [Next]_vars PROVE SameImage'
    OBVIOUS
  <2>1. CASE Write
    <3>1. dims' = dims /\ init_list' = init_list
      BY <2>1 DEF Write
    <3> QED BY <2>1, <3>1, WriteImages, ImagedIs
  <2>2. CASE ReadValue \/ ReadOpen \/ ReadClose \/ FillZero \/ EndList
    <3>1. phase' # "done"
      BY <2>2 DEF ReadValue, ReadOpen, ReadClose, FillZero, EndList, Reading, Closing,
                  ConvertValue, ConvertListEnd
    <3> QED BY <3>1, ImagedIs DEF Imaged
  <2>3. CASE UNCHANGED vars
    <3>1. /\ dims' = dims /\ phase' = phase /\ init_list' = init_list
          /\ words' = words /\ stores' = stores
      BY <2>3 DEF vars
    <3> QED BY <3>1, ImagedIs
  <2> QED BY <2>1, <2>2, <2>3 DEF Next, Step, Finished
<1> QED BY <1>1, <1>2, PlacedAlways, PTL DEF Spec
=============================================================================
