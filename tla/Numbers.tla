------------------------------- MODULE Numbers -------------------------------
(***************************************************************************)
(* A number of the program on its way to the Koopa text: the lexer reads   *)
(* the digits, constant folding may negate it, itostr writes it in         *)
(* decimal, libkoopa reads that.  The greatest int is IntMax.              *)
(***************************************************************************)
EXTENDS Integers, Sequences

CONSTANTS
  IntMax,       \* INT_MAX: 2 ^ 31 - 1
  MaxDigits     \* bound: the digits of a literal, its prefix not counted

ASSUME NumbersAssumption == IntMax \in Nat /\ MaxDigits \in Nat

VARIABLES
  literal,      \* the base and the digits, the first one first
  minus,        \* a minus before it, in a constant expression
  phase,        \* "lex", "fold", then in itostr "sign", "push", "pop"; "parse", "done"
  val,          \* yylval.int_val, then data.val
  num, s, str,  \* itostr: the parameter, the stack of digits (its top first), the
                \* result: a sign or none, and digits
  parsed        \* what libkoopa makes of it: a number, or an error

vars == <<literal, minus, phase, val, num, s, str, parsed>>

\* Two's complement: one more below zero than above, 2 ^ 32 in all.
IntMin == -IntMax - 1
Ints == IntMin .. IntMax
IntCount == 2 * IntMax + 2

\* Conversion to int, and what a product of ints is where overflow wraps.
Wrapped(n) == ((n - IntMin) % IntCount) + IntMin

InBase(base, digits) ==
  LET value[i \in 0 .. Len(digits)] ==
        IF i = 0 THEN 0 ELSE base * value[i - 1] + digits[i]
  IN  value[Len(digits)]

\* Decimal, Octal (which starts with 0) and Hexadecimal of sysy.l.  A program's
\* decimal literal is at most -IntMin, the others fit the bits of an int.
Literals ==
  LET DigitSeqs(base) ==
        UNION {[1..n -> 0 .. base - 1] : n \in 1..MaxDigits}
      Decimal == {d \in DigitSeqs(10) : d[1] # 0 /\ InBase(10, d) <= -IntMin}
      Octal == {<<0>> \o d : d \in DigitSeqs(8) \cup {<<>>}}
      Fit(base, ds) == {d \in ds : InBase(base, d) < IntCount}
  IN  [base : {10}, digits : Decimal] \cup [base : {8}, digits : Fit(8, Octal)]
        \cup [base : {16}, digits : Fit(16, DigitSeqs(16))]

Init ==
  /\ literal \in Literals
  /\ minus \in BOOLEAN
  /\ phase = "lex"
  /\ val = 0 /\ num = 0 /\ s = <<>>
  /\ str = [negative |-> FALSE, digits |-> <<>>]
  /\ parsed = [ok |-> FALSE, n |-> 0]

\* strtol with base 0, and the assignment to an int; NumberAST carries it on
\* as the string that to_string makes and atoi reads.
Lex ==
  /\ phase = "lex"
  /\ val' = Wrapped(InBase(literal.base, literal.digits))
  /\ phase' = "fold"
  /\ UNCHANGED <<literal, minus, num, s, str, parsed>>

\* UnaryOpAST: result.val = (-1) * rhs.val
Fold ==
  /\ phase = "fold"
  /\ val' = IF minus THEN Wrapped(-val) ELSE val
  /\ num' = val'
  /\ phase' = "sign"
  /\ UNCHANGED <<literal, minus, s, str, parsed>>

\* itostr: 0 is "0"; a sign, after which num *= -1.  That overflows for IntMin:
\* it wraps at -O0, and with -O2 the compiler may do as if it did not.
Sign ==
  /\ phase = "sign"
  /\ \/ /\ num = 0
        /\ str' = [str EXCEPT !.digits = <<0>>] /\ phase' = "parse" /\ UNCHANGED num
     \/ /\ num > 0
        /\ phase' = "push" /\ UNCHANGED <<num, str>>
     \/ /\ num < 0
        /\ str' = [str EXCEPT !.negative = TRUE] /\ phase' = "push"
        /\ num' \in {Wrapped(-num), -num}
  /\ UNCHANGED <<literal, minus, val, s, parsed>>

\* Mutants: of Digit, the number itself; of Pushed, a queue.
DigitAll(n) == n
PushedBehind(d, stack) == Append(stack, d)

Digit(n) == n % 10
Rest(n) == n \div 10
Pushed(d, stack) == <<d>> \o stack

Push ==
  /\ phase = "push"
  /\ IF num > 0 THEN s' = Pushed(Digit(num), s) /\ num' = Rest(num) /\ UNCHANGED phase
     ELSE phase' = "pop" /\ UNCHANGED <<num, s>>
  /\ UNCHANGED <<literal, minus, val, str, parsed>>

Pop ==
  /\ phase = "pop"
  /\ IF s # <<>> THEN str' = [str EXCEPT !.digits = Append(@, Head(s))] /\ s' = Tail(s) /\ UNCHANGED phase
     ELSE phase' = "parse" /\ UNCHANGED <<str, s>>
  /\ UNCHANGED <<literal, minus, val, num, parsed>>

\* libkoopa: an optional sign, and digits, of which there must be one
Parse ==
  /\ phase = "parse"
  /\ parsed' = IF str.digits = <<>> THEN [ok |-> FALSE, n |-> 0]
               ELSE [ok |-> TRUE,
                     n |-> (IF str.negative THEN -1 ELSE 1) * InBase(10, str.digits)]
  /\ phase' = "done"
  /\ UNCHANGED <<literal, minus, val, num, s, str>>

Finished == phase = "done" /\ UNCHANGED vars

Next == Lex \/ Fold \/ Sign \/ Push \/ Pop \/ Parse \/ Finished
Spec == Init /\ [][Next]_vars
-----------------------------------------------------------------------------
(* Properties *)

\* The values of the variables.
TypeOK ==
  /\ literal \in Literals
  /\ phase \in {"lex", "fold", "sign", "push", "pop", "parse", "done"}
  /\ val \in Ints
  /\ num \in Ints \cup {-IntMin}
  /\ \A i \in DOMAIN s : s[i] \in 0..9
  /\ \A i \in DOMAIN str.digits : str.digits[i] \in 0..9

\* What C makes of the literal and its minus.
Value ==
  LET v == InBase(literal.base, literal.digits)
  IN  Wrapped(IF minus THEN -v ELSE v)

\* The number that arrives is the number of the program, in each of the three
\* bases, negated or not; for IntMin see IntsPrinted.
NumberArrives ==
  phase = "done" /\ Value # IntMin => parsed = [ok |-> TRUE, n |-> Value]

\* itostr converts an int32_t to a string: any int32_t.
IntsPrinted == phase = "done" => parsed = [ok |-> TRUE, n |-> val]
=============================================================================
