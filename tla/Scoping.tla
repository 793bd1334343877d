------------------------------- MODULE Scoping -------------------------------
(***************************************************************************)
(* What a name means in a SysY program: the declaration in the innermost   *)
(* block around it that declares the name before it.  SymbolTables is how  *)
(* the compiler finds it out.                                              *)
(*                                                                         *)
(* The program is its declarations, the braces of its blocks, and the uses *)
(* of its names, in the order of the text.  Declarations are numbered.     *)
(***************************************************************************)
EXTENDS Integers, Sequences

CONSTANTS
  Idents,      \* the names of the program
  Library      \* the functions that are there without a declaration: a sequence

VARIABLES
  env,         \* the blocks around this place, innermost first: for the names
               \* declared in each, the declarations
  declared,    \* the declarations so far
  meant        \* the declaration that the last use was of

vars == <<env, declared, meant>>

Kinds == {"variable", "constant", "function"}

Visible(x) == \E i \in DOMAIN env : x \in DOMAIN env[i]
Meaning(x) ==
  LET i == CHOOSE i \in DOMAIN env :
             x \in DOMAIN env[i] /\ \A j \in 1 .. i - 1 : x \notin DOMAIN env[j]
  IN  env[i][x]

\* block, with one more name
With(block, x, d) == [y \in DOMAIN block \cup {x} |-> IF y = x THEN d ELSE block[y]]

Init ==
  /\ env = <<[x \in {Library[i] : i \in DOMAIN Library} |->
               [decl |-> CHOOSE i \in DOMAIN Library : Library[i] = x,
                kind |-> "function"]]>>
  /\ declared = Len(Library)
  /\ meant = 0

CanDeclare(x) == x \notin DOMAIN env[1]

Declare(x, kind) ==
  /\ CanDeclare(x)
  /\ env' = [env EXCEPT ![1] = With(@, x, [decl |-> declared + 1, kind |-> kind])]
  /\ declared' = declared + 1
  /\ meant' = 0

\* A function is declared outside its own block, which holds its parameters too.
DefineFunction(x) ==
  /\ Len(env) = 1 /\ CanDeclare(x)
  /\ env' = << <<>>, With(env[1], x, [decl |-> declared + 1, kind |-> "function"]) >>
  /\ declared' = declared + 1
  /\ meant' = 0

OpenBlock == Len(env) > 1 /\ env' = << <<>> >> \o env /\ meant' = 0 /\ UNCHANGED declared
CloseBlock == Len(env) > 1 /\ env' = Tail(env) /\ meant' = 0 /\ UNCHANGED declared

Use(x) == Visible(x) /\ meant' = Meaning(x).decl /\ UNCHANGED <<env, declared>>

Next ==
  \/ \E x \in Idents :
       DefineFunction(x) \/ Use(x) \/ \E kind \in {"variable", "constant"} : Declare(x, kind)
  \/ OpenBlock \/ CloseBlock

Spec == Init /\ [][Next]_vars
=============================================================================
