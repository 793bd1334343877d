------------------------------ MODULE ArrayInit ------------------------------
(***************************************************************************)
(* Array initialisers.  int a[2][2] = {1, 2, {3}} says where its values go *)
(* by a rule that depends on every brace so far.  VarDefAST and            *)
(* ConstDefAST (their code is the same) work it out with three vectors of  *)
(* iterators, one per dimension, that the recursive Convert moves through  *)
(* a nested list of zeros, and then write the list out: as an aggregate    *)
(* for a global, as stores for a local.                                    *)
(*                                                                         *)
(* Here an initialiser is read piece by piece, by Convert and by the rule  *)
(* of C (6.7.8), which SysY takes over for arrays, side by side.           *)
(*                                                                         *)
(* An iterator of dimension i points to an element of the list that the    *)
(* iterator of dimension i - 1 points to: together they are the indices of *)
(* an element, each from 0 (begin) to the length of its dimension (end).   *)
(***************************************************************************)
EXTENDS Integers, SequencesExt

CONSTANT Shapes       \* the dimensions of the arrays

ASSUME ShapesAssumption ==
  \A d \in Shapes : d \in Seq(Nat \ {0}) /\ Len(d) > 0

VARIABLES
  dims,       \* vec_const_exp
  phase,      \* "convert", "done"; "lost": a value is stored where there is no
              \* element; "past": an iterator behind the end() is dereferenced
  cur,        \* vec_cur_init_list
  init_list,  \* the values of the elements
  calls,      \* open calls of Convert for a list, innermost first
  given,      \* values of the initialiser read so far: they are 1, 2, 3, ...
  lists,      \* rule: the braced lists that are open, innermost first
  spot,       \* rule: the next element, counted in the order of the memory
  want,       \* rule: the values of the elements
  hard,       \* for the properties: a list has been opened where the list
              \* around it begins, or one inside a subarray ends the array
  words,      \* the .word lines of the global
  stores      \* the stores to the local, as <<offset, value>>

ruleVars == <<lists, spot, want, hard>>
vars == <<dims, phase, cur, init_list, calls, given, ruleVars, words, stores>>

N == Len(dims)
Elements == {p \in [1..N -> 0 .. Max(Range(dims)) - 1] : \A i \in 1..N : p[i] < dims[i]}

\* The elements in a subarray of dimensions d + 1 .. N, and the place of an
\* element in memory, in elements.
Size(d) ==
  LET product[i \in 1 .. N + 1] == IF i = N + 1 THEN 1 ELSE dims[i] * product[i + 1]
  IN  product[d + 1]
Offset(p) ==
  LET sum[i \in 0..N] == IF i = 0 THEN 0 ELSE sum[i - 1] + p[i] * Size(i)
  IN  sum[N]
-----------------------------------------------------------------------------
(* Convert *)

First == [i \in 1..N |-> 0]
End == dims                     \* every iterator is at its end()

\* A mutant of Moved: the iterator of the last dimension wraps, and the one
\* before it stays.
MovedFlat(p) == [p EXCEPT ![N] = (@ + 1) % dims[N]]

\* A mutant of Moved: only the iterator of the last dimension.
MovedLast(p) == [p EXCEPT ![N] = @ + 1]

\* ++vec_cur_init_list.back(), and where that is the end of its list the
\* iterators before it; those after the one that moved start again.
Moved(p) ==
  LET open == {i \in 1..N : p[i] + 1 < dims[i]}
      last == CHOOSE i \in open : \A j \in open : j <= i
  IN  IF open = {} THEN End
      ELSE [i \in 1..N |-> IF i < last THEN p[i] ELSE IF i = last THEN p[i] + 1 ELSE 0]

\* A mutant of CurInitIndex: the last dimension, wherever its iterator is.
CurInitIndexLast == N

\* cur_init_index: the innermost dimension that is past its begin(), or the first
CurInitIndex ==
  LET past == {i \in 1..N : cur[i] # 0}
  IN  IF past = {} THEN 1 ELSE CHOOSE i \in past : \A j \in past : j <= i

\* A list fills its subarray with zeros until its iterator moves.
NeedsZero(call) == SubSeq(cur, 1, call.index) = call.iter_index

\* Convert of a value: the assert before the assignment presupposes an element.
ConvertValue(v) ==
  IF cur = End
  THEN phase' = "lost" /\ UNCHANGED <<cur, init_list>>
  ELSE /\ init_list' = [init_list EXCEPT ![cur] = v]
       /\ cur' = Moved(cur)
       /\ UNCHANGED phase

\* Convert of a list: its first lines, ...
ConvertList ==
  calls' = <<[index |-> CurInitIndex, iter_index |-> SubSeq(cur, 1, CurInitIndex),
              closing |-> FALSE]>> \o calls

\* ... its last ones, after the zeros: the iterators of the dimensions inside
\* that of the list start again.  At the end of everything the loop before that
\* ends with the outermost iterator; from another dimension on it moves the
\* iterator before it behind its end(), where there is no list to start in.
ConvertListEnd ==
  /\ calls' = Tail(calls)
  /\ UNCHANGED init_list
  /\ LET k == Head(calls).index IN
     \/ /\ cur # End
        /\ cur' = [i \in 1..N |-> IF i <= k THEN cur[i] ELSE 0]
        /\ UNCHANGED phase
     \/ cur = End /\ k = 1 /\ UNCHANGED <<cur, phase>>
     \/ cur = End /\ k > 1 /\ cur' = [cur EXCEPT ![k - 1] = @ + 1] /\ phase' = "past"
-----------------------------------------------------------------------------
(* The rule *)

\* A list belongs to a subarray: its depth is the number of indices that select
\* it, and end is the place after its last element.
Room == lists # <<>> /\ spot < Head(lists).end

\* The subarrays that a list at this place can belong to: inside that of the
\* list around it, beginning here.
Subarrays == {d \in Head(lists).depth + 1 .. N - 1 : spot % Size(d) = 0}
Largest(S) == CHOOSE d \in S : \A e \in S : d <= e
-----------------------------------------------------------------------------
Init ==
  /\ dims \in Shapes
  /\ phase = "convert"
  /\ cur = First
  /\ init_list = [p \in Elements |-> 0]
  /\ calls = <<[index |-> 1, iter_index |-> <<0>>, closing |-> FALSE]>>
  /\ given = 0
  /\ lists = <<[depth |-> 0, end |-> Size(0)]>> /\ spot = 0
  /\ want = [p \in Elements |-> 0] /\ hard = FALSE
  /\ words = <<>> /\ stores = <<>>

Reading == phase = "convert" /\ calls # <<>> /\ ~ Head(calls).closing

\* the next piece of the initialiser is a value, ...
ReadValue ==
  /\ Reading /\ Room
  /\ ConvertValue(given + 1)
  /\ given' = given + 1
  /\ want' = [p \in Elements |-> IF Offset(p) = spot THEN given + 1 ELSE want[p]]
  /\ spot' = spot + 1
  /\ UNCHANGED <<dims, calls, lists, hard, words, stores>>

\* ... a brace that opens the list of a subarray, ...
ReadOpen ==
  /\ Reading /\ Room /\ Subarrays # {}
  /\ ConvertList
  /\ LET d == Largest(Subarrays)
         around == Head(lists)
     IN  /\ lists' = <<[depth |-> d, end |-> spot + Size(d)]>> \o lists
         /\ hard' = \/ hard
                    \/ around.depth > 0 /\ spot = around.end - Size(around.depth)
                    \/ d > 1 /\ spot + Size(d) = Size(0)
  /\ UNCHANGED <<dims, phase, cur, init_list, given, spot, want, words, stores>>

\* ... or the brace that closes the innermost list: the rest of its subarray
\* is zero.
ReadClose ==
  /\ Reading
  /\ calls' = <<[Head(calls) EXCEPT !.closing = TRUE]>> \o Tail(calls)
  /\ spot' = Head(lists).end
  /\ lists' = Tail(lists)
  /\ UNCHANGED <<dims, phase, cur, init_list, given, want, hard, words, stores>>

Closing == phase = "convert" /\ calls # <<>> /\ Head(calls).closing

\* Convert(&zero_init)
FillZero ==
  /\ Closing /\ NeedsZero(Head(calls))
  /\ ConvertValue(0)
  /\ UNCHANGED <<dims, calls, given, ruleVars, words, stores>>

EndList ==
  /\ Closing /\ ~ NeedsZero(Head(calls))
  /\ ConvertListEnd
  /\ UNCHANGED <<dims, given, ruleVars, words, stores>>
-----------------------------------------------------------------------------
(* Writing the list out *)

\* The elements in the order of the loops over their indices.
InOrder ==
  LET indices[d \in 0..N] ==
        IF d = 0 THEN <<<<>>>>
        ELSE FlattenSeq([k \in DOMAIN indices[d - 1] |->
               [i \in 1 .. dims[d] |-> Append(indices[d - 1][k], i - 1)]])
  IN  indices[N]

\* A mutant of GetElemPtrs: an element of every dimension is a word.
GetElemPtrsWords(p) ==
  LET sum[i \in 0..N] == IF i = 0 THEN 0 ELSE sum[i - 1] + p[i]
  IN  4 * sum[N]

\* The getelemptr of each index, and what the back end adds for them:
\* return_size_of_value of the element type times the index.
GetElemPtrs(p) ==
  LET sum[i \in 0..N] == IF i = 0 THEN 0 ELSE sum[i - 1] + p[i] * (4 * Size(i))
  IN  sum[N]

\* InitGlobalArrayInKoopa, whose braces follow the dimensions, and then
\* Visit(koopa_raw_aggregate_t)
InitGlobalArray == [k \in DOMAIN InOrder |-> init_list[InOrder[k]]]

\* InitLocalArrayInKoopa
InitLocalArray ==
  [k \in DOMAIN InOrder |-> <<GetElemPtrs(InOrder[k]), init_list[InOrder[k]]>>]

Write ==
  /\ phase = "convert" /\ calls = <<>>
  /\ words' = InitGlobalArray
  /\ stores' = InitLocalArray
  /\ phase' = "done"
  /\ UNCHANGED <<dims, cur, init_list, calls, given, ruleVars>>

Finished == phase \in {"done", "lost", "past"} /\ UNCHANGED vars

Step ==
  ReadValue \/ ReadOpen \/ ReadClose \/ FillZero \/ EndList \/ Write
Next == Step \/ Finished
Spec == Init /\ [][Next]_vars /\ WF_vars(Step)
-----------------------------------------------------------------------------
(* Properties *)

\* The values of the variables; the iterators are inside the array, or at its
\* end, or one of them is behind it and nothing is done any more; the rule and
\* the code have the same lists open.
TypeOK ==
  /\ phase \in {"convert", "done", "lost", "past"}
  /\ \/ cur \in Elements \cup {End}
     \/ phase = "past" /\ \E i \in 1 .. N - 1 : cur = [End EXCEPT ![i] = @ + 1]
  /\ init_list \in [Elements -> 0 .. given]
  /\ \A i \in DOMAIN calls : calls[i].index \in 1..N
  /\ Len(lists) = Cardinality({i \in DOMAIN calls : ~ calls[i].closing})
  /\ spot \in 0 .. Size(0)

\* Every value is where the rule puts it, and everything else is zero, whatever
\* braces are there or left out; the iterators never leave the array.  In
\* three dimensions that is not so for every initialiser: hard says for which.
PlacedByTheRule ==
  \/ hard
  \/ /\ phase \notin {"lost", "past"}
     /\ phase = "done" => init_list = want

\* The image of a global, word by word, and what the stores leave in a local
\* are the same array: each element once, where an index computed at run time
\* will look for it.
SameImage ==
  phase = "done" =>
    /\ Len(words) = Size(0) /\ Len(stores) = Size(0)
    /\ \A p \in Elements :
         /\ words[Offset(p) + 1] = init_list[p]
         /\ \E k \in DOMAIN stores : stores[k] = <<4 * Offset(p), init_list[p]>>

\* Convert assigns to what vec_cur_init_list points to, after an assert that it
\* is an element.
OnAnElement == phase # "lost"

\* Convert comes back: a list that is filled with zeros is full at some time.
Ends == <>(phase # "convert")
=============================================================================
