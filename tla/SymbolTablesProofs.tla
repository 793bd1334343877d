-------------------------- MODULE SymbolTablesProofs --------------------------
(***************************************************************************)
(* The tree of symbol tables and the names that are printed for it.        *)
(* find climbs through the open blocks only: a block's father is the table *)
(* that its Dump saved, and a table's father is older than it.  No two     *)
(* variables have one name, as the number at its end grows from line to    *)
(* line; every use prints the one of the declaration it means, as the      *)
(* symbols of the open blocks have their lines in the text; and Visit      *)
(* labels every global with its own, as the queue holds the names of the   *)
(* globals in the order of the text.                                       *)
(***************************************************************************)
EXTENDS SymbolTables, Facts

Symbols == [tag : {0, 1}, flag_is_const : BOOLEAN, koopa_var_count : Int, decl : Nat]
Maps == UNION {[D -> Symbols] : D \in SUBSET Idents}
Tables == [father : Int, map : Maps]

\* The parts of the names in the text.
Parts == {"%temp_l_result"} \cup Int \cup UNION {{x[i] : i \in 1 .. Len(x)} : x \in Idents}
Lines == [op : {"decl", "fun", "global", "alloc"}, name : Seq(Parts), in : Nat, words : Nat,
          init : {"none", "param", "zeroinit", "integer", "aggregate"}, decl : Nat]

Uses == [op : {"none", "number", "place", "call"}, name : Seq(Parts), val : Nat]

Types ==
  /\ tables \in Seq(Tables) /\ tables # <<>>
  /\ cur_symbol_table \in 1 .. Len(tables)
  /\ saved \in Seq(1 .. Len(tables))
  /\ unused_koopa_var_count \in 1 .. MaxVars + 1
  /\ koopa \in Seq(Lines)
  /\ used \in Uses
  /\ phase \in {"dump", "visit", "done"}
  /\ global_var_name_queue \in Seq(Idents)
  /\ data \in Seq([label : Idents, bytes : Nat])
  /\ declared \in Nat
-----------------------------------------------------------------------------
LEMMA IdentType == \A x \in Idents : x \in Seq(Parts) /\ \A n \in Int : Append(x, n) \in Seq(Parts)
<1> SUFFICES ASSUME NEW x \in Idents PROVE x \in Seq(Parts) /\ \A n \in Int : Append(x, n) \in Seq(Parts)
  OBVIOUS
<1>1. Len(x) \in Nat /\ x = [i \in 1 .. Len(x) |-> x[i]]
  BY SymbolTablesAssumption
<1>2. \A i \in 1 .. Len(x) : x[i] \in Parts
  BY DEF Parts
<1>3. x \in Seq(Parts)
  BY <1>1, <1>2
<1>4. Int \subseteq Parts
  BY DEF Parts
<1> QED
  BY <1>3, <1>4

LEMMA MapType ==
  ASSUME NEW m \in Maps
  PROVE  /\ DOMAIN m \subseteq Idents /\ m = [x \in DOMAIN m |-> m[x]]
         /\ \A x \in DOMAIN m : m[x] \in Symbols
  BY DEF Maps

LEMMA InsertedType ==
  ASSUME NEW m \in Maps, NEW x \in Idents, NEW symbol \in Symbols
  PROVE  /\ Inserted(m, x, symbol) \in Maps
         /\ DOMAIN Inserted(m, x, symbol) = DOMAIN m \cup {x}
         /\ \A y \in DOMAIN m : Inserted(m, x, symbol)[y] = m[y]
         /\ x \notin DOMAIN m => Inserted(m, x, symbol)[x] = symbol
<1>1. CASE x \in DOMAIN m
  BY <1>1 DEF Inserted
<1>2. CASE x \notin DOMAIN m
  <2> DEFINE r == [y \in DOMAIN m \cup {x} |-> IF y = x THEN symbol ELSE m[y]]
  <2>1. r \in [DOMAIN m \cup {x} -> Symbols]
    BY MapType
  <2>2. DOMAIN m \cup {x} \in SUBSET Idents
    BY MapType
  <2>3. r \in Maps
    BY <2>1, <2>2 DEF Maps
  <2> QED BY <1>2, <2>3 DEF Inserted
<1> QED BY <1>1, <1>2

LEMMA InsertType ==
  ASSUME NEW ts \in Seq(Tables), NEW t \in 1 .. Len(ts), NEW x \in Idents, NEW symbol \in Symbols
  PROVE  LET r == Insert(ts, t, x, symbol)
         IN  /\ r \in Seq(Tables) /\ Len(r) = Len(ts)
             /\ \A u \in 1 .. Len(ts) : r[u].father = ts[u].father
             /\ \A u \in 1 .. Len(ts) : u # t => r[u] = ts[u]
             /\ r[t].map = Inserted(ts[t].map, x, symbol)
<1>1. ts[t] \in Tables /\ ts[t].map \in Maps
  <2>1. ts[t] \in Tables
    OBVIOUS
  <2> QED BY <2>1 DEF Tables
<1>2. Inserted(ts[t].map, x, symbol) \in Maps
  BY <1>1, InsertedType
<1>3. [ts[t] EXCEPT !.map = Inserted(@, x, symbol)] \in Tables
  BY <1>1, <1>2 DEF Tables
<1> QED BY <1>1, <1>3, ExceptSeq DEF Insert, Tables

LEMMA AddType ==
  ASSUME NEW ts \in Seq(Tables), NEW f \in Int
  PROVE  LET r == AddSymbolTable(ts, f)
         IN  /\ r \in Seq(Tables) /\ Len(r) = Len(ts) + 1
             /\ \A u \in 1 .. Len(ts) : r[u] = ts[u]
             /\ r[Len(ts) + 1].father = f /\ DOMAIN r[Len(ts) + 1].map = {}
<1>1. <<>> \in Maps /\ DOMAIN <<>> = {}
  <2>1. <<>> \in [{} -> Symbols]
    OBVIOUS
  <2> QED BY <2>1 DEF Maps
<1>2. [father |-> f, map |-> <<>>] \in Tables
  BY <1>1 DEF Tables
<1> QED BY <1>1, <1>2, AppendProperties DEF AddSymbolTable

LEMMA ThisFunctionType ==
  ASSUME koopa \in Seq(Lines)
  PROVE  ThisFunction \in Nat /\ IsFiniteSet({i \in DOMAIN koopa : koopa[i].op = "fun"})
<1>1. IsFiniteSet(1 .. Len(koopa))
  BY FS_Interval
<1>2. {i \in DOMAIN koopa : koopa[i].op = "fun"} \in SUBSET (1 .. Len(koopa))
  OBVIOUS
<1> QED
  BY <1>1, <1>2, FS_Subset, FS_CardinalityType DEF ThisFunction

LEMMA LineType ==
  ASSUME Types, NEW name \in Seq(Parts), NEW words \in Nat,
         NEW op \in {"decl", "fun", "global", "alloc"},
         NEW init \in {"none", "param", "zeroinit", "integer", "aggregate"}
  PROVE  /\ Line(op, name, words, init) \in Lines
         /\ [Line(op, name, words, init) EXCEPT !.in = 0] \in Lines
         /\ [Line(op, name, words, init) EXCEPT !.decl = 0] \in Lines
<1>1. Line(op, name, words, init) \in Lines
  BY ThisFunctionType DEF Types, Line, Lines
<1> QED
  BY <1>1 DEF Lines

LEMMA SymbolType ==
  ASSUME declared \in Nat
  PROVE  /\ \A n \in Int : Variate(FALSE, n) \in Symbols /\ Variate(TRUE, n) \in Symbols
         /\ \A decl \in Nat : Function(decl) \in Symbols
  BY DEF Variate, Function, Symbols

\* NoUse and the other notes of a use.
LEMMA UseType ==
  \A op \in {"none", "number", "place", "call"}, name \in Seq(Parts), val \in Nat :
    Use(op, name, val) \in Uses
  BY DEF Use, Uses

LEMMA NoUseType == NoUse \in Uses
<1>1. <<>> \in Seq(Parts)
  OBVIOUS
<1> QED BY <1>1, UseType DEF NoUse

LEMMA TypeInit == Init => Types
<1> SUFFICES ASSUME Init PROVE Types
  OBVIOUS
<1> USE DEF Init
<1>1. Library \in Seq(Idents) /\ DOMAIN Library = 1 .. Len(Library) /\ Len(Library) \in Nat
  BY SymbolTablesAssumption
<1> DEFINE functions == [x \in Range(Library) |->
                           Function(CHOOSE i \in DOMAIN Library : Library[i] = x)]
<1>2. functions \in Maps
  <2>1. \A x \in Range(Library) :
          (CHOOSE i \in DOMAIN Library : Library[i] = x) \in DOMAIN Library
    BY DEF Range
  <2>2. \A x \in Range(Library) : functions[x] \in Symbols
    BY <1>1, <2>1, SymbolType
  <2>3. Range(Library) \in SUBSET Idents
    BY <1>1 DEF Range
  <2> QED BY <2>2, <2>3 DEF Maps
<1> HIDE DEF functions
<1>3. tables \in Seq(Tables) /\ tables # <<>> /\ Len(tables) = 1
  <2>1. PICK father \in {NULL, Wild} : tables = <<[father |-> father, map |-> functions]>>
    BY DEF functions
  <2>2. [father |-> father, map |-> functions] \in Tables
    BY <1>2 DEF Tables, NULL, Wild
  <2>3. \A t \in Tables : <<t>> \in Seq(Tables) /\ <<t>> # <<>> /\ Len(<<t>>) = 1
    OBVIOUS
  <2> HIDE DEF Init
  <2> QED BY <2>1, <2>2, <2>3
<1>4. koopa \in Seq(Lines)
  <2>1. \A i \in 1 .. Len(Library) : Library[i] \in Seq(Parts)
    BY <1>1, IdentType
  <2>2. \A i \in 1 .. Len(Library) :
          [op |-> "decl", name |-> Library[i], in |-> 0, words |-> 0, init |-> "none", decl |-> i]
            \in Lines
    BY <1>1, <2>1 DEF Lines
  <2> QED BY <1>1, <2>2
<1>5. used \in Uses
  BY NoUseType
<1>6. /\ cur_symbol_table \in 1 .. Len(tables) /\ saved \in Seq(1 .. Len(tables))
      /\ unused_koopa_var_count \in 1 .. MaxVars + 1
  BY <1>3, SymbolTablesAssumption DEF Root
<1> QED
  BY <1>1, <1>3, <1>4, <1>5, <1>6 DEF Types

\* What the insertion of a symbol into the current table leaves.
LEMMA InsertStep ==
  ASSUME Types, NEW x \in Idents, NEW symbol \in Symbols,
         tables' = Insert(tables, cur_symbol_table, x, symbol)
  PROVE  /\ tables' \in Seq(Tables) /\ tables' # <<>> /\ Len(tables') = Len(tables)
         /\ \A u \in 1 .. Len(tables) : tables'[u].father = tables[u].father
         /\ \A u \in 1 .. Len(tables) : u # cur_symbol_table => tables'[u] = tables[u]
         /\ tables'[cur_symbol_table].map = Inserted(tables[cur_symbol_table].map, x, symbol)
<1>1. tables \in Seq(Tables) /\ tables # <<>> /\ cur_symbol_table \in 1 .. Len(tables)
  BY DEF Types
<1> QED BY <1>1, InsertType

LEMMA TypeAlloc ==
  ASSUME Types, NEW x \in Idents, NEW words \in Nat, NEW op \in {"global", "alloc"},
         NEW init \in {"none", "param", "zeroinit", "integer", "aggregate"},
         MayDeclare(x), Alloc(op, x, words, init)
  PROVE  /\ tables' \in Seq(Tables) /\ tables' # <<>> /\ Len(tables') = Len(tables)
         /\ koopa' \in Seq(Lines) /\ used' \in Uses /\ declared' \in Nat
         /\ unused_koopa_var_count' \in 1 .. MaxVars + 1
<1>1. Variate(FALSE, unused_koopa_var_count) \in Symbols
  <2>1. declared \in Nat /\ unused_koopa_var_count \in Int
    BY DEF Types
  <2> QED BY <2>1, SymbolType
<1>2. tables' \in Seq(Tables) /\ tables' # <<>> /\ Len(tables') = Len(tables)
  BY <1>1, InsertStep DEF Alloc
<1>3. Line(op, Append(x, unused_koopa_var_count), words, init) \in Lines
  <2>1. Append(x, unused_koopa_var_count) \in Seq(Parts)
    BY IdentType DEF Types
  <2> QED BY <2>1, LineType
<1>4. koopa' \in Seq(Lines)
  BY <1>3 DEF Types, Alloc
<1>5. unused_koopa_var_count' \in 1 .. MaxVars + 1
  <2>1. MaxVars \in Nat /\ unused_koopa_var_count \in 1 .. MaxVars + 1 /\ unused_koopa_var_count <= MaxVars
    BY SymbolTablesAssumption DEF Types, MayDeclare
  <2>2. unused_koopa_var_count' = unused_koopa_var_count + 1
    BY DEF Alloc, NextVarCount
  <2> QED BY <2>1, <2>2
<1>6. declared' \in Nat /\ used' \in Uses
  BY NoUseType DEF Types, Alloc
<1> QED
  BY <1>2, <1>4, <1>5, <1>6

LEMMA TypeDumpVar ==
  ASSUME Types, NEW x \in Idents, NEW words \in Nat,
         NEW init \in {"zeroinit", "integer", "aggregate"}, DumpVar(x, words, init)
  PROVE  Types'
<1>1. Alloc("global", x, words, init) \/ Alloc("alloc", x, 0, "none")
  BY DEF DumpVar
<1>2. /\ tables' \in Seq(Tables) /\ tables' # <<>> /\ Len(tables') = Len(tables)
      /\ koopa' \in Seq(Lines) /\ used' \in Uses /\ declared' \in Nat
      /\ unused_koopa_var_count' \in 1 .. MaxVars + 1
  BY <1>1, TypeAlloc DEF DumpVar
<1>3. global_var_name_queue' \in Seq(Idents)
  BY DEF DumpVar, PushGlobal, Types
<1> QED
  BY <1>2, <1>3 DEF Types, DumpVar

LEMMA TypeDeclarations ==
  ASSUME Types, NEW x \in Idents,
         DumpVarDef(x) \/ DumpVarDefInit(x) \/ DumpArrayDef(x) \/ DumpConstDef(x)
           \/ DumpFuncDef(x) \/ DumpFParam(x)
  PROVE  Types'
<1>1. CASE DumpVarDef(x)
  BY <1>1, TypeDumpVar DEF DumpVarDef
<1>2. CASE DumpVarDefInit(x)
  BY <1>2, TypeDumpVar DEF DumpVarDefInit
<1>3. CASE DumpArrayDef(x)
  BY <1>3, TypeDumpVar, SymbolTablesAssumption DEF DumpArrayDef
<1>4. CASE DumpConstDef(x)
  <2>1. Variate(TRUE, -1) \in Symbols
    <3>1. declared \in Nat /\ -1 \in Int
      BY DEF Types
    <3> QED BY <3>1, SymbolType
  <2>2. tables' \in Seq(Tables) /\ tables' # <<>> /\ Len(tables') = Len(tables)
    BY <1>4, <2>1, InsertStep DEF DumpConstDef
  <2>3. unused_koopa_var_count' \in 1 .. MaxVars + 1
    BY <1>4, SymbolTablesAssumption DEF DumpConstDef, MayDeclare, NextVarCount, Types
  <2>4. declared' \in Nat /\ used' \in Uses
    BY <1>4, NoUseType DEF DumpConstDef, Types
  <2> QED BY <1>4, <2>2, <2>3, <2>4 DEF DumpConstDef, Types, visitVars
<1>5. CASE DumpFuncDef(x)
  <2> DEFINE ts == Insert(tables, cur_symbol_table, x, Function(declared + 1))
  <2>1. ts \in Seq(Tables) /\ Len(ts) = Len(tables)
    <3>1. declared \in Nat /\ tables \in Seq(Tables) /\ cur_symbol_table \in 1 .. Len(tables)
      BY DEF Types
    <3>2. Function(declared + 1) \in Symbols
      BY <3>1, SymbolType
    <3> QED BY <3>1, <3>2, InsertType
  <2>2. /\ tables' \in Seq(Tables) /\ Len(tables') = Len(tables) + 1
    <3>1. tables' = AddSymbolTable(ts, Root) /\ Root \in Int
      BY <1>5 DEF DumpFuncDef, Root
    <3> HIDE DEF ts
    <3> QED BY <2>1, <3>1, AddType
  <2> HIDE DEF ts
  <2>3. /\ Len(tables) \in Nat /\ tables' # <<>>
        /\ cur_symbol_table' \in 1 .. Len(tables')
    BY <1>5, <2>2 DEF DumpFuncDef, Types
  <2>4. saved' \in Seq(1 .. Len(tables'))
    BY <1>5, <2>2 DEF DumpFuncDef, Types
  <2>5. koopa' \in Seq(Lines)
    <3>1. [Line("fun", x, 0, "none") EXCEPT !.in = 0] \in Lines
      BY IdentType, LineType
    <3> QED BY <1>5, <3>1, AppendProperties DEF DumpFuncDef, Types
  <2> QED BY <1>5, <2>2, <2>3, <2>4, <2>5, NoUseType DEF DumpFuncDef, Types, visitVars
<1>6. CASE DumpFParam(x)
  BY <1>6, TypeAlloc DEF DumpFParam, Types, visitVars
<1> QED BY <1>1, <1>2, <1>3, <1>4, <1>5, <1>6
-----------------------------------------------------------------------------
(* The tables of the open blocks, and what find finds there *)

\* The root is the outermost open table and no other; the father of each open
\* table is the one that its block goes back to; fathers are older.
Scopes ==
  /\ \A i \in 1 .. Len(Blocks) : Blocks[i] = Root <=> i = Len(Blocks)
  /\ FathersAreOpen
  /\ tables[1].father \in {NULL, Wild}
  /\ \A t \in 2 .. Len(tables) : tables[t].father \in 1 .. t - 1

LEMMA BlocksType ==
  ASSUME Types
  PROVE  /\ Blocks \in Seq(1 .. Len(tables)) /\ Len(Blocks) = Len(saved) + 1 /\ Len(saved) \in Nat
         /\ DOMAIN Blocks = 1 .. Len(Blocks)
         /\ Blocks[1] = cur_symbol_table
         /\ \A i \in 2 .. Len(Blocks) : Blocks[i] = saved[i - 1]
  BY DEF Types, Blocks

LEMMA EnvType ==
  ASSUME Types
  PROVE  /\ DOMAIN Env = 1 .. Len(Blocks) /\ Len(Env) = Len(Blocks)
         /\ \A i \in 1 .. Len(Blocks) :
              /\ Blocks[i] \in 1 .. Len(tables) /\ tables[Blocks[i]].map \in Maps
              /\ DOMAIN Env[i] = DOMAIN tables[Blocks[i]].map
              /\ \A x \in DOMAIN Env[i] :
                   Env[i][x] = [decl |-> tables[Blocks[i]].map[x].decl,
                                kind |-> KindOf(tables[Blocks[i]].map[x])]
<1>1. \A i \in 1 .. Len(Blocks) : Blocks[i] \in 1 .. Len(tables)
  BY BlocksType
<1>2. \A t \in 1 .. Len(tables) : tables[t].map \in Maps
  <2>1. \A t \in 1 .. Len(tables) : tables[t] \in Tables
    BY DEF Types
  <2> QED BY <2>1 DEF Tables
<1>3. DOMAIN Env = 1 .. Len(Blocks) /\ Len(Env) = Len(Blocks)
  BY BlocksType DEF Env
<1> QED
  BY <1>1, <1>2, <1>3 DEF Env

\* find is the function that its recursion describes.
LEMMA FindIsRecursive ==
  ASSUME Types, Scopes, NEW x
  PROVE  \E f : /\ Find(x) = f[cur_symbol_table]
                /\ \A t \in 1 .. Len(tables) :
                     f[t] = IF x \in DOMAIN tables[t].map THEN t ELSE f[tables[t].father]
<1> DEFINE D == -1 .. Len(tables)
           stop == {t \in D : t <= 0 \/ x \in DOMAIN tables[t].map}
           next == [t \in D |-> IF t <= 0 THEN t ELSE tables[t].father]
           Is(f) == f = [t \in -1 .. Len(tables) |->
                           IF t <= 0 THEN t
                           ELSE IF x \in DOMAIN tables[t].map THEN t ELSE f[tables[t].father]]
<1>1. next \in [D -> D]
  <2> SUFFICES ASSUME NEW t \in D, ~ (t <= 0) PROVE tables[t].father \in D
    OBVIOUS
  <2>1. Len(tables) \in Nat /\ t \in 1 .. Len(tables)
    BY DEF Types
  <2>2. CASE t = 1
    BY <2>1, <2>2 DEF Scopes, NULL, Wild
  <2>3. CASE t # 1
    <3>1. tables[t].father \in 1 .. t - 1
      BY <2>1, <2>3 DEF Scopes
    <3> QED BY <2>1, <3>1
  <2> QED BY <2>2, <2>3
<1>2. PICK g : g = [t \in D |-> IF t \in stop THEN t ELSE g[next[t]]]
  <2> HIDE DEF D, stop, next
  <2> QED BY <1>1, Following
<1>3. Is(g)
  BY <1>2
<1>4. Is(CHOOSE f : Is(f))
  <2> HIDE DEF Is
  <2> QED BY <1>3
<1>5. Find(x) = (CHOOSE f : Is(f))[cur_symbol_table]
  BY DEF Find
<1> HIDE DEF Is
<1>6. PICK f : f = (CHOOSE h : Is(h)) /\ Is(f)
  BY <1>4
<1>7. \A t \in 1 .. Len(tables) :
        f[t] = IF x \in DOMAIN tables[t].map THEN t ELSE f[tables[t].father]
  <2>1. Len(tables) \in Nat
    BY DEF Types
  <2> QED BY <1>6, <2>1 DEF Is
<1> QED BY <1>5, <1>6, <1>7

\* find ends at the innermost open block that has the name.
LEMMA FindsInnermost ==
  ASSUME Types, Scopes, NEW x, NEW k \in 1 .. Len(Blocks),
         x \in DOMAIN tables[Blocks[k]].map,
         \A j \in 1 .. k - 1 : x \notin DOMAIN tables[Blocks[j]].map
  PROVE  Find(x) = Blocks[k]
<1>1. PICK f : /\ Find(x) = f[cur_symbol_table]
               /\ \A t \in 1 .. Len(tables) :
                    f[t] = IF x \in DOMAIN tables[t].map THEN t ELSE f[tables[t].father]
  BY FindIsRecursive
<1> DEFINE S == {j \in 1 .. k : f[Blocks[j]] = f[Blocks[1]]}
<1>2. \A j \in 1 .. Len(Blocks) : Blocks[j] \in 1 .. Len(tables)
  BY BlocksType
<1>3. 1 \in Nat /\ k \in Nat /\ 1 \in S
  BY BlocksType
<1>4. \A j \in 1 .. k - 1 : j \in S => j + 1 \in S
  <2> SUFFICES ASSUME NEW j \in 1 .. k - 1, f[Blocks[j]] = f[Blocks[1]]
               PROVE  f[Blocks[j + 1]] = f[Blocks[1]]
    BY <1>3
  <2>1. j \in 1 .. Len(Blocks) - 1
    BY BlocksType
  <2>2. tables[Blocks[j]].father = Blocks[j + 1]
    BY <2>1 DEF Scopes, FathersAreOpen
  <2> QED BY <1>1, <1>2, <2>1, <2>2
<1> HIDE DEF S
<1>5. k \in S
  <2>1. \A j \in 1 .. k : j \in S
    BY <1>3, <1>4, Climb, Zenon
  <2> QED BY <2>1, <1>3
<1>6. f[Blocks[k]] = Blocks[k]
  BY <1>1, <1>2
<1> QED
  BY <1>1, <1>5, <1>6, BlocksType DEF S

\* A name that is visible means what the innermost block says that has it, and
\* find goes there.
LEMMA Innermost ==
  ASSUME Types, Scopes, NEW x, Lexical!Visible(x)
  PROVE  \E k \in 1 .. Len(Blocks) :
           /\ x \in DOMAIN tables[Blocks[k]].map /\ Find(x) = Blocks[k]
           /\ Lexical!Meaning(x) = Env[k][x]
<1> DEFINE Has == {i \in 1 .. Len(Blocks) : x \in DOMAIN Env[i]}
           Inner(i) == x \in DOMAIN Env[i] /\ \A j \in 1 .. i - 1 : x \notin DOMAIN Env[j]
           k == CHOOSE i \in DOMAIN Env : Inner(i)
<1>0. Len(Blocks) \in Nat
  BY BlocksType
<1>1. \E i \in 1 .. Len(Blocks) : Inner(i)
  <2>1. Has \in SUBSET Nat /\ Has # {}
    BY EnvType, <1>0 DEF Lexical!Visible
  <2>2. PICK i \in Has : \A j \in Has : i <= j
    <3> HIDE DEF Has
    <3> QED BY <2>1, LeastElement
  <2> QED BY <2>2, <1>0
<1>2. k \in 1 .. Len(Blocks) /\ Inner(k)
  BY <1>1, EnvType
<1>3. Lexical!Meaning(x) = Env[k][x]
  BY DEF Lexical!Meaning
<1> HIDE DEF k
<1>4. /\ x \in DOMAIN tables[Blocks[k]].map
      /\ \A j \in 1 .. k - 1 : x \notin DOMAIN tables[Blocks[j]].map
  <2>1. \A j \in 1 .. k - 1 : j \in 1 .. Len(Blocks)
    BY <1>0, <1>2
  <2> QED BY <1>2, <2>1, EnvType
<1>5. Find(x) = Blocks[k]
  BY <1>2, <1>4, FindsInnermost
<1> QED
  BY <1>2, <1>3, <1>4, <1>5

\* What is printed for a name that is used as what it is.
LEMMA PrintedIs ==
  ASSUME Types, Scopes, NEW x, Lexical!Visible(x), NEW tag \in {0, 1},
         tag = 1 <=> Lexical!Meaning(x).kind = "function"
  PROVE  \E k \in 1 .. Len(Blocks) : \E symbol \in Symbols :
           /\ x \in DOMAIN tables[Blocks[k]].map /\ x \in Idents
           /\ symbol = tables[Blocks[k]].map[x] /\ symbol.tag = tag
           /\ Lexical!Meaning(x) = [decl |-> symbol.decl, kind |-> KindOf(symbol)]
           /\ Printed(x, tag) = IF tag = 1 THEN Use("call", x, 0)
                                ELSE IF symbol.flag_is_const THEN Use("number", <<>>, symbol.decl)
                                ELSE Use("place", Append(x, symbol.koopa_var_count), 0)
<1>1. PICK k \in 1 .. Len(Blocks) :
           /\ x \in DOMAIN tables[Blocks[k]].map /\ Find(x) = Blocks[k]
           /\ Lexical!Meaning(x) = Env[k][x]
  BY Innermost
<1> DEFINE symbol == tables[Blocks[k]].map[x]
<1>2. /\ Blocks[k] \in 1 .. Len(tables) /\ tables[Blocks[k]].map \in Maps
      /\ Env[k][x] = [decl |-> symbol.decl, kind |-> KindOf(symbol)]
  BY <1>1, EnvType
<1>3. symbol \in Symbols /\ x \in Idents
  BY <1>1, <1>2, MapType
<1>4. symbol.tag = tag
  BY <1>1, <1>2, <1>3 DEF KindOf, Symbols
<1>5. Blocks[k] \notin {NULL, Wild}
  BY <1>2 DEF NULL, Wild
<1>6. Printed(x, tag) = IF tag = 1 THEN Use("call", x, 0)
                        ELSE IF symbol.flag_is_const THEN Use("number", <<>>, symbol.decl)
                        ELSE Use("place", Append(x, symbol.koopa_var_count), 0)
  BY <1>1, <1>4, <1>5 DEF Printed
<1> HIDE DEF symbol
<1> QED
  BY <1>1, <1>2, <1>3, <1>4, <1>6 DEF symbol
-----------------------------------------------------------------------------
(* The globals in the order of the text *)

LEMMA GlobalsType ==
  ASSUME Types
  PROVE  /\ Len(koopa) \in Nat /\ DOMAIN koopa = 1 .. Len(koopa)
         /\ Globals \in SUBSET (1 .. Len(koopa))
         /\ IsFiniteSet(Globals) /\ Cardinality(Globals) \in Nat
         /\ \A i \in 1 .. Len(koopa) : koopa[i] \in Lines
         /\ \A k \in 1 .. Cardinality(Globals) :
              \E i \in Globals : Rank(i) = k /\ Value(k) = koopa[i]
<1>1. /\ Len(koopa) \in Nat /\ DOMAIN koopa = 1 .. Len(koopa)
      /\ \A i \in 1 .. Len(koopa) : koopa[i] \in Lines
  BY DEF Types
<1>2. Globals \in SUBSET (1 .. Len(koopa))
  BY <1>1 DEF Globals
<1>3. IsFiniteSet(Globals) /\ Cardinality(Globals) \in Nat
  BY <1>1, <1>2, CountUpTo
<1>4. ASSUME NEW k \in 1 .. Cardinality(Globals)
      PROVE  \E i \in Globals : Rank(i) = k /\ Value(k) = koopa[i]
  <2>1. \E i \in Globals : Rank(i) = k
    BY <1>1, <1>2, CountOnto DEF Rank
  <2> QED BY <2>1 DEF Value
<1> QED BY <1>1, <1>2, <1>3, <1>4
-----------------------------------------------------------------------------
LEMMA TypeUses ==
  ASSUME Types, Scopes, NEW x, DumpLVal(x) \/ DumpAssign(x) \/ DumpCall(x)
  PROVE  Types'
<1>1. \A tag \in {0, 1} :
        Lexical!Visible(x) /\ (tag = 1 <=> Lexical!Meaning(x).kind = "function")
          => Printed(x, tag) \in Uses
  <2> SUFFICES ASSUME NEW tag \in {0, 1}, Lexical!Visible(x),
                      tag = 1 <=> Lexical!Meaning(x).kind = "function"
               PROVE  Printed(x, tag) \in Uses
    OBVIOUS
  <2>1. PICK symbol \in Symbols :
          /\ x \in Idents
          /\ Printed(x, tag) = IF tag = 1 THEN Use("call", x, 0)
                               ELSE IF symbol.flag_is_const THEN Use("number", <<>>, symbol.decl)
                               ELSE Use("place", Append(x, symbol.koopa_var_count), 0)
    BY PrintedIs
  <2>2. symbol.decl \in Nat /\ symbol.koopa_var_count \in Int
    BY DEF Symbols
  <2>3. /\ Use("call", x, 0) \in Uses
        /\ Use("number", <<>>, symbol.decl) \in Uses
        /\ Use("place", Append(x, symbol.koopa_var_count), 0) \in Uses
    <3>1. <<>> \in Seq(Parts)
      OBVIOUS
    <3> QED BY <2>1, <2>2, <3>1, IdentType, UseType
  <2> QED BY <2>1, <2>3
<1>2. used' \in Uses
  BY <1>1, NoUseType DEF DumpLVal, DumpAssign, DumpCall, Means
<1>3. UNCHANGED unchangedByUse
  BY DEF DumpLVal, DumpAssign, DumpCall
<1> QED BY <1>2, <1>3 DEF Types, unchangedByUse, visitVars

LEMMA TypeOthers ==
  ASSUME Types, DumpLogicExp \/ DumpBlock \/ DumpBlockEnd \/ DumpEnd \/ VisitGlobalAlloc
                  \/ VisitEnd \/ UNCHANGED vars
  PROVE  Types'
<1>1. CASE DumpLogicExp
  <2>1. <<"%temp_l_result", unused_koopa_var_count>> \in Seq(Parts)
    <3>1. "%temp_l_result" \in Parts /\ unused_koopa_var_count \in Parts
      BY DEF Types, Parts
    <3> QED BY <3>1
  <2>2. [Line("alloc", <<"%temp_l_result", unused_koopa_var_count>>, 0, "none")
           EXCEPT !.decl = 0] \in Lines
    BY <2>1, LineType
  <2>3. koopa' \in Seq(Lines)
    BY <1>1, <2>2, AppendProperties DEF DumpLogicExp, Types
  <2>4. unused_koopa_var_count' \in 1 .. MaxVars + 1
    BY <1>1, SymbolTablesAssumption DEF DumpLogicExp, NextVarCount, Types
  <2> QED BY <1>1, <2>3, <2>4 DEF DumpLogicExp, Types, visitVars
<1>2. CASE DumpBlock
  <2>1. /\ tables' \in Seq(Tables) /\ Len(tables') = Len(tables) + 1
    BY <1>2, AddType DEF DumpBlock, Types
  <2>2. /\ Len(tables) \in Nat /\ tables' # <<>>
        /\ cur_symbol_table' \in 1 .. Len(tables')
    BY <1>2, <2>1 DEF DumpBlock, Types
  <2>3. saved' \in Seq(1 .. Len(tables'))
    BY <1>2, <2>1 DEF DumpBlock, Types
  <2> QED BY <1>2, <2>1, <2>2, <2>3, NoUseType DEF DumpBlock, Types, visitVars
<1>3. CASE DumpBlockEnd
  BY <1>3, NoUseType DEF DumpBlockEnd, Types, visitVars
<1>4. CASE DumpEnd
  BY <1>4 DEF DumpEnd, Types
<1>5. CASE VisitGlobalAlloc
  <2>1. Len(data) + 1 \in 1 .. Cardinality(Globals)
    BY <1>5, GlobalsType DEF VisitGlobalAlloc, Types
  <2>2. PICK i \in 1 .. Len(koopa) : Value(Len(data) + 1) = koopa[i] /\ koopa[i] \in Lines
    BY <2>1, GlobalsType
  <2>3. Bytes(Value(Len(data) + 1)) \in Nat
    BY <2>2 DEF Bytes, Lines
  <2> QED BY <1>5, <2>3 DEF VisitGlobalAlloc, Types
<1>6. CASE VisitEnd
  BY <1>6 DEF VisitEnd, Types
<1>7. CASE UNCHANGED vars
  BY <1>7 DEF vars, visitVars, Types
<1> QED BY <1>1, <1>2, <1>3, <1>4, <1>5, <1>6, <1>7
-----------------------------------------------------------------------------
LEMMA GlobalScope ==
  ASSUME Types, Scopes
  PROVE  IsGlobal <=> saved = <<>>
<1>1. saved = <<>> <=> Len(saved) = 0
  BY DEF Types
<1> QED BY <1>1, BlocksType DEF Scopes, IsGlobal

\* The tables may grow by one, which is opened: every other father stays.
LEMMA ScopesOpen ==
  ASSUME Types, Types', Scopes, Len(tables') = Len(tables) + 1,
         \A u \in 1 .. Len(tables) : tables'[u].father = tables[u].father,
         tables'[Len(tables) + 1].father = cur_symbol_table,
         cur_symbol_table' = Len(tables) + 1, saved' = <<cur_symbol_table>> \o saved
  PROVE  /\ Scopes'
         /\ Blocks' = <<Len(tables) + 1>> \o Blocks
<1>1. /\ Len(Blocks) = Len(saved) + 1 /\ Len(saved) \in Nat
      /\ \A i \in 1 .. Len(Blocks) : Blocks[i] \in 1 .. Len(tables)
      /\ Blocks[1] = cur_symbol_table
  BY BlocksType
<1>2. Len(tables) \in Nat /\ Len(tables) > 0
  BY DEF Types
<1>3. Blocks' = <<Len(tables) + 1>> \o Blocks
  BY DEF Blocks
<1>4. /\ Len(Blocks') = Len(Blocks) + 1 /\ Blocks'[1] = Len(tables) + 1
      /\ \A i \in 2 .. Len(Blocks) + 1 : Blocks'[i] = Blocks[i - 1]
  <2>1. Blocks \in Seq(1 .. Len(tables) + 1) /\ <<Len(tables) + 1>> \in Seq(1 .. Len(tables) + 1)
    BY <1>2, BlocksType
  <2> QED BY <1>3, <2>1
<1>5. ASSUME NEW i \in 1 .. Len(Blocks')
      PROVE  Blocks'[i] = 1 <=> i = Len(Blocks')
  <2>1. CASE i = 1
    BY <2>1, <1>1, <1>2, <1>4
  <2>2. CASE i # 1
    <3>1. i - 1 \in 1 .. Len(Blocks) /\ Blocks'[i] = Blocks[i - 1]
      BY <1>1, <1>4, <2>2
    <3>2. Blocks[i - 1] = 1 <=> i - 1 = Len(Blocks)
      BY <3>1 DEF Scopes, Root
    <3> QED BY <1>1, <1>4, <3>1, <3>2
  <2> QED BY <2>1, <2>2
<1>6. ASSUME NEW i \in 1 .. Len(Blocks') - 1
      PROVE  tables'[Blocks'[i]].father = Blocks'[i + 1]
  <2>1. CASE i = 1
    BY <2>1, <1>1, <1>4
  <2>2. CASE i # 1
    <3>1. i - 1 \in 1 .. Len(Blocks) - 1
      BY <1>1, <1>4, <2>2
    <3>2. tables[Blocks[i - 1]].father = Blocks[i]
      BY <3>1 DEF Scopes, FathersAreOpen
    <3> QED BY <1>1, <1>4, <2>2, <3>1, <3>2
  <2> QED BY <2>1, <2>2
<1>7. tables'[1].father \in {NULL, Wild}
  <2>1. tables[1].father \in {NULL, Wild}
    BY DEF Scopes
  <2> QED BY <1>2, <2>1
<1>8. ASSUME NEW t \in 2 .. Len(tables')
      PROVE  tables'[t].father \in 1 .. t - 1
  <2>1. CASE t = Len(tables) + 1
    <3>1. tables'[t].father = cur_symbol_table /\ cur_symbol_table \in 1 .. Len(tables)
      BY <1>1, <1>2, <2>1
    <3> QED BY <1>2, <2>1, <3>1
  <2>2. CASE t # Len(tables) + 1
    <3>1. t \in 2 .. Len(tables) /\ tables'[t].father = tables[t].father
      BY <1>2, <2>2
    <3> QED BY <3>1 DEF Scopes
  <2> QED BY <2>1, <2>2
<1> QED BY <1>3, <1>5, <1>6, <1>7, <1>8 DEF Scopes, FathersAreOpen, Root

LEMMA ScopesClose ==
  ASSUME Types, Types', Scopes, saved # <<>>, UNCHANGED tables,
         cur_symbol_table' = Head(saved), saved' = Tail(saved)
  PROVE  /\ Scopes'
         /\ Blocks' = Tail(Blocks) /\ Len(Blocks) > 1
<1>1. Blocks' = saved /\ Tail(Blocks) = saved
  <2>1. saved \in Seq(1 .. Len(tables)) /\ cur_symbol_table \in 1 .. Len(tables)
    BY DEF Types
  <2> QED BY <2>1, Prepended DEF Blocks
<1>2. /\ Len(Blocks) = Len(saved) + 1 /\ Len(saved) \in Nat
      /\ \A i \in 2 .. Len(Blocks) : Blocks[i] = saved[i - 1]
  BY BlocksType
<1>3. Len(saved) # 0
  BY DEF Types
<1>4. ASSUME NEW i \in 1 .. Len(saved)
      PROVE  saved[i] = Blocks[i + 1] /\ (saved[i] = 1 <=> i = Len(saved))
  <2>1. i + 1 \in 2 .. Len(Blocks) /\ saved[i] = Blocks[i + 1]
    BY <1>2
  <2>2. Blocks[i + 1] = 1 <=> i + 1 = Len(Blocks)
    BY <1>2, <2>1 DEF Scopes, Root
  <2> QED BY <1>2, <2>1, <2>2
<1>5. ASSUME NEW i \in 1 .. Len(saved) - 1
      PROVE  tables[saved[i]].father = saved[i + 1]
  <2>1. i + 1 \in 1 .. Len(Blocks) - 1 /\ i \in 1 .. Len(saved) /\ i + 1 \in 1 .. Len(saved)
    BY <1>2
  <2>2. tables[Blocks[i + 1]].father = Blocks[i + 1 + 1]
    BY <2>1 DEF Scopes, FathersAreOpen
  <2> QED BY <1>4, <2>1, <2>2
<1>6. Scopes'
  BY <1>1, <1>4, <1>5 DEF Scopes, FathersAreOpen, Root
<1> QED BY <1>1, <1>2, <1>3, <1>6

LEMMA ScopesStay ==
  ASSUME Types, Scopes, Len(tables') = Len(tables),
         \A u \in 1 .. Len(tables) : tables'[u].father = tables[u].father,
         UNCHANGED <<cur_symbol_table, saved>>
  PROVE  Scopes' /\ Blocks' = Blocks
<1>1. Blocks' = Blocks
  BY DEF Blocks
<1>2. /\ Len(Blocks) \in Nat /\ Len(tables) \in Nat /\ Len(tables) > 0
      /\ \A i \in 1 .. Len(Blocks) : Blocks[i] \in 1 .. Len(tables)
  <2>1. Len(tables) \in Nat /\ Len(tables) > 0
    BY DEF Types
  <2> QED BY <2>1, BlocksType
<1>3. \A i \in 1 .. Len(Blocks) : Blocks'[i] = Root <=> i = Len(Blocks')
  BY <1>1 DEF Scopes
<1>4. FathersAreOpen'
  <2> SUFFICES ASSUME NEW i \in 1 .. Len(Blocks) - 1
               PROVE  tables'[Blocks[i]].father = Blocks[i + 1]
    BY <1>1 DEF FathersAreOpen
  <2>1. Blocks[i] \in 1 .. Len(tables)
    BY <1>2
  <2> QED BY <2>1 DEF Scopes, FathersAreOpen
<1>5. tables'[1].father \in {NULL, Wild} /\ \A t \in 2 .. Len(tables') : tables'[t].father \in 1 .. t - 1
  <2>1. tables[1].father \in {NULL, Wild} /\ \A t \in 2 .. Len(tables) : tables[t].father \in 1 .. t - 1
    BY DEF Scopes
  <2> QED BY <1>2, <2>1
<1> QED BY <1>1, <1>3, <1>4, <1>5 DEF Scopes

(* The kinds of steps, as far as tables and blocks go *)

\* A symbol is inserted into the current table, which has no such name.
Inserts(x, symbol) ==
  /\ x \in Idents /\ symbol \in Symbols /\ x \notin DOMAIN tables[cur_symbol_table].map
  /\ tables' = Insert(tables, cur_symbol_table, x, symbol)
  /\ UNCHANGED <<cur_symbol_table, saved>>

LEMMA DeclaresNew ==
  ASSUME Types, NEW x, Lexical!CanDeclare(x)
  PROVE  x \notin DOMAIN tables[cur_symbol_table].map
<1>1. 1 \in 1 .. Len(Blocks) /\ Blocks[1] = cur_symbol_table
  BY BlocksType
<1> QED BY <1>1, EnvType DEF Lexical!CanDeclare

LEMMA DumpVarInserts ==
  ASSUME Types, NEW x \in Idents, NEW words, NEW init, DumpVar(x, words, init)
  PROVE  Inserts(x, Variate(FALSE, unused_koopa_var_count))
<1>1. Variate(FALSE, unused_koopa_var_count) \in Symbols
  <2>1. declared \in Nat /\ unused_koopa_var_count \in Int
    BY DEF Types
  <2> QED BY <2>1, SymbolType
<1> QED BY <1>1, DeclaresNew DEF DumpVar, MayDeclare, Alloc, Inserts

LEMMA DeclarationInserts ==
  ASSUME Types, NEW x \in Idents
  PROVE  /\ DumpVarDef(x) \/ DumpVarDefInit(x) \/ DumpArrayDef(x) \/ DumpFParam(x) =>
              Inserts(x, Variate(FALSE, unused_koopa_var_count))
         /\ DumpConstDef(x) => Inserts(x, Variate(TRUE, -1))
<1>1. /\ Variate(FALSE, unused_koopa_var_count) \in Symbols
      /\ Variate(TRUE, -1) \in Symbols
  <2>1. declared \in Nat /\ unused_koopa_var_count \in Int /\ -1 \in Int
    BY DEF Types
  <2> QED BY <2>1, SymbolType
<1>2. DumpFParam(x) => Inserts(x, Variate(FALSE, unused_koopa_var_count))
  BY <1>1, DeclaresNew DEF DumpFParam, MayDeclare, Alloc, Inserts
<1>3. DumpConstDef(x) => Inserts(x, Variate(TRUE, -1))
  BY <1>1, DeclaresNew DEF DumpConstDef, MayDeclare, Inserts
<1> QED BY <1>2, <1>3, DumpVarInserts DEF DumpVarDef, DumpVarDefInit, DumpArrayDef

LEMMA InsertsStay ==
  ASSUME Types, Scopes, NEW x, NEW symbol, Inserts(x, symbol)
  PROVE  Scopes' /\ Blocks' = Blocks
<1>1. /\ Len(tables') = Len(tables)
      /\ \A u \in 1 .. Len(tables) : tables'[u].father = tables[u].father
  BY InsertStep DEF Inserts
<1> QED BY <1>1, ScopesStay DEF Inserts

LEMMA BlockOpens ==
  ASSUME Types, Types', Scopes, DumpBlock
  PROVE  /\ Scopes' /\ Blocks' = <<Len(tables) + 1>> \o Blocks
         /\ Len(tables') = Len(tables) + 1
         /\ \A u \in 1 .. Len(tables) : tables'[u] = tables[u]
         /\ DOMAIN tables'[Len(tables) + 1].map = {}
<1>1. /\ tables \in Seq(Tables) /\ cur_symbol_table \in Int
      /\ tables' = AddSymbolTable(tables, cur_symbol_table)
  BY DEF Types, DumpBlock
<1>2. /\ Len(tables') = Len(tables) + 1
      /\ \A u \in 1 .. Len(tables) : tables'[u] = tables[u]
      /\ tables'[Len(tables) + 1].father = cur_symbol_table
      /\ DOMAIN tables'[Len(tables) + 1].map = {}
  BY <1>1, AddType
<1> QED BY <1>2, ScopesOpen DEF DumpBlock

LEMMA FunctionOpens ==
  ASSUME Types, Types', Scopes, NEW x \in Idents, DumpFuncDef(x)
  PROVE  /\ Scopes' /\ Blocks = <<Root>> /\ Blocks' = <<Len(tables) + 1, Root>>
         /\ x \notin DOMAIN tables[1].map
         /\ Len(tables') = Len(tables) + 1
         /\ \A u \in 2 .. Len(tables) : tables'[u] = tables[u]
         /\ tables'[1].map = Inserted(tables[1].map, x, Function(declared + 1))
         /\ DOMAIN tables'[Len(tables) + 1].map = {}
<1> DEFINE symbol == Function(declared + 1)
           ts == Insert(tables, 1, x, symbol)
<1>1. tables \in Seq(Tables) /\ Len(tables) \in Nat /\ Len(tables) > 0 /\ cur_symbol_table = 1 /\ saved = <<>>
  BY GlobalScope DEF Types, DumpFuncDef, IsGlobal, Root
<1>2. symbol \in Symbols
  BY SymbolType DEF Types
<1>3. x \notin DOMAIN tables[1].map
  BY <1>1, DeclaresNew DEF DumpFuncDef
<1> HIDE DEF symbol
<1>4. /\ ts \in Seq(Tables) /\ Len(ts) = Len(tables)
      /\ \A u \in 1 .. Len(tables) : ts[u].father = tables[u].father
      /\ \A u \in 2 .. Len(tables) : ts[u] = tables[u]
      /\ ts[1].map = Inserted(tables[1].map, x, symbol)
  <2>1. 1 \in 1 .. Len(tables)
    BY <1>1
  <2>2. /\ ts \in Seq(Tables) /\ Len(ts) = Len(tables)
        /\ \A u \in 1 .. Len(tables) : ts[u].father = tables[u].father
        /\ \A u \in 1 .. Len(tables) : u # 1 => ts[u] = tables[u]
        /\ ts[1].map = Inserted(tables[1].map, x, symbol)
    BY <1>1, <1>2, <2>1, InsertType
  <2> HIDE DEF ts
  <2> QED BY <1>1, <2>2
<1>5. tables' = AddSymbolTable(ts, 1) /\ cur_symbol_table' = Len(tables') /\ saved' = <<1>> \o saved
  BY <1>1 DEF DumpFuncDef, Root, symbol
<1> HIDE DEF ts
<1>6. /\ Len(tables') = Len(tables) + 1
      /\ \A u \in 1 .. Len(tables) : tables'[u] = ts[u]
      /\ tables'[Len(tables) + 1].father = 1 /\ DOMAIN tables'[Len(tables) + 1].map = {}
  <2>1. 1 \in Int
    OBVIOUS
  <2>2. LET r == AddSymbolTable(ts, 1)
        IN  /\ Len(r) = Len(ts) + 1 /\ \A u \in 1 .. Len(ts) : r[u] = ts[u]
            /\ r[Len(ts) + 1].father = 1 /\ DOMAIN r[Len(ts) + 1].map = {}
    BY <1>4, <2>1, AddType
  <2> QED BY <1>4, <1>5, <2>2
<1>7. /\ \A u \in 1 .. Len(tables) : tables'[u].father = tables[u].father
      /\ \A u \in 2 .. Len(tables) : tables'[u] = tables[u]
      /\ tables'[1].map = Inserted(tables[1].map, x, symbol)
  BY <1>1, <1>4, <1>6
<1>8. Scopes'
  BY <1>1, <1>5, <1>6, <1>7, ScopesOpen
<1>9. Blocks = <<Root>> /\ Blocks' = <<Len(tables) + 1, Root>>
  <2>1. \A a : <<a>> \o <<>> = <<a>>
    OBVIOUS
  <2> QED BY <1>1, <1>5, <1>6, <2>1, Pair DEF Blocks, Root
<1> QED BY <1>3, <1>6, <1>7, <1>8, <1>9 DEF symbol

\* The steps that leave every table and every block as it is.
LEMMA OthersStay ==
  ASSUME NEW x, Types, Scopes,
         DumpLVal(x) \/ DumpAssign(x) \/ DumpCall(x) \/ DumpLogicExp \/ DumpEnd
           \/ VisitGlobalAlloc \/ VisitEnd \/ UNCHANGED vars
  PROVE  UNCHANGED <<tables, cur_symbol_table, saved>> /\ Scopes' /\ Blocks' = Blocks
<1>1. UNCHANGED <<tables, cur_symbol_table, saved>>
  BY DEF DumpLVal, DumpAssign, DumpCall, unchangedByUse, DumpLogicExp, DumpEnd,
         VisitGlobalAlloc, VisitEnd, vars
<1> QED BY <1>1, ScopesStay

LEMMA ScopesInit == Init => Scopes
<1> SUFFICES ASSUME Init PROVE Scopes
  OBVIOUS
<1>1. /\ Len(tables) = 1 /\ tables[1].father \in {NULL, Wild}
      /\ cur_symbol_table = Root /\ saved = <<>>
  BY DEF Init
<1>2. Blocks = <<Root>>
  BY <1>1 DEF Blocks
<1> QED BY <1>1, <1>2 DEF Scopes, FathersAreOpen, Root

LEMMA TypesScopesNext == Types /\ Scopes /\ [Next]_vars => Types' /\ Scopes'
<1> SUFFICES ASSUME Types, Scopes, [Next]_vars PROVE Types' /\ Scopes'
  OBVIOUS
<1>1. ASSUME NEW x \in Idents,
             DumpVarDef(x) \/ DumpVarDefInit(x) \/ DumpArrayDef(x) \/ DumpConstDef(x) \/ DumpFParam(x)
      PROVE  Types' /\ Scopes'
  <2>1. Types'
    BY <1>1, TypeDeclarations
  <2>2. \E symbol : Inserts(x, symbol)
    BY <1>1, DeclarationInserts
  <2> QED BY <2>1, <2>2, InsertsStay
<1>2. ASSUME NEW x \in Idents, DumpFuncDef(x) PROVE Types' /\ Scopes'
  <2>1. Types'
    BY <1>2, TypeDeclarations
  <2> QED BY <1>2, <2>1, FunctionOpens
<1>3. ASSUME NEW x \in Idents, DumpLVal(x) \/ DumpAssign(x) \/ DumpCall(x) PROVE Types' /\ Scopes'
  BY <1>3, TypeUses, OthersStay
<1>4. CASE DumpLogicExp \/ DumpEnd \/ VisitGlobalAlloc \/ VisitEnd \/ UNCHANGED vars
  BY <1>4, TypeOthers, OthersStay
<1>5. CASE DumpBlock
  <2>1. Types'
    BY <1>5, TypeOthers
  <2> QED BY <1>5, <2>1, BlockOpens
<1>6. CASE DumpBlockEnd
  <2>1. Types'
    BY <1>6, TypeOthers
  <2> QED BY <1>6, <2>1, ScopesClose DEF DumpBlockEnd
<1> QED BY <1>1, <1>2, <1>3, <1>4, <1>5, <1>6 DEF Next, Finished

\* The tables, blocks and counters have their types, and the tables of the open
\* blocks are a chain of fathers that ends at the root.
THEOREM TypesAndScopes == Spec => [](Types /\ Scopes)
<1>1. Init => Types /\ Scopes
  BY TypeInit, ScopesInit
<1> QED BY <1>1, TypesScopesNext, PTL DEF Spec

\* The father that find climbs to from an open block's table is the table that
\* its Dump goes back to (FathersAreOpen): a lookup passes the open blocks, from
\* the innermost to the root, and no block that was closed.
THEOREM FathersOpen == Spec => []FathersAreOpen
<1>1. Scopes => FathersAreOpen
  BY DEF Scopes
<1> QED BY <1>1, TypesAndScopes, PTL
-----------------------------------------------------------------------------
(* Names *)

\* What counts and numbers is within what has been counted and numbered.
Counts ==
  /\ \A t \in 1 .. Len(tables) : \A x \in DOMAIN tables[t].map :
       /\ tables[t].map[x].koopa_var_count \in -1 .. unused_koopa_var_count - 1
       /\ tables[t].map[x].decl \in 1 .. declared
  /\ \A i \in 1 .. Len(koopa) : koopa[i].in \in 0 .. ThisFunction

\* The names of variables end in numbers that grow from line to line.
IsVariable(i) == koopa[i].op \in {"global", "alloc"}
Numbered ==
  /\ \A i \in 1 .. Len(koopa) : IsVariable(i) =>
       koopa[i].name # <<>> /\ Last(koopa[i].name) \in 1 .. unused_koopa_var_count - 1
  /\ \A i, j \in 1 .. Len(koopa) :
       IsVariable(i) /\ IsVariable(j) /\ i < j => Last(koopa[i].name) < Last(koopa[j].name)

\* A function has one line, and its symbol is in the root for ever.
IsFunction(i) == koopa[i].op \in {"decl", "fun"}
FunctionLines ==
  /\ \A i \in 1 .. Len(koopa) : IsFunction(i) =>
       /\ koopa[i].name \in DOMAIN tables[1].map
       /\ tables[1].map[koopa[i].name].tag = 1
  /\ \A i, j \in 1 .. Len(koopa) :
       IsFunction(i) /\ IsFunction(j) /\ i # j => koopa[i].name # koopa[j].name

\* The line of a symbol: of a function; of a variable outside, or in, the
\* function that is being dumped.
HasLine(lines, function, x, symbol, outside) ==
  \E i \in 1 .. Len(lines) :
    /\ lines[i].decl = symbol.decl
    /\ \/ symbol.tag = 1 /\ outside /\ lines[i].op \in {"decl", "fun"} /\ lines[i].name = x
       \/ /\ symbol.tag = 0 /\ lines[i].name = Append(x, symbol.koopa_var_count)
          /\ \/ outside /\ lines[i].op = "global"
             \/ ~ outside /\ lines[i].op = "alloc" /\ lines[i].in = function
\* A scalar constant has no line.
IsConstant(symbol) == symbol.tag = 0 /\ symbol.flag_is_const
OpenSymbols ==
  \A b \in 1 .. Len(Blocks) : \A x \in DOMAIN tables[Blocks[b]].map :
    \/ IsConstant(tables[Blocks[b]].map[x])
    \/ HasLine(koopa, ThisFunction, x, tables[Blocks[b]].map[x], Blocks[b] = 1)

\* A place that was used has a number that is spent.
UsedBefore ==
  used.op = "place" => used.name # <<>> /\ Last(used.name) \in 1 .. unused_koopa_var_count - 1

\* The names of the globals in the order of their lines: first those that Visit
\* has taken, then those that wait.
Label(k) == IF k <= Len(data) THEN data[k].label ELSE global_var_name_queue[k - Len(data)]
Queued ==
  /\ Len(data) + Len(global_var_name_queue) = Cardinality(Globals)
  /\ phase = "dump" => data = <<>>
  /\ \A i \in Globals :
       /\ koopa[i].name = Append(Label(Rank(i)), Last(koopa[i].name))
       /\ Label(Rank(i)) \in DOMAIN tables[1].map
       /\ tables[1].map[Label(Rank(i))].tag = 0
       /\ koopa[i].init = "aggregate" \/ koopa[i].words = 1
  /\ \A k \in 1 .. Len(data) : data[k].bytes = 4 * Value(k).words

Names == Counts /\ Numbered /\ FunctionLines /\ OpenSymbols /\ UsedBefore /\ Queued
-----------------------------------------------------------------------------
(* How the tables and the text grow *)

\* What is in a table stays there.
Kept ==
  /\ Len(tables) <= Len(tables')
  /\ \A t \in 1 .. Len(tables) : \A y \in DOMAIN tables[t].map :
       y \in DOMAIN tables'[t].map /\ tables'[t].map[y] = tables[t].map[y]

\* What is new in the tables is symbol, for the name x, in table t0.
Only(x, symbol, t0) ==
  \A t \in 1 .. Len(tables') : \A y \in DOMAIN tables'[t].map :
    \/ t \in 1 .. Len(tables) /\ y \in DOMAIN tables[t].map /\ tables'[t].map[y] = tables[t].map[y]
    \/ t = t0 /\ y = x /\ tables'[t].map[y] = symbol

LEMMA TablesType ==
  ASSUME Types
  PROVE  /\ Len(tables) \in Nat /\ Len(tables) > 0 /\ cur_symbol_table \in 1 .. Len(tables)
         /\ \A t \in 1 .. Len(tables) :
              /\ tables[t].map \in Maps
              /\ \A x \in DOMAIN tables[t].map : x \in Idents /\ tables[t].map[x] \in Symbols
<1>1. Len(tables) \in Nat /\ Len(tables) > 0 /\ cur_symbol_table \in 1 .. Len(tables)
  BY DEF Types
<1>2. \A t \in 1 .. Len(tables) : tables[t].map \in Maps
  <2>1. \A t \in 1 .. Len(tables) : tables[t] \in Tables
    BY DEF Types
  <2> QED BY <2>1 DEF Tables
<1> QED BY <1>1, <1>2, MapType

LEMMA InsertsOnly ==
  ASSUME Types, NEW x, NEW symbol, Inserts(x, symbol)
  PROVE  /\ Kept /\ Only(x, symbol, cur_symbol_table) /\ Len(tables') = Len(tables)
         /\ x \in DOMAIN tables'[cur_symbol_table].map
         /\ tables'[cur_symbol_table].map[x] = symbol
         /\ x \notin DOMAIN tables[cur_symbol_table].map
<1> DEFINE c == cur_symbol_table
<1>1. /\ Len(tables') = Len(tables)
      /\ \A u \in 1 .. Len(tables) : u # c => tables'[u] = tables[u]
      /\ tables'[c].map = Inserted(tables[c].map, x, symbol)
  BY InsertStep DEF Inserts
<1>2. x \in Idents /\ symbol \in Symbols /\ x \notin DOMAIN tables[c].map
  BY DEF Inserts
<1>3. /\ Len(tables) \in Nat /\ c \in 1 .. Len(tables) /\ tables[c].map \in Maps
  BY TablesType
<1>4. /\ DOMAIN tables'[c].map = DOMAIN tables[c].map \cup {x}
      /\ \A y \in DOMAIN tables[c].map : tables'[c].map[y] = tables[c].map[y]
      /\ tables'[c].map[x] = symbol
  <2>1. PICK m \in Maps : m = tables[c].map
    BY <1>3
  <2>2. /\ DOMAIN Inserted(m, x, symbol) = DOMAIN m \cup {x}
        /\ \A y \in DOMAIN m : Inserted(m, x, symbol)[y] = m[y]
        /\ Inserted(m, x, symbol)[x] = symbol
    BY <1>2, <2>1, InsertedType
  <2> HIDE DEF c
  <2> QED BY <1>1, <2>1, <2>2, Zenon
<1> HIDE DEF c
<1>5. Kept
  BY <1>1, <1>3, <1>4 DEF Kept
<1>6. Only(x, symbol, c)
  BY <1>1, <1>3, <1>4 DEF Only
<1> QED BY <1>1, <1>2, <1>4, <1>5, <1>6 DEF c

LEMMA FunctionOnly ==
  ASSUME Types, Types', Scopes, NEW x \in Idents, DumpFuncDef(x)
  PROVE  /\ Kept /\ Only(x, Function(declared + 1), 1) /\ Len(tables') = Len(tables) + 1
         /\ x \notin DOMAIN tables[1].map /\ x \in DOMAIN tables'[1].map
         /\ tables'[1].map[x] = Function(declared + 1)
         /\ DOMAIN tables'[Len(tables) + 1].map = {}
         /\ Blocks = <<Root>> /\ Blocks' = <<Len(tables) + 1, Root>>
<1> DEFINE symbol == Function(declared + 1)
<1>1. /\ x \notin DOMAIN tables[1].map /\ Blocks = <<Root>> /\ Blocks' = <<Len(tables) + 1, Root>>
      /\ Len(tables') = Len(tables) + 1
      /\ \A u \in 2 .. Len(tables) : tables'[u] = tables[u]
      /\ tables'[1].map = Inserted(tables[1].map, x, symbol)
      /\ DOMAIN tables'[Len(tables) + 1].map = {}
  BY FunctionOpens
<1>2. symbol \in Symbols
  BY SymbolType DEF Types
<1> HIDE DEF symbol
<1>3. Len(tables) \in Nat /\ Len(tables) > 0 /\ tables[1].map \in Maps
  BY TablesType
<1>4. /\ DOMAIN tables'[1].map = DOMAIN tables[1].map \cup {x}
      /\ \A y \in DOMAIN tables[1].map : tables'[1].map[y] = tables[1].map[y]
      /\ tables'[1].map[x] = symbol
  <2>1. PICK m \in Maps : m = tables[1].map
    BY <1>3
  <2>2. /\ DOMAIN Inserted(m, x, symbol) = DOMAIN m \cup {x}
        /\ \A y \in DOMAIN m : Inserted(m, x, symbol)[y] = m[y]
        /\ Inserted(m, x, symbol)[x] = symbol
    <3>1. x \notin DOMAIN m
      BY <1>1, <2>1
    <3> QED BY <1>2, <3>1, InsertedType
  <2> QED BY <1>1, <2>1, <2>2, Zenon
<1>5. Kept
  BY <1>1, <1>3, <1>4 DEF Kept
<1>6. Only(x, symbol, 1)
  BY <1>1, <1>3, <1>4 DEF Only
<1> QED BY <1>1, <1>4, <1>5, <1>6 DEF symbol

\* One more line.
Grows(line) == line \in Lines /\ koopa' = Append(koopa, line)

LEMMA TextGrows ==
  ASSUME Types, NEW line, Grows(line)
  PROVE  /\ Len(koopa) \in Nat /\ Len(koopa') = Len(koopa) + 1
         /\ \A i \in 1 .. Len(koopa) : koopa'[i] = koopa[i] /\ koopa[i] \in Lines
         /\ koopa'[Len(koopa) + 1] = line
         /\ ThisFunction \in Nat
         /\ ThisFunction' = ThisFunction + (IF line.op = "fun" THEN 1 ELSE 0)
<1> DEFINE L == Len(koopa)
           F == {i \in DOMAIN koopa : koopa[i].op = "fun"}
<1>1. koopa \in Seq(Lines) /\ line \in Lines
  BY DEF Types, Grows
<1>2. /\ L \in Nat /\ Len(koopa') = L + 1 /\ DOMAIN koopa = 1 .. L /\ DOMAIN koopa' = 1 .. L + 1
      /\ \A i \in 1 .. L : koopa'[i] = koopa[i] /\ koopa[i] \in Lines
      /\ koopa'[L + 1] = line
  BY <1>1, AppendProperties DEF Grows
<1>3. IsFiniteSet(F) /\ Cardinality(F) \in Nat /\ ThisFunction = Cardinality(F)
  BY <1>1, ThisFunctionType DEF ThisFunction
<1>4. ThisFunction' = Cardinality({i \in DOMAIN koopa' : koopa'[i].op = "fun"})
  BY DEF ThisFunction
<1>5. ASSUME line.op = "fun" PROVE ThisFunction' = ThisFunction + 1
  <2>1. {i \in DOMAIN koopa' : koopa'[i].op = "fun"} = F \cup {L + 1} /\ L + 1 \notin F
    BY <1>2, <1>5
  <2> HIDE DEF F, L
  <2> QED BY <1>3, <1>4, <2>1, FS_AddElement
<1>6. ASSUME line.op # "fun" PROVE ThisFunction' = ThisFunction
  <2>1. {i \in DOMAIN koopa' : koopa'[i].op = "fun"} = F
    BY <1>2, <1>6
  <2> HIDE DEF F
  <2> QED BY <1>3, <1>4, <1>6, <2>1
<1>7. ThisFunction \in Nat /\ ThisFunction' = ThisFunction + (IF line.op = "fun" THEN 1 ELSE 0)
  <2> HIDE DEF F
  <2> QED BY <1>3, <1>5, <1>6
<1> QED BY <1>2, <1>7

\* A symbol keeps its line while the text grows, until the next function.
LEMMA LineStays ==
  ASSUME NEW lines \in Seq(Lines), NEW line \in Lines, NEW f, NEW g, NEW x, NEW symbol,
         NEW outside \in BOOLEAN, HasLine(lines, f, x, symbol, outside), f = g \/ outside
  PROVE  HasLine(Append(lines, line), g, x, symbol, outside)
<1>1. /\ Len(Append(lines, line)) = Len(lines) + 1 /\ Len(lines) \in Nat
      /\ \A i \in 1 .. Len(lines) : Append(lines, line)[i] = lines[i]
  BY AppendProperties
<1> QED BY <1>1 DEF HasLine
-----------------------------------------------------------------------------
(* Each part of the invariant, for the kinds of steps *)

CountersAreNumbers ==
  unused_koopa_var_count \in Nat /\ unused_koopa_var_count > 0 /\ declared \in Nat

LEMMA Counters == Types => CountersAreNumbers
<1>1. MaxVars \in Nat
  BY SymbolTablesAssumption
<1>2. Types => unused_koopa_var_count \in 1 .. MaxVars + 1 /\ declared \in Nat
  BY DEF Types
<1>3. \A n \in 1 .. MaxVars + 1 : n \in Nat /\ n > 0
  BY <1>1
<1> QED BY <1>2, <1>3 DEF CountersAreNumbers

LEMMA CountersThen == Types' => CountersAreNumbers'
  BY Counters, PTL

LEMMA CountsKept ==
  ASSUME Types, Types', Counts,
         unused_koopa_var_count <= unused_koopa_var_count', declared <= declared',
         \A t \in 1 .. Len(tables') : \A y \in DOMAIN tables'[t].map :
           \/ /\ t \in 1 .. Len(tables) /\ y \in DOMAIN tables[t].map
              /\ tables'[t].map[y] = tables[t].map[y]
           \/ /\ tables'[t].map[y].koopa_var_count \in -1 .. unused_koopa_var_count' - 1
              /\ tables'[t].map[y].decl \in 1 .. declared',
         koopa' = koopa \/ \E line : Grows(line) /\ line.in \in {0, ThisFunction}
  PROVE  Counts'
<1>1. /\ unused_koopa_var_count \in Nat /\ unused_koopa_var_count' \in Nat
      /\ declared \in Nat /\ declared' \in Nat
  BY Counters, CountersThen DEF CountersAreNumbers
<1>2. ASSUME NEW t \in 1 .. Len(tables'), NEW y \in DOMAIN tables'[t].map
      PROVE  /\ tables'[t].map[y].koopa_var_count \in -1 .. unused_koopa_var_count' - 1
             /\ tables'[t].map[y].decl \in 1 .. declared'
  <2>1. CASE /\ t \in 1 .. Len(tables) /\ y \in DOMAIN tables[t].map
             /\ tables'[t].map[y] = tables[t].map[y]
    <3>1. /\ tables[t].map[y].koopa_var_count \in -1 .. unused_koopa_var_count - 1
          /\ tables[t].map[y].decl \in 1 .. declared
      BY ONLY Counts, <2>1 DEF Counts
    <3>2. /\ tables'[t].map[y].koopa_var_count = tables[t].map[y].koopa_var_count
          /\ tables'[t].map[y].decl = tables[t].map[y].decl
      BY ONLY <2>1
    <3>u. unused_koopa_var_count <= unused_koopa_var_count' /\ declared <= declared'
      OBVIOUS
    <3>3. \A a, c \in Nat : a <= c => /\ \A n \in -1 .. a - 1 : n \in -1 .. c - 1
                                     /\ \A n \in 1 .. a : n \in 1 .. c
      OBVIOUS
    <3>4. /\ \A n \in -1 .. unused_koopa_var_count - 1 : n \in -1 .. unused_koopa_var_count' - 1
          /\ \A n \in 1 .. declared : n \in 1 .. declared'
      BY ONLY <1>1, <3>u, <3>3, Zenon
    <3> QED BY ONLY <3>1, <3>2, <3>3, <3>4
  <2>2. CASE /\ tables'[t].map[y].koopa_var_count \in -1 .. unused_koopa_var_count' - 1
             /\ tables'[t].map[y].decl \in 1 .. declared'
    BY <2>2
  <2> QED BY <1>2, <2>1, <2>2
<1>3. CASE koopa' = koopa
  <2>1. \A i \in 1 .. Len(koopa') : koopa'[i].in \in 0 .. ThisFunction'
    BY <1>3 DEF Counts, ThisFunction
  <2> QED BY <1>2, <2>1 DEF Counts
<1>4. ASSUME NEW line, Grows(line), line.in \in {0, ThisFunction} PROVE Counts'
  <2>1. ASSUME NEW i \in 1 .. Len(koopa') PROVE koopa'[i].in \in 0 .. ThisFunction'
    <3>1. /\ Len(koopa) \in Nat /\ Len(koopa') = Len(koopa) + 1
          /\ \A j \in 1 .. Len(koopa) : koopa'[j] = koopa[j]
          /\ koopa'[Len(koopa) + 1] = line
          /\ ThisFunction \in Nat /\ ThisFunction' \in {ThisFunction, ThisFunction + 1}
      BY <1>4, TextGrows
    <3>2. CASE i = Len(koopa) + 1
      BY <1>4, <3>1, <3>2
    <3>3. CASE i # Len(koopa) + 1
      <4>1. i \in 1 .. Len(koopa)
        BY <3>1, <3>3
      <4>2. koopa[i].in \in 0 .. ThisFunction
        BY <4>1 DEF Counts
      <4> QED BY <3>1, <4>1, <4>2
    <3> QED BY <3>2, <3>3
  <2> QED BY <1>2, <2>1 DEF Counts
<1> QED BY <1>3, <1>4

LEMMA NumberedKept ==
  ASSUME Types, Types', Numbered, unused_koopa_var_count <= unused_koopa_var_count',
         \/ koopa' = koopa
         \/ \E line : /\ Grows(line)
                      /\ line.op \in {"global", "alloc"} =>
                           /\ line.name # <<>> /\ Last(line.name) = unused_koopa_var_count
                           /\ unused_koopa_var_count' = unused_koopa_var_count + 1
  PROVE  Numbered'
<1> DEFINE n == unused_koopa_var_count
           L == Len(koopa)
<1>1. n \in Nat /\ n > 0 /\ n' \in Nat /\ L \in Nat
  <2>1. L \in Nat
    BY DEF Types
  <2> QED BY <2>1, Counters, CountersThen DEF CountersAreNumbers
<1>2. CASE koopa' = koopa
  <2>1. ASSUME NEW i \in 1 .. L, koopa[i].op \in {"global", "alloc"}
        PROVE  koopa[i].name # <<>> /\ Last(koopa[i].name) \in 1 .. n' - 1
    BY <1>1, <2>1 DEF Numbered, IsVariable
  <2> QED BY <1>2, <2>1 DEF Numbered, IsVariable
<1>3. ASSUME NEW line, Grows(line),
             line.op \in {"global", "alloc"} =>
               line.name # <<>> /\ Last(line.name) = n /\ n' = n + 1
      PROVE  Numbered'
  <2>1. /\ Len(koopa') = L + 1
        /\ \A j \in 1 .. L : koopa'[j] = koopa[j]
        /\ koopa'[L + 1] = line
    BY <1>3, TextGrows
  <2>2. ASSUME NEW i \in 1 .. L, koopa[i].op \in {"global", "alloc"}
        PROVE  koopa[i].name # <<>> /\ Last(koopa[i].name) \in 1 .. n - 1
    BY <2>2 DEF Numbered, IsVariable
  <2>3. ASSUME NEW i \in 1 .. L + 1, koopa'[i].op \in {"global", "alloc"}
        PROVE  koopa'[i].name # <<>> /\ Last(koopa'[i].name) \in 1 .. n' - 1
    <3>1. CASE i = L + 1
      BY <1>1, <1>3, <2>1, <2>3, <3>1
    <3>2. CASE i # L + 1
      <4>1. i \in 1 .. L /\ koopa'[i] = koopa[i]
        BY <1>1, <2>1, <3>2
      <4> QED BY <1>1, <2>2, <2>3, <4>1
    <3> QED BY <3>1, <3>2
  <2>4. ASSUME NEW i \in 1 .. L + 1, NEW j \in 1 .. L + 1, i < j,
               koopa'[i].op \in {"global", "alloc"}, koopa'[j].op \in {"global", "alloc"}
        PROVE  Last(koopa'[i].name) < Last(koopa'[j].name)
    <3>1. i \in 1 .. L /\ koopa'[i] = koopa[i]
      BY <1>1, <2>1, <2>4
    <3>2. Last(koopa[i].name) \in 1 .. n - 1
      BY <2>2, <2>4, <3>1
    <3>3. CASE j = L + 1
      BY <1>1, <1>3, <2>1, <2>4, <3>1, <3>2, <3>3
    <3>4. CASE j # L + 1
      <4>1. j \in 1 .. L /\ koopa'[j] = koopa[j]
        BY <1>1, <2>1, <3>4
      <4> QED BY <2>4, <3>1, <4>1 DEF Numbered, IsVariable
    <3> QED BY <3>3, <3>4
  <2> QED BY <2>1, <2>3, <2>4 DEF Numbered, IsVariable
<1> QED BY <1>2, <1>3

LEMMA FunctionsKept ==
  ASSUME Types, Types', FunctionLines, Kept,
         \/ koopa' = koopa
         \/ \E line : /\ Grows(line)
                      /\ line.op \in {"decl", "fun"} =>
                           /\ line.name \notin DOMAIN tables[1].map
                           /\ line.name \in DOMAIN tables'[1].map
                           /\ tables'[1].map[line.name].tag = 1
  PROVE  FunctionLines'
<1> DEFINE L == Len(koopa)
<1>1. 1 \in 1 .. Len(tables) /\ L \in Nat
  BY DEF Types
<1>2. ASSUME NEW i \in 1 .. L, koopa[i].op \in {"decl", "fun"}
      PROVE  /\ koopa[i].name \in DOMAIN tables[1].map
             /\ koopa[i].name \in DOMAIN tables'[1].map
             /\ tables'[1].map[koopa[i].name].tag = 1
  <2>1. koopa[i].name \in DOMAIN tables[1].map /\ tables[1].map[koopa[i].name].tag = 1
    BY <1>2 DEF FunctionLines, IsFunction
  <2> QED BY <1>1, <2>1 DEF Kept
<1>3. CASE koopa' = koopa
  BY <1>2, <1>3 DEF FunctionLines, IsFunction
<1>4. ASSUME NEW line, Grows(line),
             line.op \in {"decl", "fun"} =>
               /\ line.name \notin DOMAIN tables[1].map
               /\ line.name \in DOMAIN tables'[1].map
               /\ tables'[1].map[line.name].tag = 1
      PROVE  FunctionLines'
  <2>1. /\ Len(koopa') = L + 1
        /\ \A j \in 1 .. L : koopa'[j] = koopa[j]
        /\ koopa'[L + 1] = line
    BY <1>4, TextGrows
  <2>2. \A i \in 1 .. L + 1 : i \in 1 .. L \/ i = L + 1
    BY <1>1
  <2>3. ASSUME NEW i \in 1 .. L + 1, koopa'[i].op \in {"decl", "fun"}
        PROVE  /\ koopa'[i].name \in DOMAIN tables'[1].map
               /\ tables'[1].map[koopa'[i].name].tag = 1
    BY <1>2, <1>4, <2>1, <2>2, <2>3
  <2>4. ASSUME NEW i \in 1 .. L + 1, NEW j \in 1 .. L + 1, i # j,
               koopa'[i].op \in {"decl", "fun"}, koopa'[j].op \in {"decl", "fun"}
        PROVE  koopa'[i].name # koopa'[j].name
    <3>1. CASE i \in 1 .. L /\ j \in 1 .. L
      BY <2>1, <2>4, <3>1 DEF FunctionLines, IsFunction
    <3>2. CASE i = L + 1
      BY <1>2, <1>4, <2>1, <2>2, <2>4, <3>2
    <3>3. CASE j = L + 1
      BY <1>2, <1>4, <2>1, <2>2, <2>4, <3>3
    <3> QED BY <2>2, <3>1, <3>2, <3>3
  <2> QED BY <2>1, <2>3, <2>4 DEF FunctionLines, IsFunction
<1> QED BY <1>3, <1>4

LEMMA UsedKept ==
  ASSUME Types, Types', UsedBefore, unused_koopa_var_count <= unused_koopa_var_count',
         used' = used \/ used' = NoUse
  PROVE  UsedBefore'
<1>1. unused_koopa_var_count \in Nat /\ unused_koopa_var_count' \in Nat
  BY Counters, CountersThen DEF CountersAreNumbers
<1> QED BY <1>1 DEF UsedBefore, NoUse, Use
-----------------------------------------------------------------------------
(* The queue and the globals *)

LEMMA RankType ==
  ASSUME Types
  PROVE  \A i \in Globals : Rank(i) \in 1 .. Cardinality(Globals)
<1> SUFFICES ASSUME NEW i \in Globals PROVE Rank(i) \in 1 .. Cardinality(Globals)
  OBVIOUS
<1> DEFINE upTo == {j \in Globals : j <= i}
<1>1. Globals \in SUBSET (1 .. Len(koopa)) /\ IsFiniteSet(Globals) /\ Cardinality(Globals) \in Nat
  BY GlobalsType
<1>2. upTo \in SUBSET Globals /\ i \in upTo
  BY <1>1
<1>3. Rank(i) = Cardinality(upTo)
  BY DEF Rank
<1> HIDE DEF upTo
<1>4. IsFiniteSet(upTo) /\ Cardinality(upTo) <= Cardinality(Globals)
  BY <1>1, <1>2, FS_Subset
<1>5. Cardinality(upTo) \in Nat /\ Cardinality(upTo) # 0
  BY <1>2, <1>4, FS_CardinalityType, FS_EmptySet
<1> QED BY <1>1, <1>3, <1>4, <1>5

LEMMA GlobalsGrow ==
  ASSUME Types, NEW line, Grows(line)
  PROVE  /\ line.op # "global" => Globals' = Globals
         /\ line.op = "global" =>
              /\ Globals' = Globals \cup {Len(koopa) + 1}
              /\ Cardinality(Globals') = Cardinality(Globals) + 1
              /\ \A i : i = Len(koopa) + 1 => Rank(i)' = Cardinality(Globals) + 1
         /\ \A i \in Globals : Rank(i)' = Rank(i)
<1> DEFINE L == Len(koopa)
<1>1. /\ L \in Nat /\ Len(koopa') = L + 1 /\ DOMAIN koopa = 1 .. L /\ DOMAIN koopa' = 1 .. L + 1
      /\ \A i \in 1 .. L : koopa'[i] = koopa[i]
      /\ koopa'[L + 1] = line
  <2>1. koopa \in Seq(Lines) /\ line \in Lines
    BY DEF Types, Grows
  <2> QED BY <2>1, AppendProperties DEF Grows
<1>2. /\ Globals \in SUBSET (1 .. L) /\ IsFiniteSet(Globals) /\ Cardinality(Globals) \in Nat
      /\ Globals' = {i \in 1 .. L + 1 : koopa'[i].op = "global"}
      /\ Globals = {i \in 1 .. L : koopa[i].op = "global"}
  BY <1>1, GlobalsType DEF Globals
<1>3. ASSUME line.op # "global" PROVE Globals' = Globals
  <2>1. \A i \in 1 .. L + 1 : i \in 1 .. L \/ i = L + 1
    BY <1>1
  <2>2. \A i \in 1 .. L : i \in 1 .. L + 1
    BY <1>1
  <2> HIDE DEF L
  <2> QED BY <1>1, <1>2, <1>3, <2>1, <2>2
<1>4. ASSUME line.op = "global"
      PROVE  /\ Globals' = Globals \cup {L + 1}
             /\ Cardinality(Globals') = Cardinality(Globals) + 1
  <2>1. \A i \in 1 .. L + 1 : i \in 1 .. L \/ i = L + 1
    BY <1>1
  <2>2. L + 1 \in 1 .. L + 1 /\ L + 1 \notin 1 .. L /\ \A i \in 1 .. L : i \in 1 .. L + 1
    BY <1>1
  <2> HIDE DEF L
  <2>3. Globals' = Globals \cup {L + 1} /\ L + 1 \notin Globals
    BY <1>1, <1>2, <1>4, <2>1, <2>2
  <2> QED BY <1>2, <2>3, FS_AddElement
<1>5. ASSUME NEW i \in Globals PROVE Rank(i)' = Rank(i)
  <2>1. Rank(i)' = Cardinality({j \in Globals' : j <= i}) /\ Rank(i) = Cardinality({j \in Globals : j <= i})
    BY DEF Rank
  <2>2. i \in 1 .. L /\ ~ (L + 1 <= i)
    BY <1>1, <1>2
  <2>3. {j \in Globals' : j <= i} = {j \in Globals : j <= i}
    BY <1>3, <1>4, <2>2, Zenon
  <2> QED BY <2>1, <2>3
<1>6. ASSUME line.op = "global", NEW i, i = L + 1 PROVE Rank(i)' = Cardinality(Globals) + 1
  <2>1. \A j \in Globals' : j <= i
    BY <1>1, <1>2, <1>6
  <2>2. {j \in Globals' : j <= i} = Globals'
    BY <2>1, Zenon
  <2>3. Rank(i)' = Cardinality({j \in Globals' : j <= i})
    BY DEF Rank
  <2> QED BY <1>4, <1>6, <2>2, <2>3
<1> QED BY <1>3, <1>4, <1>5, <1>6

\* No new global, and Visit has not begun or takes none.
LEMMA QueuedKept ==
  ASSUME Types, Types', Queued, Kept, UNCHANGED <<data, global_var_name_queue>>,
         phase' = "dump" => phase = "dump",
         \/ koopa' = koopa
         \/ phase = "dump" /\ \E line : Grows(line) /\ line.op # "global"
  PROVE  Queued'
<1> DEFINE L == Len(koopa)
<1>1. /\ Globals' = Globals /\ \A i \in Globals : Rank(i)' = Rank(i) /\ koopa'[i] = koopa[i]
  <2>1. CASE koopa' = koopa
    BY <2>1 DEF Globals, Rank
  <2>2. ASSUME NEW line, Grows(line), line.op # "global"
        PROVE  Globals' = Globals /\ \A i \in Globals : Rank(i)' = Rank(i) /\ koopa'[i] = koopa[i]
    BY <2>2, GlobalsGrow, TextGrows, GlobalsType
  <2> QED BY <2>1, <2>2
<1>2. \A k : Label(k)' = Label(k)
  BY DEF Label
<1>3. 1 \in 1 .. Len(tables)
  BY TablesType
<1>4. ASSUME NEW i \in Globals
      PROVE  /\ koopa'[i].name = Append(Label(Rank(i))', Last(koopa'[i].name))
             /\ Label(Rank(i))' \in DOMAIN tables'[1].map
             /\ tables'[1].map[Label(Rank(i))'].tag = 0
             /\ koopa'[i].init = "aggregate" \/ koopa'[i].words = 1
  <2>1. Label(Rank(i))' = Label(Rank(i))
    BY <1>1 DEF Label
  <2>2. /\ koopa[i].name = Append(Label(Rank(i)), Last(koopa[i].name))
        /\ Label(Rank(i)) \in DOMAIN tables[1].map
        /\ tables[1].map[Label(Rank(i))].tag = 0
        /\ koopa[i].init = "aggregate" \/ koopa[i].words = 1
    BY DEF Queued
  <2> QED BY <1>1, <1>3, <2>1, <2>2 DEF Kept
<1>5. ASSUME NEW k \in 1 .. Len(data') PROVE data'[k].bytes = 4 * Value(k)'.words
  <2>1. CASE koopa' = koopa
    <3>1. Value(k)' = Value(k)
      BY <2>1 DEF Value, Globals, Rank
    <3> QED BY <3>1 DEF Queued
  <2>2. CASE phase = "dump"
    BY <2>2 DEF Queued
  <2> QED BY <2>1, <2>2
<1>6. Len(data') + Len(global_var_name_queue') = Cardinality(Globals') /\ (phase' = "dump" => data' = <<>>)
  BY <1>1 DEF Queued
<1> QED BY <1>1, <1>4, <1>5, <1>6 DEF Queued

\* A new global, whose name goes to the end of the queue.
LEMMA QueuedGrows ==
  ASSUME Types, Types', Queued, Kept, phase = "dump", UNCHANGED <<data, phase>>,
         NEW x \in Idents, NEW line, Grows(line), line.op = "global",
         line.name = Append(x, Last(line.name)), line.init = "aggregate" \/ line.words = 1,
         x \in DOMAIN tables'[1].map, tables'[1].map[x].tag = 0,
         global_var_name_queue' = Append(global_var_name_queue, x)
  PROVE  Queued'
<1> DEFINE L == Len(koopa)
           q == global_var_name_queue
<1>1. data = <<>> /\ data' = <<>> /\ q \in Seq(Idents) /\ Len(data) = 0
  <2>1. data = <<>>
    BY DEF Queued
  <2> QED BY <2>1 DEF Types
<1>2. /\ L \in Nat /\ Len(q) \in Nat /\ Cardinality(Globals) = Len(q)
      /\ Globals \in SUBSET (1 .. L)
  BY <1>1, GlobalsType DEF Queued
<1>3. /\ Len(q') = Len(q) + 1 /\ q'[Len(q) + 1] = x
      /\ \A k \in 1 .. Len(q) : q'[k] = q[k]
  BY <1>1, AppendProperties
<1>4. /\ Globals' = Globals \cup {L + 1}
      /\ Cardinality(Globals') = Len(q) + 1
      /\ \A i \in Globals : Rank(i)' = Rank(i)
      /\ \A i : i = L + 1 => Rank(i)' = Len(q) + 1
  BY <1>2, GlobalsGrow
<1>5. /\ \A i \in 1 .. L : koopa'[i] = koopa[i]
      /\ koopa'[L + 1] = line
  BY TextGrows
<1>6. /\ \A k \in 1 .. Len(q) : Label(k) = q[k]
      /\ \A k \in 1 .. Len(q) + 1 : Label(k)' = q'[k]
  BY <1>1, <1>2, <1>3 DEF Label
<1>7. 1 \in 1 .. Len(tables)
  BY TablesType
<1>8. ASSUME NEW i \in Globals'
      PROVE  /\ koopa'[i].name = Append(Label(Rank(i))', Last(koopa'[i].name))
             /\ Label(Rank(i))' \in DOMAIN tables'[1].map
             /\ tables'[1].map[Label(Rank(i))'].tag = 0
             /\ koopa'[i].init = "aggregate" \/ koopa'[i].words = 1
  <2>1. CASE i \in Globals
    <3>1. Rank(i)' = Rank(i) /\ Rank(i) \in 1 .. Len(q)
      BY <1>2, <1>4, <2>1, RankType
    <3>2. Label(Rank(i)) = q[Rank(i)] /\ Label(Rank(i))' = q'[Rank(i)']
      <4>1. Label(Rank(i)) = q[Rank(i)]
        BY <1>6, <3>1
      <4>2. Rank(i)' \in 1 .. Len(q) + 1
        BY <1>2, <3>1
      <4>3. Label(Rank(i))' = q'[Rank(i)']
        BY <1>1, <4>2 DEF Label
      <4> QED BY <4>1, <4>3
    <3>3. Label(Rank(i))' = Label(Rank(i))
      BY <1>3, <3>1, <3>2
    <3>4. /\ koopa[i].name = Append(Label(Rank(i)), Last(koopa[i].name))
          /\ Label(Rank(i)) \in DOMAIN tables[1].map
          /\ tables[1].map[Label(Rank(i))].tag = 0
          /\ koopa[i].init = "aggregate" \/ koopa[i].words = 1
      BY <2>1 DEF Queued
    <3>5. koopa'[i] = koopa[i]
      BY <1>2, <1>5, <2>1
    <3> QED BY <1>7, <3>3, <3>4, <3>5 DEF Kept
  <2>2. CASE i \notin Globals
    <3>1. i = L + 1 /\ koopa'[i] = line /\ Rank(i)' = Len(q) + 1
      BY <1>4, <1>5, <2>2
    <3>2. Label(Rank(i))' = x
      <4>1. ~ (Rank(i)' <= Len(data')) /\ Rank(i)' - Len(data') = Len(q) + 1
        BY <1>1, <1>2, <3>1
      <4> QED BY <1>3, <4>1 DEF Label
    <3> QED BY <3>1, <3>2
  <2> QED BY <2>1, <2>2
<1>9. Len(data') + Len(q') = Cardinality(Globals') /\ (phase' = "dump" => data' = <<>>)
  BY <1>1, <1>2, <1>3, <1>4
<1>10. \A k \in 1 .. Len(data') : data'[k].bytes = 4 * Value(k)'.words
  BY <1>1
<1> QED BY <1>8, <1>9, <1>10 DEF Queued

\* Visit takes the name in front for the next global.
LEMMA QueuedVisit ==
  ASSUME Types, Types', Queued, VisitGlobalAlloc
  PROVE  Queued'
<1> DEFINE q == global_var_name_queue
           n == Len(data)
           cell == [label |-> Head(q), bytes |-> Bytes(Value(n + 1))]
<1>1. /\ q \in Seq(Idents) /\ q # <<>> /\ n \in Nat /\ n < Cardinality(Globals)
      /\ data' = Append(data, cell) /\ q' = Tail(q) /\ phase' = "visit"
      /\ UNCHANGED <<koopa, tables>>
  BY DEF Types, VisitGlobalAlloc
<1>2. /\ Len(q) \in Nat /\ Len(q) > 0 /\ Len(q') = Len(q) - 1 /\ Head(q) = q[1]
      /\ \A k \in 1 .. Len(q) - 1 : q'[k] = q[k + 1]
  BY <1>1, HeadTailProperties
<1>3. Value(n + 1).init = "aggregate" \/ Value(n + 1).words = 1
  <2>1. n + 1 \in 1 .. Cardinality(Globals)
    BY <1>1, GlobalsType
  <2>2. PICK i \in Globals : Value(n + 1) = koopa[i]
    BY <2>1, GlobalsType
  <2> QED BY <2>2 DEF Queued
<1>4. Bytes(Value(n + 1)) = 4 * Value(n + 1).words
  BY <1>3 DEF Bytes
<1>5. Len(data') = n + 1 /\ (\A k \in 1 .. n : data'[k] = data[k]) /\ data'[n + 1] = cell
  <2>1. data \in Seq([label : Idents, bytes : Nat]) /\ data' \in Seq([label : Idents, bytes : Nat])
    BY DEF Types
  <2> HIDE DEF cell
  <2> QED BY <1>1, <2>1
<1>6. Globals' = Globals /\ \A i : Rank(i)' = Rank(i)
  BY <1>1 DEF Globals, Rank
<1>7. ASSUME NEW k \in 1 .. n + Len(q) PROVE Label(k)' = Label(k)
  <2> HIDE DEF q, n
  <2>1. CASE k <= n
    BY <1>1, <1>5, <2>1 DEF Label, n
  <2>2. CASE k = n + 1
    <3>1. Label(k)' = data'[n + 1].label
      BY <1>1, <1>5, <2>2 DEF Label
    <3>2. Label(k) = q[1]
      <4>1. ~ (k <= n) /\ k - n = 1
        BY <1>1, <2>2
      <4> QED BY <4>1 DEF Label, n, q
    <3> QED BY <1>2, <1>5, <3>1, <3>2
  <2>3. CASE k > n + 1
    <3>1. k - n \in 2 .. Len(q) /\ k - (n + 1) \in 1 .. Len(q) - 1 /\ k - (n + 1) + 1 = k - n
      BY <1>1, <1>2, <2>3
    <3>2. Label(k) = q[k - n]
      <4>1. ~ (k <= n)
        BY <1>1, <2>3
      <4> QED BY <4>1 DEF Label, n, q
    <3>3. Label(k)' = q'[k - (n + 1)]
      <4>1. ~ (k <= n + 1)
        BY <1>1, <2>3
      <4> QED BY <1>5, <4>1 DEF Label, q
    <3> QED BY <1>2, <3>1, <3>2, <3>3
  <2> QED BY <1>1, <2>1, <2>2, <2>3
<1>8. ASSUME NEW i \in Globals' PROVE Label(Rank(i))' = Label(Rank(i))
  <2>1. Rank(i) \in 1 .. n + Len(q)
    BY <1>6, RankType DEF Queued
  <2>2. PICK k \in 1 .. n + Len(q) : k = Rank(i)
    BY <2>1
  <2>3. Label(k)' = Label(k)
    BY <1>7
  <2>4. Rank(i)' = k /\ Rank(i) = k
    BY <1>6, <2>2
  <2> QED BY <2>3, <2>4 DEF Label
<1>9. ASSUME NEW i \in Globals'
      PROVE  /\ koopa'[i].name = Append(Label(Rank(i))', Last(koopa'[i].name))
             /\ Label(Rank(i))' \in DOMAIN tables'[1].map
             /\ tables'[1].map[Label(Rank(i))'].tag = 0
             /\ koopa'[i].init = "aggregate" \/ koopa'[i].words = 1
  <2>1. /\ koopa[i].name = Append(Label(Rank(i)), Last(koopa[i].name))
        /\ Label(Rank(i)) \in DOMAIN tables[1].map
        /\ tables[1].map[Label(Rank(i))].tag = 0
        /\ koopa[i].init = "aggregate" \/ koopa[i].words = 1
    BY <1>6 DEF Queued
  <2> QED BY <1>1, <1>8, <2>1
<1>10. ASSUME NEW k \in 1 .. n + 1 PROVE data'[k].bytes = 4 * Value(k)'.words
  <2>1. Value(k)' = Value(k)
    BY <1>1, <1>6 DEF Value
  <2>2. CASE k = n + 1
    BY <1>4, <1>5, <2>1, <2>2
  <2>3. CASE k # n + 1
    <3>1. k \in 1 .. n
      BY <1>1, <2>3
    <3> QED BY <1>5, <2>1, <3>1 DEF Queued
  <2> QED BY <2>2, <2>3
<1>11. Len(data') + Len(q') = Cardinality(Globals')
  <2>1. n + Len(q) = Cardinality(Globals)
    BY DEF Queued
  <2> QED BY <1>1, <1>2, <1>5, <1>6, <2>1
<1> QED BY <1>1, <1>5, <1>9, <1>10, <1>11 DEF Queued
-----------------------------------------------------------------------------
(* The symbols of the open blocks *)

LEMMA OpenIs ==
  ASSUME Types, OpenSymbols, NEW b \in 1 .. Len(Blocks), NEW x \in DOMAIN tables[Blocks[b]].map
  PROVE  \/ IsConstant(tables[Blocks[b]].map[x])
         \/ HasLine(koopa, ThisFunction, x, tables[Blocks[b]].map[x], Blocks[b] = 1)
  BY DEF OpenSymbols

\* The text after a step that begins no function.
Continues ==
  \/ koopa' = koopa
  \/ \E line : Grows(line) /\ line.op # "fun"

LEMMA LineContinues ==
  ASSUME Types, Continues, NEW x, NEW symbol, NEW outside \in BOOLEAN,
         HasLine(koopa, ThisFunction, x, symbol, outside)
  PROVE  HasLine(koopa', ThisFunction', x, symbol, outside)
<1>1. CASE koopa' = koopa
  BY <1>1 DEF ThisFunction
<1>2. ASSUME NEW line, Grows(line), line.op # "fun"
      PROVE  HasLine(koopa', ThisFunction', x, symbol, outside)
  <2>1. ThisFunction' = ThisFunction
    BY <1>2, TextGrows
  <2>2. koopa \in Seq(Lines) /\ line \in Lines /\ koopa' = Append(koopa, line)
    BY <1>2 DEF Types, Grows
  <2> QED BY <2>1, <2>2, LineStays
<1> QED BY <1>1, <1>2 DEF Continues

\* The new symbol of the current block has a line, or needs none.
LEMMA OpenInserts ==
  ASSUME Types, Types', Scopes, OpenSymbols, NEW x, NEW symbol, Inserts(x, symbol), Continues,
         \/ IsConstant(symbol)
         \/ HasLine(koopa', ThisFunction', x, symbol, cur_symbol_table = 1)
  PROVE  OpenSymbols'
<1>1. Blocks' = Blocks
  BY InsertsStay
<1>2. Only(x, symbol, cur_symbol_table) /\ Len(tables') = Len(tables)
  BY InsertsOnly
<1>3. \A b \in 1 .. Len(Blocks) : Blocks[b] \in 1 .. Len(tables)
  BY BlocksType
<1>4. ASSUME NEW b \in 1 .. Len(Blocks), NEW y \in DOMAIN tables'[Blocks[b]].map
      PROVE  \/ IsConstant(tables'[Blocks[b]].map[y])
             \/ HasLine(koopa', ThisFunction', y, tables'[Blocks[b]].map[y], Blocks[b] = 1)
  <2>1. CASE y \in DOMAIN tables[Blocks[b]].map /\ tables'[Blocks[b]].map[y] = tables[Blocks[b]].map[y]
    <3>1. PICK s : s = tables[Blocks[b]].map[y]
      OBVIOUS
    <3>2. IsConstant(s) \/ HasLine(koopa, ThisFunction, y, s, Blocks[b] = 1)
      BY <2>1, <3>1, OpenIs
    <3>3. IsConstant(s) \/ HasLine(koopa', ThisFunction', y, s, Blocks[b] = 1)
      BY <3>2, LineContinues
    <3> QED BY <2>1, <3>1, <3>3
  <2>2. CASE Blocks[b] = cur_symbol_table /\ y = x /\ tables'[Blocks[b]].map[y] = symbol
    BY <2>2
  <2> QED BY <1>2, <1>3, <2>1, <2>2 DEF Only
<1> QED BY <1>1, <1>4 DEF OpenSymbols

\* No table changes; blocks close, or none does.
LEMMA OpenStays ==
  ASSUME Types, Types', OpenSymbols, Continues, UNCHANGED tables,
         \A b \in 1 .. Len(Blocks') : \E c \in 1 .. Len(Blocks) : Blocks'[b] = Blocks[c]
  PROVE  OpenSymbols'
<1>1. ASSUME NEW b \in 1 .. Len(Blocks'), NEW y \in DOMAIN tables[Blocks'[b]].map
      PROVE  \/ IsConstant(tables[Blocks'[b]].map[y])
             \/ HasLine(koopa', ThisFunction', y, tables[Blocks'[b]].map[y], Blocks'[b] = 1)
  <2>1. PICK c \in 1 .. Len(Blocks) : Blocks'[b] = Blocks[c]
    OBVIOUS
  <2>2. PICK s : s = tables[Blocks[c]].map[y]
    OBVIOUS
  <2>3. IsConstant(s) \/ HasLine(koopa, ThisFunction, y, s, Blocks[c] = 1)
    BY <2>1, <2>2, OpenIs
  <2>4. IsConstant(s) \/ HasLine(koopa', ThisFunction', y, s, Blocks[c] = 1)
    BY <2>3, LineContinues
  <2> QED BY <2>1, <2>2, <2>4
<1> QED BY <1>1 DEF OpenSymbols

\* A block opens with an empty table.
LEMMA OpenBlocks ==
  ASSUME Types, Types', Scopes, OpenSymbols, UNCHANGED koopa, DumpBlock
  PROVE  OpenSymbols'
<1> DEFINE n == Len(tables)
<1>1. /\ Blocks' = <<n + 1>> \o Blocks
      /\ \A u \in 1 .. n : tables'[u] = tables[u]
      /\ DOMAIN tables'[n + 1].map = {}
  BY BlockOpens
<1>2. /\ Len(Blocks) \in Nat /\ Blocks \in Seq(Nat) /\ n \in Nat
      /\ \A b \in 1 .. Len(Blocks) : Blocks[b] \in 1 .. n
  BY BlocksType, TablesType
<1>3. /\ Len(Blocks') = Len(Blocks) + 1 /\ Blocks'[1] = n + 1
      /\ \A b \in 2 .. Len(Blocks) + 1 : Blocks'[b] = Blocks[b - 1]
  <2>1. <<n + 1>> \in Seq(Nat) /\ Len(<<n + 1>>) = 1 /\ <<n + 1>>[1] = n + 1
    BY <1>2
  <2>2. /\ Len(Blocks') = 1 + Len(Blocks)
        /\ \A b \in 1 .. 1 + Len(Blocks) :
             Blocks'[b] = IF b <= 1 THEN <<n + 1>>[b] ELSE Blocks[b - 1]
    BY <1>1, <1>2, <2>1, ConcatProperties
  <2> QED BY <1>2, <2>1, <2>2
<1>4. ASSUME NEW b \in 1 .. Len(Blocks'), NEW y \in DOMAIN tables'[Blocks'[b]].map
      PROVE  \/ IsConstant(tables'[Blocks'[b]].map[y])
             \/ HasLine(koopa', ThisFunction', y, tables'[Blocks'[b]].map[y], Blocks'[b] = 1)
  <2>1. b # 1
    BY <1>1, <1>3
  <2>2. PICK c \in 1 .. Len(Blocks) : Blocks'[b] = Blocks[c] /\ tables'[Blocks'[b]] = tables[Blocks[c]]
    <3>1. b - 1 \in 1 .. Len(Blocks) /\ Blocks'[b] = Blocks[b - 1]
      BY <1>2, <1>3, <2>1
    <3> QED BY <1>1, <1>2, <3>1
  <2>3. \/ IsConstant(tables[Blocks[c]].map[y])
        \/ HasLine(koopa, ThisFunction, y, tables[Blocks[c]].map[y], Blocks[c] = 1)
    BY <2>2, OpenIs
  <2>4. ThisFunction' = ThisFunction
    BY DEF ThisFunction
  <2> QED BY <2>2, <2>3, <2>4
<1> QED BY <1>4 DEF OpenSymbols

\* A function: only the root and the empty table of the function are open.
LEMMA OpenFunction ==
  ASSUME Types, Types', Scopes, OpenSymbols, NEW x \in Idents, DumpFuncDef(x)
  PROVE  OpenSymbols'
<1> DEFINE n == Len(tables)
           symbol == Function(declared + 1)
           line == [Line("fun", x, 0, "none") EXCEPT !.in = 0]
<1>1. /\ Only(x, symbol, 1) /\ Len(tables') = n + 1
      /\ DOMAIN tables'[n + 1].map = {}
      /\ Blocks = <<Root>> /\ Blocks' = <<n + 1, Root>>
  BY FunctionOnly
<1>2. line \in Lines /\ koopa' = Append(koopa, line) /\ koopa \in Seq(Lines)
  BY IdentType, LineType DEF DumpFuncDef, Types
<1>3. line.op = "fun" /\ line.name = x /\ line.decl = declared + 1
  BY DEF Line
<1>4. n \in Nat /\ n > 0
  BY TablesType
<1>5. /\ Len(Blocks') = 2 /\ Blocks'[1] = n + 1 /\ Blocks'[2] = 1
      /\ 1 \in 1 .. Len(Blocks) /\ Blocks[1] = 1
  BY <1>1 DEF Root
<1>6. HasLine(koopa', ThisFunction', x, symbol, TRUE)
  <2>1. Len(koopa') = Len(koopa) + 1 /\ Len(koopa) \in Nat /\ koopa'[Len(koopa) + 1] = line
    <3> HIDE DEF line
    <3> QED BY <1>2, AppendProperties
  <2>2. symbol.tag = 1 /\ symbol.decl = declared + 1
    BY DEF Function
  <2> HIDE DEF line, symbol
  <2> QED BY <1>3, <2>1, <2>2 DEF HasLine
<1> HIDE DEF line, symbol
<1>7. ASSUME NEW y \in DOMAIN tables'[1].map
      PROVE  \/ IsConstant(tables'[1].map[y])
             \/ HasLine(koopa', ThisFunction', y, tables'[1].map[y], TRUE)
  <2>1. CASE y \in DOMAIN tables[1].map /\ tables'[1].map[y] = tables[1].map[y]
    <3>1. PICK s : s = tables[1].map[y]
      OBVIOUS
    <3>2. IsConstant(s) \/ HasLine(koopa, ThisFunction, y, s, TRUE)
      BY <1>5, <2>1, <3>1, OpenIs
    <3>3. IsConstant(s) \/ HasLine(koopa', ThisFunction', y, s, TRUE)
      BY <1>2, <3>2, LineStays
    <3> QED BY <2>1, <3>1, <3>3
  <2>2. CASE y = x /\ tables'[1].map[y] = symbol
    BY <1>6, <2>2
  <2>3. 1 \in 1 .. Len(tables')
    BY <1>1, <1>4
  <2> QED BY <1>1, <2>1, <2>2, <2>3 DEF Only
<1>8. ASSUME NEW b \in 1 .. Len(Blocks'), NEW y \in DOMAIN tables'[Blocks'[b]].map
      PROVE  \/ IsConstant(tables'[Blocks'[b]].map[y])
             \/ HasLine(koopa', ThisFunction', y, tables'[Blocks'[b]].map[y], Blocks'[b] = 1)
  <2>1. b = 2
    BY <1>1, <1>5
  <2> QED BY <1>5, <1>7, <2>1
<1> QED BY <1>8 DEF OpenSymbols
-----------------------------------------------------------------------------
(* The steps *)

\* A declaration of a variable: its symbol and its line, with one number.
DeclaresVariable(x, line) ==
  /\ Inserts(x, Variate(FALSE, unused_koopa_var_count)) /\ Grows(line)
  /\ line.op = IF IsGlobal THEN "global" ELSE "alloc"
  /\ line.name = Append(x, unused_koopa_var_count)
  /\ line.in = ThisFunction /\ line.decl = declared + 1
  /\ IsGlobal => line.init = "aggregate" \/ line.words = 1
  /\ unused_koopa_var_count' = unused_koopa_var_count + 1 /\ declared' = declared + 1
  /\ used' = NoUse /\ phase = "dump" /\ UNCHANGED <<phase, data>>
  /\ global_var_name_queue' =
       IF IsGlobal THEN Append(global_var_name_queue, x) ELSE global_var_name_queue

AllocLine(x, op, words, init, line) ==
  /\ Inserts(x, Variate(FALSE, unused_koopa_var_count)) /\ Grows(line)
  /\ line.op = op /\ line.name = Append(x, unused_koopa_var_count)
  /\ line.in = ThisFunction /\ line.decl = declared + 1
  /\ line.init = init /\ line.words = words
  /\ unused_koopa_var_count' = unused_koopa_var_count + 1 /\ declared' = declared + 1
  /\ used' = NoUse

LEMMA AllocStep ==
  ASSUME Types, NEW x \in Idents, NEW words \in Nat, NEW op \in {"global", "alloc"},
         NEW init \in {"none", "param", "zeroinit", "integer", "aggregate"},
         MayDeclare(x), Alloc(op, x, words, init), UNCHANGED <<cur_symbol_table, saved>>
  PROVE  \E line : AllocLine(x, op, words, init, line)
<1> DEFINE line == Line(op, Append(x, unused_koopa_var_count), words, init)
<1>1. unused_koopa_var_count \in Int /\ declared \in Nat
  BY Counters DEF CountersAreNumbers
<1>2. line \in Lines
  BY <1>1, IdentType, LineType
<1>3. Inserts(x, Variate(FALSE, unused_koopa_var_count))
  BY <1>1, SymbolType, DeclaresNew DEF Alloc, MayDeclare, Inserts
<1>4. /\ line.op = op /\ line.name = Append(x, unused_koopa_var_count)
      /\ line.in = ThisFunction /\ line.decl = declared + 1
      /\ line.init = init /\ line.words = words
  BY DEF Line
<1>5. /\ koopa' = Append(koopa, line) /\ declared' = declared + 1 /\ used' = NoUse
      /\ unused_koopa_var_count' = unused_koopa_var_count + 1
  BY DEF Alloc, NextVarCount
<1> HIDE DEF line
<1> QED BY <1>2, <1>3, <1>4, <1>5 DEF Grows, AllocLine

LEMMA DumpVarStep ==
  ASSUME Types, NEW x \in Idents, NEW words \in Nat,
         NEW init \in {"zeroinit", "integer", "aggregate"}, DumpVar(x, words, init),
         init = "aggregate" \/ words = 1
  PROVE  \E line : DeclaresVariable(x, line)
<1>1. /\ MayDeclare(x) /\ phase = "dump"
      /\ UNCHANGED <<cur_symbol_table, saved, phase, data>>
      /\ global_var_name_queue' =
           IF IsGlobal THEN Append(global_var_name_queue, x) ELSE global_var_name_queue
      /\ IF IsGlobal THEN Alloc("global", x, words, init) ELSE Alloc("alloc", x, 0, "none")
  BY DEF DumpVar, MayDeclare, PushGlobal
<1>2. CASE IsGlobal
  <2>1. PICK line : AllocLine(x, "global", words, init, line)
    <3>1. /\ "global" \in {"global", "alloc"}
          /\ init \in {"none", "param", "zeroinit", "integer", "aggregate"}
      OBVIOUS
    <3> QED BY <1>1, <1>2, <3>1, AllocStep
  <2>2. DeclaresVariable(x, line)
    BY <1>1, <1>2, <2>1 DEF DeclaresVariable, AllocLine
  <2> QED BY <2>2
<1>3. CASE ~ IsGlobal
  <2>1. /\ "alloc" \in {"global", "alloc"} /\ 0 \in Nat
        /\ "none" \in {"none", "param", "zeroinit", "integer", "aggregate"}
    OBVIOUS
  <2>2. PICK line : AllocLine(x, "alloc", 0, "none", line)
    BY <1>1, <1>3, <2>1, AllocStep
  <2>3. DeclaresVariable(x, line)
    BY <1>1, <1>3, <2>2 DEF DeclaresVariable, AllocLine
  <2> QED BY <2>3
<1> QED BY <1>2, <1>3

LEMMA VariableStep ==
  ASSUME Types, Scopes, NEW x \in Idents,
         DumpVarDef(x) \/ DumpVarDefInit(x) \/ DumpArrayDef(x) \/ DumpFParam(x)
  PROVE  \E line : DeclaresVariable(x, line)
<1>1. CASE DumpVarDef(x) \/ DumpVarDefInit(x)
  BY <1>1, DumpVarStep DEF DumpVarDef, DumpVarDefInit
<1>2. CASE DumpArrayDef(x)
  BY <1>2, DumpVarStep, SymbolTablesAssumption DEF DumpArrayDef
<1>3. CASE DumpFParam(x)
  <2>1. ~ IsGlobal
    BY <1>3, GlobalScope DEF DumpFParam
  <2>2. /\ MayDeclare(x) /\ phase = "dump" /\ Alloc("alloc", x, 0, "param")
        /\ UNCHANGED <<cur_symbol_table, saved, phase, data, global_var_name_queue>>
    BY <1>3 DEF DumpFParam, MayDeclare, visitVars
  <2>3. PICK line : AllocLine(x, "alloc", 0, "param", line)
    <3>1. /\ "alloc" \in {"global", "alloc"} /\ 0 \in Nat
          /\ "param" \in {"none", "param", "zeroinit", "integer", "aggregate"}
      OBVIOUS
    <3> QED BY <2>2, <3>1, AllocStep
  <2>4. DeclaresVariable(x, line)
    BY <2>1, <2>2, <2>3 DEF DeclaresVariable, AllocLine
  <2> QED BY <2>4
<1> QED BY <1>1, <1>2, <1>3

LEMMA NamesVariable ==
  ASSUME Types, Types', Scopes, Names, NEW x \in Idents, NEW line, DeclaresVariable(x, line)
  PROVE  Names'
<1> DEFINE n == unused_koopa_var_count
           symbol == Variate(FALSE, n)
<1>1. /\ Inserts(x, symbol) /\ Grows(line) /\ used' = NoUse
      /\ line.op = (IF IsGlobal THEN "global" ELSE "alloc")
      /\ line.name = Append(x, n) /\ line.in = ThisFunction /\ line.decl = declared + 1
      /\ n' = n + 1 /\ declared' = declared + 1
      /\ phase = "dump" /\ UNCHANGED <<phase, data>>
  BY DEF DeclaresVariable
<1>2. n \in Nat /\ n > 0 /\ declared \in Nat
  BY Counters DEF CountersAreNumbers
<1>3. symbol.tag = 0 /\ symbol.koopa_var_count = n /\ symbol.decl = declared + 1
  BY DEF Variate
<1>4. line.name # <<>> /\ Last(line.name) = n
  <2>1. x \in Seq(Parts) /\ n \in Parts
    BY <1>2, IdentType DEF Parts
  <2>2. /\ Len(Append(x, n)) = Len(x) + 1 /\ Append(x, n) # <<>>
        /\ Append(x, n)[Len(x) + 1] = n
    BY <2>1, AppendProperties
  <2> QED BY <1>1, <2>2 DEF Last
<1> HIDE DEF symbol
<1>5. /\ Kept /\ Only(x, symbol, cur_symbol_table) /\ Len(tables') = Len(tables)
      /\ x \in DOMAIN tables'[cur_symbol_table].map
      /\ tables'[cur_symbol_table].map[x] = symbol
  BY <1>1, InsertsOnly
<1>6. n <= n' /\ declared <= declared'
  BY <1>1, <1>2
<1>7. Counts'
  <2>1. ASSUME NEW t \in 1 .. Len(tables'), NEW y \in DOMAIN tables'[t].map
        PROVE  \/ /\ t \in 1 .. Len(tables) /\ y \in DOMAIN tables[t].map
                  /\ tables'[t].map[y] = tables[t].map[y]
               \/ /\ tables'[t].map[y].koopa_var_count \in -1 .. n' - 1
                  /\ tables'[t].map[y].decl \in 1 .. declared'
    BY <1>1, <1>2, <1>3, <1>5 DEF Only
  <2> QED BY <1>1, <1>6, <2>1, CountsKept DEF Names
<1>8. Numbered'
  BY <1>1, <1>4, <1>6, NumberedKept DEF Names
<1>9. FunctionLines'
  BY <1>1, <1>5, FunctionsKept DEF Names
<1>10. OpenSymbols'
  <2>1. HasLine(koopa', ThisFunction', x, symbol, cur_symbol_table = 1)
    <3>1. /\ Len(koopa') = Len(koopa) + 1 /\ Len(koopa) \in Nat
          /\ koopa'[Len(koopa) + 1] = line /\ ThisFunction' = ThisFunction
      BY <1>1, TextGrows
    <3>2. Len(koopa) + 1 \in 1 .. Len(koopa')
      BY <3>1
    <3> QED BY <1>1, <1>3, <3>1, <3>2 DEF HasLine, IsGlobal, Root
  <2>2. Continues
    BY <1>1 DEF Continues
  <2> QED BY <1>1, <2>1, <2>2, OpenInserts DEF Names
<1>11. UsedBefore'
  BY <1>1, <1>6, UsedKept DEF Names
<1>12. Queued'
  <2>1. CASE IsGlobal
    <3>1. /\ line.init = "aggregate" \/ line.words = 1
          /\ global_var_name_queue' = Append(global_var_name_queue, x)
      BY <2>1 DEF DeclaresVariable
    <3>2. x \in DOMAIN tables'[1].map /\ tables'[1].map[x].tag = 0
      BY <1>3, <1>5, <2>1 DEF IsGlobal, Root
    <3>3. line.op = "global" /\ line.name = Append(x, Last(line.name))
      BY <1>1, <1>4, <2>1
    <3> QED BY <1>1, <1>5, <3>1, <3>2, <3>3, QueuedGrows DEF Names
  <2>2. CASE ~ IsGlobal
    <3>1. UNCHANGED global_var_name_queue
      BY <2>2 DEF DeclaresVariable
    <3> QED BY <1>1, <1>5, <2>2, <3>1, QueuedKept DEF Names
  <2> QED BY <2>1, <2>2
<1> QED BY <1>7, <1>8, <1>9, <1>10, <1>11, <1>12 DEF Names

LEMMA NamesConstant ==
  ASSUME Types, Types', Scopes, Names, NEW x \in Idents, DumpConstDef(x)
  PROVE  Names'
<1> DEFINE n == unused_koopa_var_count
           symbol == Variate(TRUE, -1)
<1>1. /\ Inserts(x, symbol) /\ used' = NoUse /\ UNCHANGED koopa
      /\ n' = n + 1 /\ declared' = declared + 1
      /\ UNCHANGED <<phase, data, global_var_name_queue>>
  BY DeclarationInserts DEF DumpConstDef, NextVarCount, visitVars
<1>2. n \in Nat /\ n > 0 /\ declared \in Nat
  BY Counters DEF CountersAreNumbers
<1>3. IsConstant(symbol) /\ symbol.koopa_var_count = -1 /\ symbol.decl = declared + 1
  BY DEF Variate, IsConstant
<1> HIDE DEF symbol
<1>4. Kept /\ Only(x, symbol, cur_symbol_table)
  BY <1>1, InsertsOnly
<1>5. n <= n' /\ declared <= declared'
  BY <1>1, <1>2
<1>6. Counts'
  <2>1. ASSUME NEW t \in 1 .. Len(tables'), NEW y \in DOMAIN tables'[t].map
        PROVE  \/ /\ t \in 1 .. Len(tables) /\ y \in DOMAIN tables[t].map
                  /\ tables'[t].map[y] = tables[t].map[y]
               \/ /\ tables'[t].map[y].koopa_var_count \in -1 .. n' - 1
                  /\ tables'[t].map[y].decl \in 1 .. declared'
    BY <1>1, <1>2, <1>3, <1>4 DEF Only
  <2> QED BY <1>1, <1>5, <2>1, CountsKept DEF Names
<1>7. Numbered' /\ FunctionLines' /\ UsedBefore' /\ Queued'
  BY <1>1, <1>4, <1>5, NumberedKept, FunctionsKept, UsedKept, QueuedKept DEF Names
<1>8. OpenSymbols'
  BY <1>1, <1>3, OpenInserts DEF Names, Continues
<1> QED BY <1>6, <1>7, <1>8 DEF Names

LEMMA NamesFunction ==
  ASSUME Types, Types', Scopes, Names, NEW x \in Idents, DumpFuncDef(x)
  PROVE  Names'
<1> DEFINE n == unused_koopa_var_count
           symbol == Function(declared + 1)
           line == [Line("fun", x, 0, "none") EXCEPT !.in = 0]
<1>1. /\ koopa' = Append(koopa, line) /\ used' = NoUse /\ declared' = declared + 1
      /\ phase = "dump" /\ UNCHANGED <<n, phase, data, global_var_name_queue>>
  BY DEF DumpFuncDef, visitVars
<1>2. n \in Nat /\ n > 0 /\ declared \in Nat
  BY Counters DEF CountersAreNumbers
<1>3. symbol.tag = 1 /\ symbol.koopa_var_count = -1 /\ symbol.decl = declared + 1
  BY DEF Function
<1>4. Grows(line) /\ line.op = "fun" /\ line.name = x /\ line.in = 0
  <2>1. line \in Lines
    BY IdentType, LineType
  <2> QED BY <1>1, <2>1 DEF Grows, Line
<1>5. /\ Kept /\ Only(x, symbol, 1) /\ x \notin DOMAIN tables[1].map
      /\ x \in DOMAIN tables'[1].map /\ tables'[1].map[x] = symbol
  BY FunctionOnly
<1> HIDE DEF symbol, line
<1>6. n <= n' /\ declared <= declared'
  BY <1>1, <1>2
<1>7. Counts'
  <2>1. ASSUME NEW t \in 1 .. Len(tables'), NEW y \in DOMAIN tables'[t].map
        PROVE  \/ /\ t \in 1 .. Len(tables) /\ y \in DOMAIN tables[t].map
                  /\ tables'[t].map[y] = tables[t].map[y]
               \/ /\ tables'[t].map[y].koopa_var_count \in -1 .. n' - 1
                  /\ tables'[t].map[y].decl \in 1 .. declared'
    BY <1>1, <1>2, <1>3, <1>5 DEF Only
  <2> QED BY <1>4, <1>6, <2>1, CountsKept DEF Names
<1>8. Numbered'
  BY <1>4, <1>6, NumberedKept DEF Names
<1>9. FunctionLines'
  BY <1>3, <1>4, <1>5, FunctionsKept DEF Names
<1>10. UsedBefore'
  BY <1>1, <1>6, UsedKept DEF Names
<1>11. Queued'
  BY <1>1, <1>4, <1>5, QueuedKept DEF Names
<1>12. OpenSymbols'
  BY OpenFunction DEF Names
<1> QED BY <1>7, <1>8, <1>9, <1>10, <1>11, <1>12 DEF Names

LEMMA NamesLogic ==
  ASSUME Types, Types', Scopes, Names, DumpLogicExp
  PROVE  Names'
<1> DEFINE n == unused_koopa_var_count
           line == [Line("alloc", <<"%temp_l_result", n>>, 0, "none") EXCEPT !.decl = 0]
<1>1. /\ koopa' = Append(koopa, line) /\ n' = n + 1 /\ phase = "dump"
      /\ UNCHANGED <<tables, cur_symbol_table, saved, used, phase, data, global_var_name_queue, declared>>
  BY DEF DumpLogicExp, visitVars, NextVarCount
<1>2. n \in Nat /\ n > 0 /\ declared \in Nat
  BY Counters DEF CountersAreNumbers
<1>3. Grows(line) /\ line.op = "alloc" /\ line.in = ThisFunction
  <2>1. <<"%temp_l_result", n>> \in Seq(Parts)
    <3>1. "%temp_l_result" \in Parts /\ n \in Parts
      BY <1>2 DEF Parts
    <3> QED BY <3>1
  <2>2. line \in Lines
    BY <2>1, LineType
  <2> QED BY <1>1, <2>2 DEF Grows, Line
<1>4. line.name # <<>> /\ Last(line.name) = n
  BY DEF Line, Last
<1> HIDE DEF line
<1>5. Kept /\ n <= n' /\ declared <= declared' /\ Blocks' = Blocks
  BY <1>1, <1>2, TablesType DEF Kept, Blocks
<1>6. Counts'
  BY <1>1, <1>3, <1>5, CountsKept DEF Names
<1>7. Numbered' /\ FunctionLines' /\ UsedBefore' /\ Queued'
  <2>1. Numbered'
    BY <1>1, <1>3, <1>4, <1>5, NumberedKept DEF Names
  <2>2. FunctionLines'
    BY <1>3, <1>5, FunctionsKept DEF Names
  <2>3. UsedBefore'
    BY <1>1, <1>5, UsedKept DEF Names
  <2>4. Queued'
    BY <1>1, <1>3, <1>5, QueuedKept DEF Names
  <2> QED BY <2>1, <2>2, <2>3, <2>4
<1>8. OpenSymbols'
  BY <1>1, <1>3, <1>5, OpenStays DEF Names, Continues
<1> QED BY <1>6, <1>7, <1>8 DEF Names

\* Steps that write no line and declare nothing.
LEMMA NamesQuiet ==
  ASSUME Types, Types', Names, Kept,
         UNCHANGED <<koopa, unused_koopa_var_count, declared, data, global_var_name_queue>>,
         phase' = "dump" => phase = "dump",
         used' = used \/ used' = NoUse \/ UsedBefore',
         \A t \in 1 .. Len(tables') : \A y \in DOMAIN tables'[t].map :
           t \in 1 .. Len(tables) /\ y \in DOMAIN tables[t].map /\ tables'[t].map[y] = tables[t].map[y],
         OpenSymbols'
  PROVE  Names'
<1>1. unused_koopa_var_count <= unused_koopa_var_count' /\ declared <= declared'
  BY Counters DEF CountersAreNumbers
<1>2. Counts'
  BY <1>1, CountsKept DEF Names
<1>3. Numbered' /\ FunctionLines'
  BY <1>1, NumberedKept, FunctionsKept DEF Names
<1>4. UsedBefore' /\ Queued'
  BY <1>1, UsedKept, QueuedKept DEF Names
<1> QED BY <1>2, <1>3, <1>4 DEF Names

LEMMA NamesBlock ==
  ASSUME Types, Types', Scopes, Names, DumpBlock
  PROVE  Names'
<1>1. /\ Len(tables') = Len(tables) + 1
      /\ \A u \in 1 .. Len(tables) : tables'[u] = tables[u]
      /\ DOMAIN tables'[Len(tables) + 1].map = {}
  BY BlockOpens
<1>2. Len(tables) \in Nat
  BY TablesType
<1>3. Kept
  BY <1>1, <1>2 DEF Kept
<1>4. ASSUME NEW t \in 1 .. Len(tables'), NEW y \in DOMAIN tables'[t].map
      PROVE  t \in 1 .. Len(tables) /\ y \in DOMAIN tables[t].map /\ tables'[t].map[y] = tables[t].map[y]
  <2>1. t # Len(tables) + 1
    BY <1>1
  <2>2. t \in 1 .. Len(tables)
    BY <1>1, <1>2, <2>1
  <2> QED BY <1>1, <2>2
<1>5. /\ UNCHANGED <<koopa, unused_koopa_var_count, declared, data, global_var_name_queue, phase>>
      /\ used' = NoUse
  BY DEF DumpBlock, visitVars
<1>6. OpenSymbols'
  BY <1>5, OpenBlocks DEF Names
<1> QED BY <1>3, <1>4, <1>5, <1>6, NamesQuiet

LEMMA NamesBlockEnd ==
  ASSUME Types, Types', Scopes, Names, DumpBlockEnd
  PROVE  Names'
<1>1. /\ UNCHANGED <<tables, koopa, unused_koopa_var_count, declared, data, global_var_name_queue, phase>>
      /\ used' = NoUse
  BY DEF DumpBlockEnd, visitVars
<1>2. Blocks' = Tail(Blocks) /\ Len(Blocks) > 1
  BY ScopesClose DEF DumpBlockEnd
<1>3. ASSUME NEW b \in 1 .. Len(Blocks') PROVE \E c \in 1 .. Len(Blocks) : Blocks'[b] = Blocks[c]
  <2>1. Blocks \in Seq(1 .. Len(tables)) /\ Blocks # <<>> /\ Len(Blocks) \in Nat
    BY BlocksType
  <2>2. Len(Blocks') = Len(Blocks) - 1 /\ Blocks'[b] = Blocks[b + 1]
    BY <1>2, <2>1, HeadTailProperties
  <2> QED BY <2>1, <2>2
<1>4. OpenSymbols'
  BY <1>1, <1>3, OpenStays DEF Names, Continues
<1>5. Kept
  BY <1>1, TablesType DEF Kept
<1> QED BY <1>1, <1>4, <1>5, NamesQuiet

\* The line of a variable that is seen from an open block.
LEMMA VariableLine ==
  ASSUME Types, Names, NEW b \in 1 .. Len(Blocks), NEW x \in DOMAIN tables[Blocks[b]].map,
         NEW symbol, symbol = tables[Blocks[b]].map[x], symbol.tag = 0, ~ symbol.flag_is_const
  PROVE  \E i \in 1 .. Len(koopa) :
           /\ koopa[i].decl = symbol.decl /\ koopa[i].name = Append(x, symbol.koopa_var_count)
           /\ \/ koopa[i].op = "global"
              \/ koopa[i].op = "alloc" /\ koopa[i].in = ThisFunction
           /\ koopa[i].name # <<>> /\ Last(koopa[i].name) \in 1 .. unused_koopa_var_count - 1
<1>1. HasLine(koopa, ThisFunction, x, symbol, Blocks[b] = 1)
  BY OpenIs DEF Names, IsConstant
<1>2. PICK i \in 1 .. Len(koopa) :
           /\ koopa[i].decl = symbol.decl /\ koopa[i].name = Append(x, symbol.koopa_var_count)
           /\ \/ koopa[i].op = "global"
              \/ koopa[i].op = "alloc" /\ koopa[i].in = ThisFunction
  BY <1>1 DEF HasLine
<1>3. koopa[i].name # <<>> /\ Last(koopa[i].name) \in 1 .. unused_koopa_var_count - 1
  BY <1>2 DEF Names, Numbered, IsVariable
<1> QED BY <1>2, <1>3

LEMMA NamesUse ==
  ASSUME Types, Types', Scopes, Names, NEW x \in Idents, DumpLVal(x) \/ DumpAssign(x) \/ DumpCall(x)
  PROVE  Names'
<1>1. UNCHANGED unchangedByUse
  BY DEF DumpLVal, DumpAssign, DumpCall
<1>2. Kept /\ Blocks' = Blocks
  BY <1>1, TablesType DEF Kept, Blocks, unchangedByUse
<1>3. OpenSymbols'
  BY <1>1, <1>2, OpenStays DEF Names, Continues, unchangedByUse
<1>4. /\ Lexical!Visible(x)
      /\ \E tag \in {0, 1} :
           /\ tag = 1 <=> Lexical!Meaning(x).kind = "function"
           /\ used' = NoUse \/ used' = Printed(x, tag)
  BY DEF DumpLVal, DumpAssign, DumpCall, Means
<1>5. PICK tag \in {0, 1} :
        /\ tag = 1 <=> Lexical!Meaning(x).kind = "function"
        /\ used' = NoUse \/ used' = Printed(x, tag)
  BY <1>4
<1>6. PICK b \in 1 .. Len(Blocks), symbol \in Symbols :
           /\ x \in DOMAIN tables[Blocks[b]].map
           /\ symbol = tables[Blocks[b]].map[x] /\ symbol.tag = tag
           /\ Printed(x, tag) = IF tag = 1 THEN Use("call", x, 0)
                                ELSE IF symbol.flag_is_const THEN Use("number", <<>>, symbol.decl)
                                ELSE Use("place", Append(x, symbol.koopa_var_count), 0)
  BY <1>4, <1>5, PrintedIs
<1>7. UsedBefore'
  <2>1. ASSUME used'.op = "place"
        PROVE  /\ used'.name # <<>> /\ Last(used'.name) \in 1 .. unused_koopa_var_count - 1
    <3>1. tag = 0 /\ ~ symbol.flag_is_const /\ used'.name = Append(x, symbol.koopa_var_count)
      BY <1>5, <1>6, <2>1 DEF Use, NoUse
    <3>2. symbol.tag = 0 /\ x \in DOMAIN tables[Blocks[b]].map
      BY <1>6, <3>1
    <3>3. PICK i \in 1 .. Len(koopa) :
            /\ koopa[i].name = Append(x, symbol.koopa_var_count)
            /\ koopa[i].name # <<>> /\ Last(koopa[i].name) \in 1 .. unused_koopa_var_count - 1
      BY <1>6, <3>1, <3>2, VariableLine
    <3> QED BY <3>1, <3>3
  <2> QED BY <1>1, <2>1 DEF UsedBefore, unchangedByUse
<1> QED BY <1>1, <1>2, <1>3, <1>7, NamesQuiet DEF unchangedByUse, visitVars

LEMMA NamesOthers ==
  ASSUME Types, Types', Names, DumpEnd \/ VisitEnd \/ UNCHANGED vars
  PROVE  Names'
<1>1. /\ UNCHANGED <<tables, cur_symbol_table, saved, unused_koopa_var_count, koopa, used,
                     global_var_name_queue, data, declared>>
      /\ phase' = "dump" => phase = "dump"
  BY DEF DumpEnd, VisitEnd, vars
<1>2. Kept /\ Blocks' = Blocks
  BY <1>1, TablesType DEF Kept, Blocks
<1>3. OpenSymbols'
  BY <1>1, <1>2, OpenStays DEF Names, Continues
<1> QED BY <1>1, <1>2, <1>3, NamesQuiet

LEMMA NamesVisit ==
  ASSUME Types, Types', Names, VisitGlobalAlloc
  PROVE  Names'
<1>1. UNCHANGED <<tables, cur_symbol_table, saved, unused_koopa_var_count, koopa, used, declared>>
  BY DEF VisitGlobalAlloc
<1>2. Kept /\ Blocks' = Blocks
  BY <1>1, TablesType DEF Kept, Blocks
<1>3. OpenSymbols'
  BY <1>1, <1>2, OpenStays DEF Names, Continues
<1>4. unused_koopa_var_count <= unused_koopa_var_count' /\ declared <= declared'
  BY <1>1, Counters DEF CountersAreNumbers
<1>5. Counts'
  BY <1>1, <1>4, CountsKept DEF Names
<1>6. Numbered' /\ FunctionLines' /\ UsedBefore'
  BY <1>1, <1>2, <1>4, NumberedKept, FunctionsKept, UsedKept DEF Names
<1>7. Queued'
  BY QueuedVisit DEF Names
<1> QED BY <1>3, <1>5, <1>6, <1>7 DEF Names

LEMMA NamesNext == Types /\ Types' /\ Scopes /\ Names /\ [Next]_vars => Names'
<1> SUFFICES ASSUME Types, Types', Scopes, Names, [Next]_vars PROVE Names'
  OBVIOUS
<1>1. ASSUME NEW x \in Idents,
             DumpVarDef(x) \/ DumpVarDefInit(x) \/ DumpArrayDef(x) \/ DumpFParam(x)
      PROVE  Names'
  BY <1>1, VariableStep, NamesVariable
<1>2. ASSUME NEW x \in Idents,
             DumpConstDef(x) \/ DumpFuncDef(x) \/ DumpLVal(x) \/ DumpAssign(x) \/ DumpCall(x)
      PROVE  Names'
  BY <1>2, NamesConstant, NamesFunction, NamesUse
<1>3. CASE DumpLogicExp \/ DumpBlock \/ DumpBlockEnd \/ DumpEnd \/ VisitGlobalAlloc \/ VisitEnd
             \/ UNCHANGED vars
  BY <1>3, NamesLogic, NamesBlock, NamesBlockEnd, NamesOthers, NamesVisit
<1> QED BY <1>1, <1>2, <1>3 DEF Next, Finished

LEMMA NamesInit == Init => Names
<1> SUFFICES ASSUME Init PROVE Names
  OBVIOUS
<1>1. Library \in Seq(Idents) /\ DOMAIN Library = 1 .. Len(Library) /\ Len(Library) \in Nat
  BY SymbolTablesAssumption
<1>2. \A i, j \in 1 .. Len(Library) : i # j => Library[i] # Library[j]
  BY <1>1, SymbolTablesAssumption DEF IsInjective
<1>3. /\ Len(tables) = 1 /\ DOMAIN tables[1].map = Range(Library)
      /\ \A x \in Range(Library) :
           tables[1].map[x] = Function(CHOOSE i \in DOMAIN Library : Library[i] = x)
  BY DEF Init
<1>4. \A x \in Range(Library) : \E i \in 1 .. Len(Library) :
        Library[i] = x /\ tables[1].map[x] = Function(i)
  <2>1. \A x \in Range(Library) : \E i \in DOMAIN Library : Library[i] = x
    BY DEF Range
  <2> QED BY <1>1, <1>3, <2>1
<1>5. /\ Len(koopa) = Len(Library)
      /\ \A i \in 1 .. Len(koopa) :
           /\ koopa[i].op = "decl" /\ koopa[i].name = Library[i] /\ koopa[i].in = 0
           /\ koopa[i].decl = i
      /\ unused_koopa_var_count = 1 /\ declared = Len(Library) /\ data = <<>>
      /\ global_var_name_queue = <<>> /\ used = NoUse /\ cur_symbol_table = 1 /\ saved = <<>>
  BY <1>1 DEF Init, Root
<1>6. koopa \in Seq(Lines) /\ ThisFunction \in Nat
  BY TypeInit, ThisFunctionType DEF Types
<1>7. \A i \in Nat : Function(i).tag = 1 /\ Function(i).koopa_var_count = -1 /\ Function(i).decl = i
  BY DEF Function
<1>8. Counts
  <2>1. ASSUME NEW t \in 1 .. Len(tables), NEW x \in DOMAIN tables[t].map
        PROVE  /\ tables[t].map[x].koopa_var_count \in -1 .. unused_koopa_var_count - 1
               /\ tables[t].map[x].decl \in 1 .. declared
    <3>1. t = 1
      BY <1>3
    <3>2. PICK i \in 1 .. Len(Library) : tables[1].map[x] = Function(i)
      BY <1>3, <1>4, <3>1
    <3> QED BY <1>5, <1>7, <3>1, <3>2
  <2>2. \A i \in 1 .. Len(koopa) : koopa[i].in \in 0 .. ThisFunction
    BY <1>5, <1>6
  <2> QED BY <2>1, <2>2 DEF Counts
<1>9. Numbered
  BY <1>5 DEF Numbered, IsVariable
<1>10. FunctionLines
  <2>1. ASSUME NEW i \in 1 .. Len(koopa)
        PROVE  koopa[i].name \in DOMAIN tables[1].map /\ tables[1].map[koopa[i].name].tag = 1
    <3>1. koopa[i].name \in Range(Library)
      BY <1>1, <1>5 DEF Range
    <3>2. PICK j \in 1 .. Len(Library) : tables[1].map[koopa[i].name] = Function(j)
      BY <1>4, <3>1
    <3> QED BY <1>3, <1>7, <3>1, <3>2
  <2> QED BY <1>2, <1>5, <2>1 DEF FunctionLines
<1>11. OpenSymbols
  <2>1. Len(Blocks) = 1 /\ Blocks[1] = 1
    BY <1>5 DEF Blocks
  <2>2. ASSUME NEW x \in DOMAIN tables[1].map
        PROVE  HasLine(koopa, ThisFunction, x, tables[1].map[x], TRUE)
    <3>1. PICK i \in 1 .. Len(Library) : Library[i] = x /\ tables[1].map[x] = Function(i)
      BY <1>3, <1>4
    <3>2. i \in 1 .. Len(koopa) /\ koopa[i].decl = i /\ koopa[i].op = "decl" /\ koopa[i].name = x
      BY <1>5, <3>1
    <3> QED BY <1>7, <3>1, <3>2 DEF HasLine
  <2>3. \A b \in 1 .. Len(Blocks) : Blocks[b] = 1
    BY <2>1
  <2> QED BY <2>2, <2>3 DEF OpenSymbols
<1>12. UsedBefore
  BY <1>5 DEF UsedBefore, NoUse, Use
<1>13. Queued
  <2>1. Globals = {}
    BY <1>5, <1>6 DEF Globals
  <2> QED BY <1>5, <2>1, FS_EmptySet DEF Queued
<1> QED BY <1>8, <1>9, <1>10, <1>11, <1>12, <1>13 DEF Names

\* The inductive invariant.
Inv == Types /\ Scopes /\ Names

LEMMA InvInductive == Init => Inv
  BY TypeInit, ScopesInit, NamesInit DEF Inv

LEMMA InvNext == Inv /\ [Next]_vars => Inv'
  BY TypesScopesNext, NamesNext DEF Inv

\* Tables, names, text and queue fit together at every step: the strengthening
\* under which the properties below are preserved.
THEOREM Invariant == Spec => []Inv
  BY InvInductive, InvNext, PTL DEF Spec
-----------------------------------------------------------------------------
(* What it means *)

LEMMA TypeOKFollows == Inv => TypeOK
<1> SUFFICES ASSUME Inv PROVE TypeOK
  OBVIOUS
<1> USE DEF Inv
<1>1. DOMAIN tables = 1 .. Len(tables) /\ DOMAIN koopa = 1 .. Len(koopa)
  BY DEF Types
<1>2. ASSUME NEW t \in DOMAIN tables
      PROVE  tables[t].father \in IF t = Root THEN {NULL, Wild} ELSE 1 .. t - 1
  <2>1. CASE t = 1
    BY <2>1 DEF Scopes, Root
  <2>2. CASE t # 1
    <3>1. t \in 2 .. Len(tables)
      BY <1>1, <2>2
    <3> QED BY <2>2, <3>1 DEF Scopes, Root
  <2> QED BY <2>1, <2>2
<1>3. ASSUME NEW t \in DOMAIN tables, NEW x \in DOMAIN tables[t].map
      PROVE  /\ x \in Idents
             /\ tables[t].map[x].tag \in {0, 1}
             /\ tables[t].map[x].koopa_var_count \in -1 .. unused_koopa_var_count - 1
             /\ tables[t].map[x].decl \in 1 .. declared
  <2>1. x \in Idents /\ tables[t].map[x] \in Symbols
    BY <1>1, TablesType
  <2>2. tables[t].map[x].tag \in {0, 1}
    BY <2>1 DEF Symbols
  <2> QED BY <1>1, <2>1, <2>2 DEF Names, Counts
<1>4. \A i \in DOMAIN Blocks : Blocks[i] \in DOMAIN tables
  BY <1>1, BlocksType
<1>5. IsGlobal <=> saved = <<>>
  BY GlobalScope
<1>6. \A i \in DOMAIN koopa : koopa[i].in \in 0 .. ThisFunction
  BY <1>1 DEF Names, Counts
<1>7. /\ unused_koopa_var_count \in 1 .. MaxVars + 1
      /\ phase \in {"dump", "visit", "done"}
      /\ \A k \in DOMAIN global_var_name_queue : global_var_name_queue[k] \in Idents
  BY DEF Types
<1>8. used.op \in {"none", "number", "place", "call"}
  <2>1. used \in Uses
    BY DEF Types
  <2> QED BY <2>1 DEF Uses
<1> QED BY <1>2, <1>3, <1>4, <1>5, <1>6, <1>7, <1>8 DEF TypeOK

\* The variables have the types of TypeOK.
THEOREM Typing == Spec => []TypeOK
  BY Invariant, TypeOKFollows, PTL

LEMMA UniqueFollows == Inv => SymbolsUnique
<1> SUFFICES ASSUME Inv, NEW i \in DOMAIN koopa, NEW j \in DOMAIN koopa, i # j,
                    koopa[i].op \in {"decl", "fun"} <=> koopa[j].op \in {"decl", "fun"}
             PROVE  koopa[i].name # koopa[j].name
  BY DEF SymbolsUnique
<1> USE DEF Inv
<1>1. /\ DOMAIN koopa = 1 .. Len(koopa) /\ i \in Int /\ j \in Int
      /\ koopa[i] \in Lines /\ koopa[j] \in Lines
  BY DEF Types
<1>2. CASE koopa[i].op \in {"decl", "fun"}
  BY <1>1, <1>2 DEF Names, FunctionLines, IsFunction
<1>3. CASE koopa[i].op \notin {"decl", "fun"}
  <2>1. koopa[i].op \in {"global", "alloc"} /\ koopa[j].op \in {"global", "alloc"}
    BY <1>1, <1>3 DEF Lines
  <2>2. /\ Last(koopa[i].name) \in 1 .. unused_koopa_var_count - 1
        /\ Last(koopa[j].name) \in 1 .. unused_koopa_var_count - 1
    BY <1>1, <2>1 DEF Names, Numbered, IsVariable
  <2>3. Last(koopa[i].name) < Last(koopa[j].name) \/ Last(koopa[j].name) < Last(koopa[i].name)
    <3>1. i < j \/ j < i
      BY <1>1
    <3> QED BY <1>1, <2>1, <3>1 DEF Names, Numbered, IsVariable
  <2>4. Last(koopa[i].name) # Last(koopa[j].name)
    BY <2>2, <2>3
  <2> QED BY <2>4
<1> QED BY <1>2, <1>3

\* No two lines of variables, and no two of functions, have one name in the text
\* (SymbolsUnique): NextVarCount is spent with every line that takes a number, in
\* whatever block, and the root's map refuses the second function of a name.
THEOREM NamesUnique == Spec => []SymbolsUnique
  BY Invariant, UniqueFollows, PTL

LEMMA DataFollows == Inv => DataInOrder
<1> SUFFICES ASSUME Inv PROVE DataInOrder
  OBVIOUS
<1> USE DEF Inv
<1>1. DOMAIN data = 1 .. Len(data) /\ DOMAIN koopa = 1 .. Len(koopa) /\ Len(data) \in Nat
      /\ Len(global_var_name_queue) \in Nat
  BY DEF Types
<1>2. ASSUME NEW k \in 1 .. Len(data)
      PROVE  /\ Value(k).name = Append(data[k].label, Last(Value(k).name))
             /\ data[k].bytes = 4 * Value(k).words
             /\ \A i \in DOMAIN koopa : koopa[i].op = "fun" => koopa[i].name # data[k].label
  <2>1. k \in 1 .. Cardinality(Globals)
    BY <1>1, GlobalsType DEF Names, Queued
  <2>2. PICK i \in Globals : Rank(i) = k /\ Value(k) = koopa[i]
    BY <2>1, GlobalsType
  <2>3. Label(Rank(i)) = data[k].label
    BY <1>1, <2>2 DEF Label
  <2>4. /\ koopa[i].name = Append(Label(Rank(i)), Last(koopa[i].name))
        /\ Label(Rank(i)) \in DOMAIN tables[1].map
        /\ tables[1].map[Label(Rank(i))].tag = 0
    BY DEF Names, Queued
  <2>5. data[k].bytes = 4 * Value(k).words
    BY DEF Names, Queued
  <2>6. ASSUME NEW j \in DOMAIN koopa, koopa[j].op = "fun" PROVE koopa[j].name # data[k].label
    <3>1. tables[1].map[koopa[j].name].tag = 1
      BY <1>1, <2>6 DEF Names, FunctionLines, IsFunction
    <3> QED BY <2>3, <2>4, <3>1
  <2> QED BY <2>2, <2>3, <2>4, <2>5, <2>6
<1>3. Len(global_var_name_queue) = Cardinality(Globals) - Len(data)
  BY <1>1, GlobalsType DEF Names, Queued
<1> QED BY <1>1, <1>2, <1>3 DEF DataInOrder

\* Behind every label that Visit prints is what the program says of the global
\* of that name, and no label is a function's (DataInOrder): the queue has the
\* names of the globals in the order of their lines.
THEOREM DataOrdered == Spec => []DataInOrder
  BY Invariant, DataFollows, PTL
-----------------------------------------------------------------------------
(* SymbolTables implements Scoping *)

\* What a table says of its names.
Seen(map) == [x \in DOMAIN map |-> [decl |-> map[x].decl, kind |-> KindOf(map[x])]]

EnvIsSeen ==
  /\ Len(Env) = Len(Blocks) /\ Len(Blocks) \in Nat
  /\ Env = [i \in 1 .. Len(Blocks) |-> Seen(tables[Blocks[i]].map)]

LEMMA EnvSeen == Types => EnvIsSeen
<1> SUFFICES ASSUME Types PROVE EnvIsSeen
  OBVIOUS
<1>1. DOMAIN Blocks = 1 .. Len(Blocks) /\ Len(Blocks) \in Nat
  BY BlocksType
<1>2. Env = [i \in 1 .. Len(Blocks) |-> Seen(tables[Blocks[i]].map)]
  BY <1>1 DEF Env, Seen
<1>3. Len(Env) = Len(Blocks)
  BY EnvType
<1> QED BY <1>1, <1>2, <1>3 DEF EnvIsSeen

LEMMA EnvThenSeen == Types' => EnvIsSeen'
  BY EnvSeen, PTL

LEMMA SeenInserted ==
  ASSUME NEW m \in Maps, NEW x \in Idents, NEW symbol \in Symbols, x \notin DOMAIN m
  PROVE  Seen(Inserted(m, x, symbol))
           = Lexical!With(Seen(m), x, [decl |-> symbol.decl, kind |-> KindOf(symbol)])
<1> DEFINE r == Inserted(m, x, symbol)
           d == [decl |-> symbol.decl, kind |-> KindOf(symbol)]
<1>1. /\ DOMAIN r = DOMAIN m \cup {x} /\ r[x] = symbol
      /\ \A y \in DOMAIN m : r[y] = m[y]
  BY InsertedType
<1> HIDE DEF r
<1>2. /\ Seen(r) = [y \in DOMAIN m \cup {x} |-> [decl |-> r[y].decl, kind |-> KindOf(r[y])]]
      /\ DOMAIN Seen(m) = DOMAIN m
      /\ \A y \in DOMAIN m : Seen(m)[y] = [decl |-> m[y].decl, kind |-> KindOf(m[y])]
  BY <1>1 DEF Seen
<1>3. Lexical!With(Seen(m), x, d) = [y \in DOMAIN m \cup {x} |-> IF y = x THEN d ELSE Seen(m)[y]]
  BY <1>2 DEF Lexical!With
<1>4. \A y \in DOMAIN m \cup {x} :
        [decl |-> r[y].decl, kind |-> KindOf(r[y])] = IF y = x THEN d ELSE Seen(m)[y]
  BY <1>1, <1>2
<1> HIDE DEF d
<1>5. Seen(r) = Lexical!With(Seen(m), x, d)
  BY <1>2, <1>3, <1>4, Zenon
<1> QED BY <1>5 DEF r, d

\* The tables of the blocks around the current one are older, so others.
LEMMA CurrentIsNewest ==
  ASSUME Types, Scopes
  PROVE  \A i \in 2 .. Len(Blocks) : Blocks[i] # cur_symbol_table
<1> DEFINE n == Len(Blocks)
           S == {i \in 2 .. n : Blocks[i] < cur_symbol_table}
<1>1. n \in Nat /\ Blocks[1] = cur_symbol_table /\ \A i \in 1 .. n : Blocks[i] \in 1 .. Len(tables)
  BY BlocksType
<1>2. Len(tables) \in Nat
  BY TablesType
<1>3. ASSUME NEW i \in 1 .. n - 1 PROVE Blocks[i + 1] < Blocks[i]
  <2>1. Blocks[i] # 1 /\ Blocks[i] \in 1 .. Len(tables) /\ Blocks[i + 1] = tables[Blocks[i]].father
    <3>1. i \in 1 .. n /\ i # n
      BY <1>1
    <3>2. Blocks[i] = 1 <=> i = n
      BY <3>1 DEF Scopes, Root
    <3> QED BY <1>1, <3>1, <3>2 DEF Scopes, FathersAreOpen
  <2>2. Blocks[i] \in 2 .. Len(tables)
    BY <1>2, <2>1
  <2>3. tables[Blocks[i]].father \in 1 .. Blocks[i] - 1
    BY <2>2 DEF Scopes
  <2> QED BY <1>2, <2>1, <2>3
<1>4. ASSUME NEW k \in 2 .. n PROVE k \in S
  <2>1. 2 \in S /\ 2 \in Nat /\ k \in Nat
    <3>1. 1 \in 1 .. n - 1
      BY <1>1
    <3>2. Blocks[1 + 1] < Blocks[1]
      BY <1>3, <3>1
    <3> QED BY <1>1, <3>2
  <2>2. ASSUME NEW i \in 2 .. k - 1, i \in S PROVE i + 1 \in S
    <3>1. i \in 1 .. n - 1 /\ i + 1 \in 2 .. n /\ Blocks[i] \in Int /\ Blocks[i + 1] \in Int
      BY <1>1, <1>2, <2>2
    <3>2. Blocks[i + 1] < Blocks[i] /\ Blocks[i] < cur_symbol_table
      BY <1>3, <2>2, <3>1
    <3>3. cur_symbol_table \in Int
      BY <1>2, TablesType
    <3> QED BY <3>1, <3>2, <3>3
  <2> HIDE DEF S
  <2>3. \A i \in 2 .. k : i \in S
    BY <2>1, <2>2, Climb
  <2> QED BY <1>1, <2>3
<1> QED BY <1>1, <1>2, <1>4, TablesType

LEMMA EnvInserts ==
  ASSUME Types, Types', Scopes, NEW x, NEW symbol, Inserts(x, symbol)
  PROVE  Env' = [Env EXCEPT ![1] =
                   Lexical!With(@, x, [decl |-> symbol.decl, kind |-> KindOf(symbol)])]
<1> DEFINE n == Len(Blocks)
           c == cur_symbol_table
           d == [decl |-> symbol.decl, kind |-> KindOf(symbol)]
<1>1. Blocks' = Blocks
  BY InsertsStay
<1>2. /\ n \in Nat /\ 1 \in 1 .. n /\ Blocks[1] = c /\ Env = [i \in 1 .. n |-> Seen(tables[Blocks[i]].map)]
      /\ \A i \in 1 .. n : Blocks[i] \in 1 .. Len(tables)
  BY EnvSeen, BlocksType DEF EnvIsSeen
<1>3. Env' = [i \in 1 .. n |-> Seen(tables'[Blocks[i]].map)]
  BY <1>1, EnvThenSeen DEF EnvIsSeen
<1>4. /\ \A u \in 1 .. Len(tables) : u # c => tables'[u] = tables[u]
      /\ tables'[c].map = Inserted(tables[c].map, x, symbol)
  BY InsertStep DEF Inserts
<1>5. Seen(tables'[c].map) = Lexical!With(Seen(tables[c].map), x, d)
  BY <1>4, SeenInserted, TablesType DEF Inserts
<1>6. ASSUME NEW i \in 1 .. n
      PROVE  Seen(tables'[Blocks[i]].map)
               = IF i = 1 THEN Lexical!With(Seen(tables[c].map), x, d) ELSE Seen(tables[Blocks[i]].map)
  <2>1. CASE i = 1
    BY <1>2, <1>5, <2>1
  <2>2. CASE i # 1
    <3>1. i \in 2 .. n
      BY <1>2, <2>2
    <3>2. Blocks[i] # c
      BY <3>1, CurrentIsNewest
    <3> QED BY <1>2, <1>4, <2>2, <3>2
  <2> QED BY <2>1, <2>2
<1> HIDE DEF d
<1>7. Env[1] = Seen(tables[c].map)
  BY <1>2
<1>8. [Env EXCEPT ![1] = Lexical!With(@, x, d)]
        = [i \in 1 .. n |-> IF i = 1 THEN Lexical!With(Env[1], x, d) ELSE Env[i]]
  BY <1>2
<1>9. \A i \in 1 .. n : Env[i] = Seen(tables[Blocks[i]].map)
  BY <1>2
<1>10. Env' = [Env EXCEPT ![1] = Lexical!With(@, x, d)]
  <2>1. \A i \in 1 .. n :
          Seen(tables'[Blocks[i]].map) = IF i = 1 THEN Lexical!With(Env[1], x, d) ELSE Env[i]
    BY <1>6, <1>7, <1>9
  <2> QED BY <1>3, <1>8, <2>1, Zenon
<1> QED BY <1>10 DEF d

LEMMA EnvOpens ==
  ASSUME Types, Types', Scopes, DumpBlock
  PROVE  Env' = << <<>> >> \o Env
<1> DEFINE n == Len(Blocks)
           m == Len(tables)
<1>1. /\ Blocks' = <<m + 1>> \o Blocks
      /\ \A u \in 1 .. m : tables'[u] = tables[u]
      /\ DOMAIN tables'[m + 1].map = {}
  BY BlockOpens
<1>2. /\ n \in Nat /\ m \in Nat /\ Blocks \in Seq(Nat) /\ Env = [i \in 1 .. n |-> Seen(tables[Blocks[i]].map)]
      /\ \A i \in 1 .. n : Blocks[i] \in 1 .. m
  BY EnvSeen, BlocksType, TablesType DEF EnvIsSeen
<1>3. /\ Len(Blocks') = n + 1 /\ Blocks'[1] = m + 1
      /\ \A i \in 1 .. n : Blocks'[i + 1] = Blocks[i]
  <2>1. <<m + 1>> \in Seq(Nat) /\ Len(<<m + 1>>) = 1 /\ <<m + 1>>[1] = m + 1
    BY <1>2
  <2>2. /\ Len(Blocks') = 1 + n
        /\ \A b \in 1 .. 1 + n : Blocks'[b] = IF b <= 1 THEN <<m + 1>>[b] ELSE Blocks[b - 1]
    BY <1>1, <1>2, <2>1, ConcatProperties
  <2>3. \A i \in 1 .. n : i + 1 \in 1 .. 1 + n /\ ~ (i + 1 <= 1) /\ i + 1 - 1 = i
    BY <1>2
  <2> QED BY <1>2, <2>1, <2>2, <2>3
<1>4. Env' = [i \in 1 .. n + 1 |-> Seen(tables'[Blocks'[i]].map)]
  BY <1>3, EnvThenSeen DEF EnvIsSeen
<1>5. Env'[1] = <<>>
  <2>1. 1 \in 1 .. n + 1 /\ Env'[1] = Seen(tables'[m + 1].map)
    BY <1>2, <1>3, <1>4
  <2> QED BY <1>1, <2>1 DEF Seen
<1>6. ASSUME NEW i \in 1 .. n PROVE Env'[i + 1] = Env[i]
  <2>1. i + 1 \in 1 .. n + 1
    BY <1>2
  <2>2. tables'[Blocks'[i + 1]] = tables[Blocks[i]]
    BY <1>1, <1>2, <1>3
  <2> QED BY <1>2, <1>4, <2>1, <2>2
<1> DEFINE S == {Env'[i] : i \in 1 .. n + 1}
<1>7. Env' \in [1 .. n + 1 -> S] /\ Env \in [1 .. n -> S]
  <2>1. \A i \in 1 .. n : i + 1 \in 1 .. n + 1
    BY <1>2
  <2>2. (\A i \in 1 .. n + 1 : Env'[i] \in S) /\ \A i \in 1 .. n : Env[i] \in S
    BY <1>6, <2>1
  <2> HIDE DEF S
  <2> QED BY <1>2, <1>4, <2>2
<1> HIDE DEF S
<1>8. Env' = <<Env'[1]>> \o Env
  <2>1. n \in Nat /\ \A i \in 1 .. n : Env'[i + 1] = Env[i]
    BY <1>2, <1>6
  <2>2. PICK g \in [1 .. n + 1 -> S] : g = Env'
    BY <1>7
  <2> HIDE DEF n
  <2>3. g = <<g[1]>> \o Env
    BY <1>7, <2>1, <2>2, InFront
  <2> QED BY <2>2, <2>3
<1> QED BY <1>5, <1>8

LEMMA EnvCloses ==
  ASSUME Types, Types', Scopes, DumpBlockEnd
  PROVE  Env' = Tail(Env) /\ Len(Env) > 1
<1>1. Blocks' = Tail(Blocks) /\ Len(Blocks) > 1 /\ UNCHANGED tables
  BY ScopesClose DEF DumpBlockEnd
<1> DEFINE n == Len(Blocks) - 1
<1>2. /\ n \in Nat /\ Blocks \in Seq(1 .. Len(tables)) /\ Len(Blocks) = n + 1 /\ Blocks # <<>>
      /\ Len(Env) = n + 1 /\ Env = [i \in 1 .. n + 1 |-> Seen(tables[Blocks[i]].map)]
  BY <1>1, EnvSeen, BlocksType DEF EnvIsSeen
<1> HIDE DEF n
<1>3. Len(Blocks') = n /\ \A i \in 1 .. n : Blocks'[i] = Blocks[i + 1]
  <2>1. Len(Tail(Blocks)) = n
    BY <1>2, HeadTailProperties
  <2> QED BY <1>1, <1>2, <2>1, HeadTailProperties
<1>4. Env' = [i \in 1 .. n |-> Seen(tables[Blocks'[i]].map)]
  BY <1>1, <1>3, EnvThenSeen DEF EnvIsSeen
<1>5. ASSUME NEW i \in 1 .. n PROVE Env[i + 1] = Env'[i]
  <2>1. i + 1 \in 1 .. n + 1
    BY <1>2
  <2> QED BY <1>2, <1>3, <1>4, <2>1
<1> DEFINE S == {Env[i] : i \in 1 .. n + 1}
<1>6. Env \in [1 .. n + 1 -> S] /\ Env' \in [1 .. n -> S]
  <2>1. \A i \in 1 .. n : i + 1 \in 1 .. n + 1
    BY <1>2
  <2>2. (\A i \in 1 .. n + 1 : Env[i] \in S) /\ \A i \in 1 .. n : Env'[i] \in S
    BY <1>5, <2>1
  <2> HIDE DEF S
  <2> QED BY <1>2, <1>4, <2>2
<1> HIDE DEF S
<1>7. Env' = Tail(Env)
  BY <1>2, <1>5, <1>6, InFront
<1> QED BY <1>1, <1>2, <1>7

LEMMA EnvStays ==
  ASSUME Types, Types', UNCHANGED <<tables, cur_symbol_table, saved>>
  PROVE  Env' = Env
<1>1. Blocks' = Blocks
  BY DEF Blocks
<1> QED BY <1>1, EnvSeen, EnvThenSeen DEF EnvIsSeen

LEMMA EnvFunction ==
  ASSUME Types, Types', Scopes, NEW x \in Idents, DumpFuncDef(x)
  PROVE  /\ Len(Env) = 1 /\ x \notin DOMAIN Env[1]
         /\ Env' = << <<>>, Lexical!With(Env[1], x, [decl |-> declared + 1, kind |-> "function"]) >>
<1> DEFINE m == Len(tables)
           symbol == Function(declared + 1)
           w == Lexical!With(Env[1], x, [decl |-> declared + 1, kind |-> "function"])
<1>1. /\ Blocks = <<Root>> /\ Blocks' = <<m + 1, Root>> /\ x \notin DOMAIN tables[1].map
      /\ tables'[1].map = Inserted(tables[1].map, x, symbol)
      /\ DOMAIN tables'[m + 1].map = {}
  BY FunctionOpens
<1>2. /\ Len(Env) = 1 /\ Env = [i \in 1 .. 1 |-> Seen(tables[Blocks[i]].map)]
      /\ Blocks[1] = 1 /\ Len(Blocks') = 2 /\ Blocks'[1] = m + 1 /\ Blocks'[2] = 1
  BY <1>1, EnvSeen DEF EnvIsSeen, Root
<1>3. Env[1] = Seen(tables[1].map)
  BY <1>2
<1>4. symbol \in Symbols /\ symbol.decl = declared + 1 /\ KindOf(symbol) = "function"
  <2>1. symbol.decl = declared + 1 /\ KindOf(symbol) = "function"
    BY DEF Function, KindOf
  <2> QED BY <2>1, SymbolType DEF Types
<1> HIDE DEF symbol
<1>5. Seen(tables'[1].map) = w
  BY <1>1, <1>3, <1>4, SeenInserted, TablesType
<1>6. Seen(tables'[m + 1].map) = <<>>
  BY <1>1 DEF Seen
<1>7. x \notin DOMAIN Env[1]
  BY <1>1, <1>3 DEF Seen
<1> HIDE DEF w
<1>8. Env' = [i \in 1 .. 2 |-> Seen(tables'[Blocks'[i]].map)]
  BY <1>2, EnvThenSeen DEF EnvIsSeen
<1>9. Env' = << <<>>, w >>
  <2>1. \A i \in 1 .. 2 : Seen(tables'[Blocks'[i]].map) = IF i = 1 THEN <<>> ELSE w
    BY <1>2, <1>5, <1>6
  <2>2. Env' = [i \in 1 .. 2 |-> IF i = 1 THEN <<>> ELSE w]
    BY <1>8, <2>1, Zenon
  <2> QED BY <2>2
<1> QED BY <1>2, <1>7, <1>9 DEF w
-----------------------------------------------------------------------------
(* What a use reaches *)

\* The line that has the name that was printed is the only one.
UseReaches ==
  \A i \in 1 .. Len(koopa) :
    /\ koopa[i].name = used.name
    /\ \/ used.op = "call" /\ koopa[i].op \in {"decl", "fun"}
       \/ /\ used.op = "place"
          /\ \/ koopa[i].op = "global"
             \/ koopa[i].op = "alloc" /\ koopa[i].in = ThisFunction
    => Reached = koopa[i].decl

LEMMA Reaches == Inv => UseReaches
<1> SUFFICES ASSUME Inv, NEW i \in 1 .. Len(koopa), koopa[i].name = used.name,
                    \/ used.op = "call" /\ koopa[i].op \in {"decl", "fun"}
                    \/ /\ used.op = "place"
                       /\ \/ koopa[i].op = "global"
                          \/ koopa[i].op = "alloc" /\ koopa[i].in = ThisFunction
             PROVE  Reached = koopa[i].decl
  BY DEF UseReaches
<1>1. DOMAIN koopa = 1 .. Len(koopa)
  BY DEF Inv, Types
<1>2. i \in Referred
  BY <1>1 DEF Referred
<1>3. ASSUME NEW j \in Referred PROVE j = i
  <2>1. j \in 1 .. Len(koopa) /\ koopa[j].name = koopa[i].name
    BY <1>1, <1>3 DEF Referred
  <2>2. koopa[i].op \in {"decl", "fun"} <=> koopa[j].op \in {"decl", "fun"}
    BY <1>3 DEF Referred
  <2> QED BY <1>1, <2>1, <2>2, UniqueFollows DEF SymbolsUnique
<1>4. Referred = {i}
  BY <1>2, <1>3
<1>5. (CHOOSE j \in Referred : TRUE) = i
  BY <1>4
<1> QED BY <1>4, <1>5 DEF Reached

LEMMA ReachesThen == Inv' => UseReaches'
  BY Reaches, PTL

LEMMA NoneReached == used.op = "none" => Reached = 0
  BY DEF Reached

\* A use of a name reaches the declaration that the name means.
LEMMA UseRefines ==
  ASSUME Inv, Inv', NEW x \in Idents, DumpLVal(x) \/ DumpAssign(x) \/ DumpCall(x)
  PROVE  Lexical!Use(x)
<1>1. UNCHANGED <<tables, cur_symbol_table, saved, koopa, unused_koopa_var_count, declared>>
  BY DEF DumpLVal, DumpAssign, DumpCall, unchangedByUse
<1>2. UNCHANGED Env
  BY <1>1, EnvStays DEF Inv
<1>3. /\ Lexical!Visible(x)
      /\ \E tag \in {0, 1} :
           /\ tag = 1 <=> Lexical!Meaning(x).kind = "function"
           /\ \/ used' = Printed(x, tag)
              \/ /\ used' = NoUse /\ Printed(x, tag).op = "number"
                 /\ Lexical!Meaning(x).kind = "variable"
  BY DEF DumpLVal, DumpAssign, DumpCall, Means
<1>4. PICK tag \in {0, 1} :
        /\ tag = 1 <=> Lexical!Meaning(x).kind = "function"
        /\ \/ used' = Printed(x, tag)
           \/ /\ used' = NoUse /\ Printed(x, tag).op = "number"
              /\ Lexical!Meaning(x).kind = "variable"
  BY <1>3
<1>5. PICK b \in 1 .. Len(Blocks), symbol \in Symbols :
           /\ x \in DOMAIN tables[Blocks[b]].map
           /\ symbol = tables[Blocks[b]].map[x] /\ symbol.tag = tag
           /\ Lexical!Meaning(x) = [decl |-> symbol.decl, kind |-> KindOf(symbol)]
           /\ Printed(x, tag) = IF tag = 1 THEN Use("call", x, 0)
                                ELSE IF symbol.flag_is_const THEN Use("number", <<>>, symbol.decl)
                                ELSE Use("place", Append(x, symbol.koopa_var_count), 0)
  BY <1>3, <1>4, PrintedIs DEF Inv
<1>6. used' = Printed(x, tag)
  BY <1>4, <1>5 DEF KindOf, Use
<1>7. Lexical!Meaning(x).decl = symbol.decl
  BY <1>5
<1>8. UseReaches'
  BY ReachesThen
<1>9. Reached' = symbol.decl
  <2>1. CASE tag = 1
    <3>1. HasLine(koopa, ThisFunction, x, symbol, Blocks[b] = 1)
      <4>1. ~ IsConstant(symbol)
        BY <1>5, <2>1 DEF IsConstant
      <4> QED BY <1>5, <4>1, OpenIs DEF Inv, Names
    <3>2. PICK i \in 1 .. Len(koopa) :
            koopa[i].decl = symbol.decl /\ koopa[i].op \in {"decl", "fun"} /\ koopa[i].name = x
      BY <1>5, <2>1, <3>1 DEF HasLine
    <3>3. used'.op = "call" /\ used'.name = x
      BY <1>5, <1>6, <2>1 DEF Use
    <3>4. /\ i \in 1 .. Len(koopa') /\ koopa'[i].name = used'.name
          /\ used'.op = "call" /\ koopa'[i].op \in {"decl", "fun"}
      BY <1>1, <3>2, <3>3
    <3>5. Reached' = koopa'[i].decl
      BY <1>8, <3>4 DEF UseReaches
    <3> QED BY <1>1, <3>2, <3>5
  <2>2. CASE tag = 0 /\ symbol.flag_is_const
    BY <1>5, <1>6, <2>2 DEF Use, Reached
  <2>3. CASE tag = 0 /\ ~ symbol.flag_is_const
    <3>1. PICK i \in 1 .. Len(koopa) :
           /\ koopa[i].decl = symbol.decl /\ koopa[i].name = Append(x, symbol.koopa_var_count)
           /\ \/ koopa[i].op = "global"
              \/ koopa[i].op = "alloc" /\ koopa[i].in = ThisFunction
           /\ koopa[i].name # <<>> /\ Last(koopa[i].name) \in 1 .. unused_koopa_var_count - 1
      <4>1. /\ symbol.tag = 0 /\ ~ symbol.flag_is_const /\ x \in DOMAIN tables[Blocks[b]].map
            /\ symbol = tables[Blocks[b]].map[x] /\ Types /\ Names /\ b \in 1 .. Len(Blocks)
        BY <1>5, <2>3 DEF Inv
      <4> QED BY <1>5, <4>1, VariableLine, SMTT(60) DEF Inv
    <3>2. used'.op = "place" /\ used'.name = Append(x, symbol.koopa_var_count)
      BY <1>5, <1>6, <2>3 DEF Use
    <3>3. ThisFunction' = ThisFunction
      BY <1>1 DEF ThisFunction
    <3>4. /\ i \in 1 .. Len(koopa') /\ koopa'[i].name = used'.name /\ used'.op = "place"
          /\ \/ koopa'[i].op = "global"
             \/ koopa'[i].op = "alloc" /\ koopa'[i].in = ThisFunction'
      BY <1>1, <3>1, <3>2, <3>3
    <3>5. Reached' = koopa'[i].decl
      BY <1>8, <3>4 DEF UseReaches
    <3> QED BY <1>1, <3>1, <3>5
  <2> QED BY <2>1, <2>2, <2>3
<1> QED BY <1>1, <1>2, <1>3, <1>7, <1>9 DEF Lexical!Use

\* The alloc of a && or || is no name of the program's.
LEMMA LogicStutters ==
  ASSUME Inv, Inv', DumpLogicExp
  PROVE  UNCHANGED Lexical!vars
<1> DEFINE n == unused_koopa_var_count
           L == Len(koopa)
           line == [Line("alloc", <<"%temp_l_result", n>>, 0, "none") EXCEPT !.decl = 0]
<1>1. /\ koopa' = Append(koopa, line)
      /\ UNCHANGED <<tables, cur_symbol_table, saved, used, declared>>
  BY DEF DumpLogicExp
<1>2. UNCHANGED Env
  BY <1>1, EnvStays DEF Inv
<1>3. n \in Nat /\ n > 0
  BY Counters DEF CountersAreNumbers, Inv
<1>4. Grows(line)
  <2>1. <<"%temp_l_result", n>> \in Seq(Parts)
    <3>1. "%temp_l_result" \in Parts /\ n \in Parts
      BY <1>3 DEF Parts
    <3> QED BY <3>1
  <2>2. line \in Lines
    BY <2>1, LineType DEF Inv
  <2> QED BY <1>1, <2>2 DEF Grows
<1>5. line.op = "alloc" /\ Last(line.name) = n
  BY DEF Line, Last
<1> HIDE DEF line
<1>6. /\ L \in Nat /\ DOMAIN koopa = 1 .. L /\ DOMAIN koopa' = 1 .. L + 1
      /\ \A i \in 1 .. L : koopa'[i] = koopa[i]
      /\ koopa'[L + 1] = line /\ ThisFunction' = ThisFunction
  <2>1. /\ L \in Nat /\ Len(koopa') = L + 1
        /\ \A i \in 1 .. L : koopa'[i] = koopa[i]
        /\ koopa'[L + 1] = line /\ ThisFunction' = ThisFunction
    BY <1>4, <1>5, TextGrows DEF Inv
  <2>2. DOMAIN koopa = 1 .. Len(koopa) /\ DOMAIN koopa' = 1 .. Len(koopa')
    BY DEF Inv, Types
  <2> QED BY <2>1, <2>2
<1>7. CASE used.op \in {"none", "number"}
  BY <1>1, <1>2, <1>7 DEF Reached, Lexical!vars
<1>8. CASE used.op \in {"place", "call"}
  <2>1. ~ (used.op = "place" /\ line.name = used.name)
    BY <1>3, <1>5 DEF Inv, Names, UsedBefore
  <2>2. Referred' = Referred
    <3>1. \A i \in 1 .. L + 1 : i \in 1 .. L \/ i = L + 1
      BY <1>6
    <3>2. \A i \in 1 .. L : i \in 1 .. L + 1
      BY <1>6
    <3>3. L + 1 \notin Referred'
      BY <1>1, <1>5, <1>6, <1>8, <2>1 DEF Referred
    <3>4. ASSUME NEW i \in 1 .. L PROVE i \in Referred' <=> i \in Referred
      BY <1>1, <1>6, <3>2 DEF Referred
    <3>5. Referred \subseteq 1 .. L /\ Referred' \subseteq 1 .. L + 1
      BY <1>6 DEF Referred
    <3> HIDE DEF L
    <3> QED BY <3>1, <3>3, <3>4, <3>5
  <2>3. ASSUME NEW i \in Referred PROVE koopa'[i] = koopa[i]
    BY <1>6 DEF Referred
  <2>4. Reached' = Reached
    <3>1. CASE \E i \in Referred : Referred = {i}
      <4>1. PICK i \in Referred : Referred = {i}
        BY <3>1
      <4>2. (CHOOSE j \in Referred : TRUE) = i
        BY <4>1
      <4>3. Reached = koopa[i].decl /\ Reached' = koopa'[i].decl
        BY <1>1, <1>8, <2>2, <4>1, <4>2 DEF Reached
      <4> QED BY <2>3, <4>3
    <3>2. CASE ~ \E i \in Referred : Referred = {i}
      BY <1>1, <1>8, <2>2, <3>2 DEF Reached
    <3> QED BY <3>1, <3>2
  <2> QED BY <1>1, <1>2, <2>4 DEF Lexical!vars
<1> QED BY <1>7, <1>8 DEF Inv, Types, Uses

LEMMA OthersStutter ==
  ASSUME Inv, Inv', DumpEnd \/ VisitGlobalAlloc \/ VisitEnd \/ UNCHANGED vars
  PROVE  UNCHANGED Lexical!vars
<1>1. UNCHANGED <<tables, cur_symbol_table, saved, koopa, used, declared>>
  BY DEF DumpEnd, VisitGlobalAlloc, VisitEnd, vars
<1>2. UNCHANGED Env
  BY <1>1, EnvStays DEF Inv
<1>3. UNCHANGED Reached
  BY <1>1 DEF Reached, Referred, ThisFunction
<1> QED BY <1>1, <1>2, <1>3 DEF Lexical!vars

LEMMA RefinesInit == Init => Lexical!Init
<1> SUFFICES ASSUME Init PROVE Lexical!Init
  OBVIOUS
<1>1. Types
  BY TypeInit
<1> DEFINE f == [x \in Range(Library) |-> Function(CHOOSE i \in DOMAIN Library : Library[i] = x)]
<1>2. /\ cur_symbol_table = 1 /\ saved = <<>> /\ declared = Len(Library) /\ used = NoUse
      /\ tables[1].map = f
  <2>1. PICK father \in {NULL, Wild} : tables = <<[father |-> father, map |-> f]>>
    BY DEF Init
  <2> HIDE DEF f
  <2>2. tables[1].map = f
    BY <2>1
  <2> QED BY <2>2 DEF Init, Root
<1>3. Range(Library) = {Library[i] : i \in DOMAIN Library}
  BY DEF Range
<1>4. Len(Blocks) = 1 /\ Blocks[1] = 1
  BY <1>2 DEF Blocks
<1>5. Env = [i \in 1 .. 1 |-> Seen(tables[1].map)]
  <2>1. Env = [i \in 1 .. 1 |-> Seen(tables[Blocks[i]].map)]
    BY <1>1, <1>4, EnvSeen DEF EnvIsSeen
  <2>2. \A i \in 1 .. 1 : Seen(tables[Blocks[i]].map) = Seen(tables[1].map)
    BY <1>4
  <2> QED BY <2>1, <2>2, Zenon
<1> DEFINE entry(x) ==
             [decl |-> CHOOSE i \in DOMAIN Library : Library[i] = x, kind |-> "function"]
           g == [x \in {Library[i] : i \in DOMAIN Library} |-> entry(x)]
<1>6. Seen(tables[1].map) = g
  <2>1. \A k : Function(k).decl = k /\ KindOf(Function(k)) = "function"
    BY DEF Function, KindOf
  <2>2. /\ DOMAIN f = Range(Library)
        /\ \A x \in Range(Library) : f[x] = Function(CHOOSE i \in DOMAIN Library : Library[i] = x)
    OBVIOUS
  <2> HIDE DEF f
  <2>3. Seen(f) = [x \in Range(Library) |-> [decl |-> f[x].decl, kind |-> KindOf(f[x])]]
    BY <2>2 DEF Seen
  <2>4. \A x \in Range(Library) :
          [decl |-> f[x].decl, kind |-> KindOf(f[x])] = entry(x)
    BY <2>1, <2>2
  <2> HIDE DEF entry
  <2>5. Seen(f) = [x \in Range(Library) |-> entry(x)]
    BY <2>3, <2>4, Zenon
  <2> QED BY <1>2, <1>3, <2>5
<1>7. Reached = 0
  BY <1>2 DEF Reached, NoUse, Use
<1> HIDE DEF Init, g, f
<1>8. Env = <<g>>
  BY <1>5, <1>6
<1> QED BY <1>2, <1>7, <1>8 DEF Lexical!Init, g

LEMMA RefinesNext == Inv /\ Inv' /\ [Next]_vars => [Lexical!Next]_(Lexical!vars)
<1> SUFFICES ASSUME Inv, Inv', [Next]_vars PROVE [Lexical!Next]_(Lexical!vars)
  OBVIOUS
<1>0. Types /\ Types' /\ Scopes
  BY DEF Inv
<1>1. ASSUME NEW x \in Idents,
             DumpVarDef(x) \/ DumpVarDefInit(x) \/ DumpArrayDef(x) \/ DumpFParam(x)
      PROVE  Lexical!Declare(x, "variable")
  <2>1. PICK line : DeclaresVariable(x, line)
    BY <1>0, <1>1, VariableStep
  <2>2. /\ Inserts(x, Variate(FALSE, unused_koopa_var_count)) /\ declared' = declared + 1
        /\ used' = NoUse
    BY <2>1 DEF DeclaresVariable
  <2>3. /\ Variate(FALSE, unused_koopa_var_count).decl = declared + 1
        /\ KindOf(Variate(FALSE, unused_koopa_var_count)) = "variable"
    BY DEF Variate, KindOf
  <2>4. Env' = [Env EXCEPT ![1] =
                  Lexical!With(@, x, [decl |-> declared + 1, kind |-> "variable"])]
    BY <1>0, <2>2, <2>3, EnvInserts
  <2>5. Lexical!CanDeclare(x)
    BY <1>1 DEF DumpVarDef, DumpVarDefInit, DumpArrayDef, DumpFParam, DumpVar, MayDeclare
  <2>6. Reached' = 0
    BY <2>2 DEF Reached, NoUse, Use
  <2> QED BY <2>2, <2>4, <2>5, <2>6 DEF Lexical!Declare
<1>2. ASSUME NEW x \in Idents, DumpConstDef(x) PROVE Lexical!Declare(x, "constant")
  <2>1. /\ Inserts(x, Variate(TRUE, -1)) /\ declared' = declared + 1 /\ used' = NoUse
    BY <1>0, <1>2, DeclarationInserts DEF DumpConstDef
  <2>2. Variate(TRUE, -1).decl = declared + 1 /\ KindOf(Variate(TRUE, -1)) = "constant"
    BY DEF Variate, KindOf
  <2>3. Env' = [Env EXCEPT ![1] =
                  Lexical!With(@, x, [decl |-> declared + 1, kind |-> "constant"])]
    BY <1>0, <2>1, <2>2, EnvInserts
  <2>4. Lexical!CanDeclare(x)
    BY <1>2 DEF DumpConstDef, MayDeclare
  <2>5. Reached' = 0
    BY <2>1 DEF Reached, NoUse, Use
  <2> QED BY <2>1, <2>3, <2>4, <2>5 DEF Lexical!Declare
<1>3. ASSUME NEW x \in Idents, DumpFuncDef(x) PROVE Lexical!DefineFunction(x)
  <2>1. Lexical!CanDeclare(x) /\ declared' = declared + 1 /\ used' = NoUse
    BY <1>3 DEF DumpFuncDef
  <2>2. Reached' = 0
    BY <2>1 DEF Reached, NoUse, Use
  <2> QED BY <1>0, <1>3, <2>1, <2>2, EnvFunction DEF Lexical!DefineFunction
<1>4. ASSUME NEW x \in Idents, DumpLVal(x) \/ DumpAssign(x) \/ DumpCall(x) PROVE Lexical!Use(x)
  BY <1>4, UseRefines
<1>5. CASE DumpBlock
  <2>1. Len(Env) > 1 /\ UNCHANGED declared /\ used' = NoUse
    <3>1. ~ IsGlobal /\ UNCHANGED declared /\ used' = NoUse
      BY <1>5 DEF DumpBlock
    <3>2. saved # <<>>
      BY <1>0, <3>1, GlobalScope
    <3>3. Len(Blocks) = Len(saved) + 1 /\ Len(saved) \in Nat /\ Len(saved) # 0
      BY <1>0, <3>2, BlocksType DEF Types
    <3> QED BY <1>0, <3>1, <3>3, EnvSeen DEF EnvIsSeen
  <2>2. Reached' = 0
    BY <2>1 DEF Reached, NoUse, Use
  <2> QED BY <1>0, <1>5, <2>1, <2>2, EnvOpens DEF Lexical!OpenBlock, Lexical!Next
<1>6. CASE DumpBlockEnd
  <2>1. UNCHANGED declared /\ used' = NoUse
    BY <1>6 DEF DumpBlockEnd
  <2>2. Reached' = 0
    BY <2>1 DEF Reached, NoUse, Use
  <2> QED BY <1>0, <1>6, <2>1, <2>2, EnvCloses DEF Lexical!CloseBlock, Lexical!Next
<1>7. CASE DumpLogicExp
  BY <1>7, LogicStutters
<1>8. CASE DumpEnd \/ VisitGlobalAlloc \/ VisitEnd \/ UNCHANGED vars
  BY <1>8, OthersStutter
<1> QED BY <1>1, <1>2, <1>3, <1>4, <1>5, <1>6, <1>7, <1>8 DEF Next, Finished, Lexical!Next

\* The compiler's tables, and the numbers at the ends of its names, resolve every
\* name as the rule of the language does (Refines): each use prints the number or
\* the name that belongs to the innermost declaration, whatever was declared in
\* blocks that are closed.
THEOREM Resolution == Spec => Refines
<1>1. Inv /\ [Next]_vars => [Lexical!Next]_(Lexical!vars)
  BY InvNext, RefinesNext
<1> QED BY <1>1, Invariant, RefinesInit, PTL DEF Spec, Refines, Lexical!Spec
=============================================================================
