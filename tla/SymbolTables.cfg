CONSTANTS
  Idents <- MCIdents
  Library <- MCLibrary
  Lengths <- MCLengths
  MaxVars = 2
  MaxTables = 4
SPECIFICATION Spec
INVARIANTS TypeOK FathersAreOpen SymbolsUnique DataInOrder
PROPERTIES Refines
