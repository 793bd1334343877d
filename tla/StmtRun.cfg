SPECIFICATION RunSpec
CONSTANTS
  BodySize = 3
  ControlSize = 4
  Exps <- MCExps
  Stmts <- MCStmts
  Blocks <- MCBlocks
  Programs <- MCPrograms
  Values <- MCValues
INVARIANTS
  TypeOK
  BlocksWellFormed
  RetFlagExact
  LabelsUnique
  BranchesLand
  OperandsDefined
  SameEvents
PROPERTIES
  KeepsPace
