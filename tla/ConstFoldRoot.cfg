SPECIFICATION Spec
CONSTANTS
  AllOps = 1
  FewOps = 2
  Argument <- MCArgument
  Held <- MCHeld
  Answer <- MCAnswer
  Programs <- MCPrograms
  Exps <- MCExps
INVARIANTS
  GlobalsAreData
