SPECIFICATION Spec
CONSTANTS
  AllOps = 2
  FewOps = 3
  Argument <- MCArgument
  Held <- MCHeld
  Answer <- MCAnswer
  Programs <- MCPrograms
  Exps <- MCExps
INVARIANTS
  TypeOK
  RegistersDenote
  ConstantsFold
  MemoryAgrees
