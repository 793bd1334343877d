SPECIFICATION Spec
CONSTANTS
  N = 2
  Arity <- MCArity
  Returns <- MCReturns
  Shapes <- MCShapes
  SizeOf <- MCSizeOf
  Dims = 1
  MaxLines <- MCMaxLines
  MaxNest = 2
INVARIANTS
  TypeOK
  SlotsInFrame
  SlotsApart
  CallsFit
  OperandsFound
