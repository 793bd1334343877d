SPECIFICATION Spec
CONSTANTS
  MaxValues <- MCMaxValues
  MaxOpen <- MCMaxOpen
INVARIANTS
  TypeOK
  ListsAreSource
  OwnVectors
  OwnMembers
