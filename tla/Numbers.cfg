CONSTANTS
  IntMax <- MCIntMax
  MaxDigits <- MCMaxDigits
SPECIFICATION Spec
INVARIANTS TypeOK NumberArrives
