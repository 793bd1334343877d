CONSTANTS
  IntMax <- MCIntMax
  MaxDigits <- MCMaxDigits
SPECIFICATION Spec
INVARIANT IntsPrinted
