CONSTANTS
  Immediates <- MCImmediates
  Programs <- MCPrograms
  Inputs <- MCInputs
SPECIFICATION Spec
INVARIANTS TypeOK OwnFrame OnlyCallsRefused
PROPERTIES Refines Ends
