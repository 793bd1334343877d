CONSTANTS
  Immediates <- MCImmediates
  Programs <- MCRefused
  Inputs <- MCInputs
SPECIFICATION Spec
INVARIANT KindsExpected
