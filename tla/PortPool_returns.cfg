CONSTANTS
  WordBits = 16
  Words = 2
  Recycles = FALSE
SPECIFICATION Spec
PROPERTIES AlwaysReturns
