SPECIFICATION Spec
CONSTANTS
  size = 3
  Byte <- MCByte
  Inputs <- MCInputs
  Lengths <- MCLengths
INVARIANT TypeOK
PROPERTY ImplementsQueue
