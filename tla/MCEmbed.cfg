\* Every file of up to MaxLen tokens.  The program ends: a state without
\* successor is its exit.
CONSTANTS
  Names = {"Index", "style"}
  LowerName <- MCLowerName
  MaxLen = 5
  None = None

SPECIFICATION EmbedSpec

INVARIANTS
  EmbedTypeOK
  PartsPartition

CHECK_DEADLOCK FALSE
