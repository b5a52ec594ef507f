\* Every file of up to MaxLen tokens.  The program ends: a state without
\* successor is its exit.
CONSTANTS
  Names = {"Index", "style"}
  LowerName <- MCLowerName
  MaxLen = 4
  None = None

SPECIFICATION EmbedSpec

INVARIANT
  EscapeRoundTrip

CHECK_DEADLOCK FALSE
