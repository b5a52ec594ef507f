\* Every choice of --elf and --port, stdin a terminal or not, up to three
\* lines from the six sample lines.  The program ends: a state without
\* successor is its exit.
CONSTANTS
  Lines <- MCLines
  MaxLines = 3
  Unbound = Unbound
  None = None

SPECIFICATION FilterSpec

INVARIANTS
  FilterTypeOK
  EchoRestored

CHECK_DEADLOCK FALSE
