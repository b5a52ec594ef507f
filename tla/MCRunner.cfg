\* A dual case then a solo case, in solo or dual mode; devices print no
\* log lines and deliver whole lines; one reset attempt per call.
\* The process may hang for good (see RunnerTermination), so a state with
\* no successor is a possible end of this program, not a modelling error.
CONSTANTS
  None = None
  A = A
  B = B
  Envs <- MCEnvs
  Cases <- MCCases
  MonIds <- MCMonIds
  Kind <- MCKind
  MaxLog = 0
  MaySplit = FALSE
  RESET_RETRIES = 1

SPECIFICATION RunnerSpec

INVARIANTS
  RunnerTypeOK
  ExitStatusSound

CHECK_DEADLOCK FALSE
