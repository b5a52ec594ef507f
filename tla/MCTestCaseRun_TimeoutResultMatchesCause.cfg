\* One dual test case; no log lines, whole lines only: the deadline of one
\* monitor and the failure of the other are enough.
CONSTANTS
  None = None
  A = A
  B = B
  Envs <- MCEnvs
  MonIds <- MCMonIds
  Cases <- MCCases
  MaxLog = 0
  MaySplit = FALSE

SPECIFICATION CaseSpec

INVARIANT TimeoutResultMatchesCause
