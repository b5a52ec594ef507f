\* One test case, solo or dual, devices print no log lines and always
\* deliver whole lines: the shortest setting in which NoUncaughtTypeError can fail.
CONSTANTS
  None = None
  A = A
  B = B
  Envs <- MCEnvs
  MonIds <- MCMonIds
  Cases <- MCCases
  MaxLog = 0
  MaySplit = FALSE

SPECIFICATION CaseSpec

INVARIANT NoUncaughtTypeError
