\* One test case, solo or dual; devices print up to one log line and may
\* stall before a line terminator.
CONSTANTS
  None = None
  A = A
  B = B
  Envs <- MCEnvs
  MonIds <- MCMonIds
  Cases <- MCCases
  MaxLog = 1
  MaySplit = TRUE

SPECIFICATION CaseSpec

INVARIANTS
  CaseTypeOK
  PassingCaseNeverFails

PROPERTIES
  CaseTermination
  CaseVerdictRefined
