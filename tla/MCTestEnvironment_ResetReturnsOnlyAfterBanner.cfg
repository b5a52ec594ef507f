\* One environment, the code's 10 reset attempts, whole lines: a device that
\* does not boot in time on any attempt.
CONSTANTS
  None = None
  A = A
  Envs <- MCEnvs
  MaxLog = 0
  MaySplit = FALSE
  RESET_RETRIES = 10

SPECIFICATION EnvSpec

INVARIANT ResetReturnsOnlyAfterBanner
