\* One environment, the code's 10 reset attempts; a device that may boot
\* late, never, or stall before a line terminator, and that may be running
\* a test when the runner starts.
CONSTANTS
  None = None
  A = A
  Envs <- MCEnvs
  MaxLog = 1
  MaySplit = TRUE
  RESET_RETRIES = 10

SPECIFICATION EnvSpec

INVARIANT EnvTypeOK

PROPERTIES
  CommandAtPrompt
  EnvTermination
