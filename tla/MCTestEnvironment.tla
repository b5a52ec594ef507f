-------------------------- MODULE MCTestEnvironment --------------------------
(* Model of get_testlist and start_testcase on one environment for TLC.    *)
EXTENDS TestEnvironment

CONSTANT A   \* TestEnvironment.A

MCEnvs == {A}

=============================================================================
