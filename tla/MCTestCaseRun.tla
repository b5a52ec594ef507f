---------------------------- MODULE MCTestCaseRun ----------------------------
(* Model of TestCase.run for TLC: two environments, model values for None  *)
(* and the environment tags, a small bound on log lines.                   *)
EXTENDS TestCaseRun

MCEnvs == {A, B}

MCCases == {1}

MCMonIds == MCCases \X MCEnvs

=============================================================================
