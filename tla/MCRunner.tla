------------------------------ MODULE MCRunner ------------------------------
(* run() for TLC: a dual test case followed by a solo one, on one or two   *)
(* environments; model values for None and the environment tags.          *)
EXTENDS Runner

MCEnvs == {A, B}

MCCases == 1..2

MCMonIds == MCCases \X MCEnvs

MCKind == <<"dual", "solo">>

=============================================================================
