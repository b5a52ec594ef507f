----------------------------- MODULE CaseVerdict -----------------------------
(***************************************************************************)
(* What TestCase.run promises, without the polling loop: the monitors of   *)
(* the participating environments are started (A, then B for a dual case  *)
(* with two environments), each reports one result at most once, and the  *)
(* verdict is taken in one step as soon as every participant has reported *)
(* or one has reported a failure: the worse of A's and B's results, A's on *)
(* a tie (spec 4.5 and the max() contract of spec 8).  The one way out     *)
(* without a verdict is the decision taken while A has not reported, where *)
(* the code's max() raises.  Results keep arriving after the verdict: the  *)
(* monitor that was cancelled still reports.                               *)
(***************************************************************************)
EXTENDS TestResult

CONSTANTS A, B, Envs

VARIABLES
  paired,    \* a dual case with a second environment
  started,   \* the environments whose monitor was started
  result,    \* result[e]: what e's monitor reported, None before
  phase,     \* "start", "poll", "done", "raised"
  verdict    \* the recorded TestResult, None before

verdictVars == <<paired, started, result, phase, verdict>>

Participants == IF paired THEN {A, B} ELSE {A}

\* The worse of two results; a missing second one counts for nothing.
Worse(x, y) == IF y = None \/ y.status <= x.status THEN x ELSE y

\* The polling may stop: all participants reported, or one failed.
Ready ==
  \/ \A e \in Participants : result[e] # None
  \/ \E e \in Participants : result[e] # None /\ IsFailure(result[e])

VerdictInit ==
  /\ paired \in BOOLEAN
  /\ started = {}
  /\ result = [e \in Envs |-> None]
  /\ phase = "start"
  /\ verdict = None

Start(e) ==
  /\ phase = "start"
  /\ e \in Participants \ started
  /\ e = B => A \in started
  /\ started' = started \cup {e}
  /\ phase' = IF started' = Participants THEN "poll" ELSE "start"
  /\ UNCHANGED <<paired, result, verdict>>

\* A started monitor reports, once; before, during or after the verdict.
Report(e) ==
  /\ e \in started
  /\ result[e] = None
  /\ result'[e] \in Results
  /\ \A f \in Envs \ {e} : result'[f] = result[f]
  /\ UNCHANGED <<paired, started, phase, verdict>>

Decide ==
  /\ phase = "poll" /\ Ready
  /\ result[A] # None
  /\ verdict' = IF paired THEN Worse(result[A], result[B]) ELSE result[A]
  /\ phase' = "done"
  /\ UNCHANGED <<paired, started, result>>

Raise ==
  /\ phase = "poll" /\ Ready
  /\ result[A] = None
  /\ phase' = "raised"
  /\ UNCHANGED <<paired, started, result, verdict>>

VerdictNext == (\E e \in Envs : Start(e) \/ Report(e)) \/ Decide \/ Raise

VerdictSpec == VerdictInit /\ [][VerdictNext]_verdictVars

====
