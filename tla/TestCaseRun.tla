----------------------------- MODULE TestCaseRun ----------------------------
(***************************************************************************)
(* TestCase.run of tests/test_runner.py: one test case run on environment  *)
(* A, or, for a dual case with a second environment configured, on A and B *)
(* at once.  The main thread starts a TestMonitor per environment and      *)
(* polls their result slots every 0.1s, cancels the peer of a monitor that *)
(* reports a failure, and records max() of the two results.                *)
(*                                                                         *)
(* Each read of a result slot in the polling loop is a step of its own:    *)
(* the monitor threads may set their results between any two of them.      *)
(* The monitor of environment e for case k has the identifier <<k, e>>.    *)
(***************************************************************************)
EXTENDS TestMonitor

CONSTANTS
  A, B,    \* TestEnvironment.A and TestEnvironment.B
  Cases    \* the indices of the test cases

ASSUME Envs = {A, B} /\ MonIds = Cases \X Envs

VARIABLES
  paired,  \* env_b was passed: a dual case with two environments
  orch     \* the main thread: case, pc, the first max() operand x, the verdict

caseVars == <<dev, logs, port, mon, portTimeout, paired, orch>>

\* mon_a / mon_b of the case being run
MonId(e) == <<orch.case, e>>
Mon(e) == mon[MonId(e)]

Participants == IF paired THEN {A, B} ELSE {A}

OrchPcs == {"startA", "startB", "chk", "chkB", "failA", "failB",
            "max", "maxB", "done", "crashed"}

Orchs == [case : Cases, pc : OrchPcs, x : Results \cup {None},
          res : Results \cup {None}]

CaseTypeOK ==
  /\ DeviceTypeOK
  /\ MonitorTypeOK
  /\ paired \in BOOLEAN
  /\ orch \in Orchs
  \* the verdict passed to counts[res.status] is a TestResult
  /\ orch.pc = "done" => orch.res \in Results

\* The main thread entering TestCase.run for case k.
EnterCase(k) == [case |-> k, pc |-> "startA", x |-> None, res |-> None]

CaseInit ==
  /\ dev = [e \in Envs |-> "idle"]
  /\ logs = [e \in Envs |-> 0]
  /\ port = [e \in Envs |-> <<>>]
  /\ mon = [m \in MonIds |-> NoMonitor(m[2])]
  /\ portTimeout = [e \in Envs |-> None]
  /\ paired \in BOOLEAN
  /\ \E k \in Cases : orch = EnterCase(k)

\* env.start_testcase(self): after the reset and prompt handshake (modelled
\* in TestEnvironment) the command is written, the device starts the case,
\* and a TestMonitor on the port is returned.
StartTestcase(e) ==
  /\ DevCommand(e)
  /\ mon' = [mon EXCEPT ![MonId(e)] = NewMonitor(e)]
  /\ UNCHANGED <<port, portTimeout>>

RunStartA ==
  /\ orch.pc = "startA"
  /\ StartTestcase(A)
  /\ orch' = [orch EXCEPT !.pc = IF paired THEN "startB" ELSE "chk"]
  /\ UNCHANGED paired

RunStartB ==
  /\ orch.pc = "startB"
  /\ StartTestcase(B)
  /\ orch' = [orch EXCEPT !.pc = "chk"]
  /\ UNCHANGED paired

\* Bug variant: leaving the loop whenever there is no mon_b.
RunCheckASoloBreak ==
  /\ orch.pc = "chk"
  /\ orch' = [orch EXCEPT !.pc = CASE ~paired               -> "max"
                                   [] Mon(A).result = None -> "failA"
                                   [] OTHER                -> "chkB"]
  /\ UNCHANGED <<dev, logs, port, mon, portTimeout, paired>>

\* if mon_a.get_result() and (mon_b is None or mon_b.get_result()): break
RunCheckA ==
  /\ orch.pc = "chk"
  /\ orch' = [orch EXCEPT !.pc = CASE Mon(A).result = None -> "failA"
                                   [] ~paired             -> "max"
                                   [] OTHER               -> "chkB"]
  /\ UNCHANGED <<dev, logs, port, mon, portTimeout, paired>>

\* Bug variant: the second test reads mon_a's slot again.
RunCheckBReadsA ==
  /\ orch.pc = "chkB"
  /\ orch' = [orch EXCEPT !.pc = IF Mon(A).result # None THEN "max" ELSE "failA"]
  /\ UNCHANGED <<dev, logs, port, mon, portTimeout, paired>>

RunCheckB ==
  /\ orch.pc = "chkB"
  /\ orch' = [orch EXCEPT !.pc = IF Mon(B).result # None THEN "max" ELSE "failA"]
  /\ UNCHANGED <<dev, logs, port, mon, portTimeout, paired>>

\* try: if mon_a.get_result().is_failure(): mon_b.cancel(); break
\* except AttributeError: pass   (mon_a's result None, or mon_b None)
RunFailA ==
  LET r == Mon(A).result IN
  /\ orch.pc = "failA"
  /\ IF r # None /\ IsFailure(r) /\ paired
       THEN /\ Cancel(MonId(B))
            /\ orch' = [orch EXCEPT !.pc = "max"]
       ELSE /\ orch' = [orch EXCEPT !.pc = "failB"]
            /\ UNCHANGED mon
  /\ UNCHANGED <<dev, logs, port, portTimeout, paired>>

\* try: if mon_b.get_result().is_failure(): mon_a.cancel(); break
\* except AttributeError: pass;  then time.sleep(0.1) and poll again
RunFailB ==
  LET r == Mon(B).result IN
  /\ orch.pc = "failB"
  /\ IF paired /\ r # None /\ IsFailure(r)
       THEN /\ Cancel(MonId(A))
            /\ orch' = [orch EXCEPT !.pc = "max"]
       ELSE /\ orch' = [orch EXCEPT !.pc = "chk"]
            /\ UNCHANGED mon
  /\ UNCHANGED <<dev, logs, port, portTimeout, paired>>

\* res = max(mon_a.get_result(), mon_b.get_result()) when mon_b exists,
\* else res = mon_a.get_result(); the operands are read left to right.
RunMaxA ==
  /\ orch.pc = "max"
  /\ orch' = IF paired THEN [orch EXCEPT !.x = Mon(A).result, !.pc = "maxB"]
                       ELSE [orch EXCEPT !.res = Mon(A).result, !.pc = "done"]
  /\ UNCHANGED <<dev, logs, port, mon, portTimeout, paired>>

RunMaxB ==
  LET y == Mon(B).result IN
  /\ orch.pc = "maxB"
  /\ orch' = IF PyMaxRaises(orch.x, y) THEN [orch EXCEPT !.pc = "crashed"]
             ELSE [orch EXCEPT !.res = PyMax(orch.x, y), !.pc = "done"]
  /\ UNCHANGED <<dev, logs, port, mon, portTimeout, paired>>

\* The polling loop and the verdict, after the monitors are started.
Poll == RunCheckA \/ RunCheckB \/ RunFailA \/ RunFailB \/ RunMaxA \/ RunMaxB

Orchestrator == RunStartA \/ RunStartB \/ Poll

\* The main thread has returned or died, and the process has exited after
\* its non-daemon monitor threads.
CaseFinished ==
  /\ orch.pc \in {"done", "crashed"}
  /\ \A m \in MonIds : mon[m].pc \in {"idle", "done"}

CaseTerminated == CaseFinished /\ UNCHANGED caseVars

DeviceAndPort ==
  /\ \E e \in Envs : DeviceNext(e)
  /\ UNCHANGED <<mon, portTimeout, paired, orch>>

MonitorThread(m) == MonitorStep(m) /\ UNCHANGED <<paired, orch>>

Clock(m) == Tick(m) /\ UNCHANGED <<paired, orch>>

CaseNext ==
  \/ Orchestrator
  \/ \E m \in MonIds : MonitorThread(m) \/ Clock(m)
  \/ DeviceAndPort
  \/ CaseTerminated

\* Threads are scheduled and time passes; a device may stay silent forever.
CaseFairness ==
  /\ WF_caseVars(Orchestrator)
  /\ \A m \in MonIds : WF_caseVars(MonitorThread(m)) /\ WF_caseVars(Clock(m))

CaseSpec == CaseInit /\ [][CaseNext]_caseVars /\ CaseFairness

(***************************************************************************)
(* Refinement: the polling loop, with its reads of the result slots spread *)
(* over many steps, takes the verdict CaseVerdict takes in one.  The       *)
(* decision is the step that records res (RunMaxA solo, RunMaxB dual);     *)
(* max() raises when A's slot was None as its first operand was read.      *)
(***************************************************************************)
Verdict == INSTANCE CaseVerdict WITH
  started <- {e \in Envs : Mon(e).pc # "idle"},
  result  <- [e \in Envs |-> Mon(e).result],
  phase   <- CASE orch.pc \in {"startA", "startB"}           -> "start"
               [] orch.pc = "done"                          -> "done"
               [] orch.pc = "crashed"                       -> "raised"
               [] orch.pc = "maxB" /\ orch.x = None         -> "raised"
               [] OTHER                                     -> "poll",
  verdict <- orch.res

(***************************************************************************)
(* Properties                                                              *)
(***************************************************************************)

\* TestCase.run implements CaseVerdict: whatever the monitor threads do
\* between the loop's separate reads of mon_a's and mon_b's slots, the
\* loop stops only once every participant reported or one failed, and the
\* recorded result is the worse of the two results as they are (A's on a
\* tie), so no failure is masked and no result is taken from a stale read.
CaseVerdictRefined == Verdict!VerdictSpec

\* A case in which every participating device printed its PASS line is
\* never recorded as a failure: a verdict line read in two pieces (the
\* readline timeout expiring inside the line), the deadline and the
\* cross-cancel may cost the pass, but never turn it into Failed or Error.
PassingCaseNeverFails ==
  (orch.pc = "done" /\ \A e \in Participants : dev[e] = "passed")
    => ~IsFailure(orch.res)

\* Every test case run ends: the main thread returns (or dies) and every
\* monitor thread it started exits, whatever the devices print or withhold.
CaseTermination == <>CaseFinished

\* TestCase.run never dies with an exception: a failure reported by B while
\* A is still running is recorded, not raised out of max().
NoUncaughtTypeError == orch.pc # "crashed"

\* A device that crashes and reboots during its test case (its monitor reads
\* the test runner banner) makes the case a failure (spec 4.3, 7).
CrashedCaseFails ==
  (orch.pc = "done" /\ \E e \in Participants : "banner" \in Mon(e).seen)
    => IsFailure(orch.res)

=============================================================================
