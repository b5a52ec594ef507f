------------------------------- MODULE Runner -------------------------------
(***************************************************************************)
(* run() and the tail of main() in tests/test_runner.py: every test case   *)
(* of the list is run in turn, through TestEnvironment.start_testcase and  *)
(* TestCase.run, and the results are tallied into the exit status.         *)
(*                                                                         *)
(* This composes the three other parts on the same serial ports: the main  *)
(* thread's start_testcase handshake (TestEnvironment, variable host), the *)
(* polling loop of each case (TestCaseRun, variable orch), and the monitor *)
(* threads (TestMonitor, variable mon), one per (case, environment).  A    *)
(* monitor is never joined: it may still be reading its port, or still     *)
(* about to restore the port's timeout, while the next case resets the     *)
(* device on that port.                                                    *)
(*                                                                         *)
(* The model starts after get_testlist() has returned on A (and on B):     *)
(* the devices sit at their prompts with empty receive buffers.            *)
(***************************************************************************)
EXTENDS FiniteSets, TestCaseRun, TestEnvironment

CONSTANT Kind   \* Kind[k]: the case_type of test case k, "solo" or "dual"

ASSUME /\ DOMAIN Kind = Cases
       /\ Cases = 1..Cardinality(Cases)
       /\ \A k \in Cases : Kind[k] \in {"solo", "dual"}

NumTests == Cardinality(Cases)

VARIABLES
  rpc,       \* the main thread: "cases" (head of run()'s loop), "case"
             \* (inside test.run), "call" (inside start_testcase), "exit"
  caseIdx,   \* the position of the next test in `cases`
  counts,    \* counts[status]: the tally of run()
  failures,  \* run()'s failures flag
  envB,      \* env_b is not None: --type is not solo
  exitCode   \* the process exit status, None while running

runnerVars == <<rpc, caseIdx, counts, failures, envB, exitCode>>

vars == <<dev, logs, port, portTimeout, mon, paired, orch, host, runnerVars>>

RunnerTypeOK ==
  /\ CaseTypeOK
  /\ EnvironmentTypeOK
  /\ rpc \in {"cases", "case", "call", "exit"}
  /\ caseIdx \in 1..NumTests + 1
  /\ counts \in [Statuses -> 0..NumTests]
  /\ failures \in BOOLEAN
  /\ envB \in BOOLEAN
  /\ exitCode \in {None, 0, 1, 2}

\* The environment between calls: get_testlist has returned.
HostIdle == [Call(A, "list") EXCEPT !.pc = "ok"]

RunnerInit ==
  /\ dev = [e \in Envs |-> "idle"]
  /\ logs = [e \in Envs |-> 0]
  /\ port = [e \in Envs |-> <<>>]
  /\ portTimeout = [e \in Envs |-> None]
  /\ mon = [m \in MonIds |-> NoMonitor(m[2])]
  /\ paired = FALSE
  /\ orch = EnterCase(1)
  /\ host = HostIdle
  /\ rpc = "cases"
  /\ caseIdx = 1
  /\ counts = [s \in Statuses |-> 0]
  /\ failures = FALSE
  /\ envB \in BOOLEAN
  /\ exitCode = None

\* Bug variant: the flag overwritten by each result.
TallyOverwrite(res) ==
  /\ counts' = [counts EXCEPT ![res.status] = @ + 1]
  /\ failures' = IsFailure(res)
  /\ caseIdx' = caseIdx + 1

\* counts[res.status] += 1; failures = failures or res.is_failure()
Tally(res) ==
  /\ counts' = [counts EXCEPT ![res.status] = @ + 1]
  /\ failures' = (failures \/ IsFailure(res))
  /\ caseIdx' = caseIdx + 1

\* A dual case without env_b is Skipped without touching a device.
SkipCase ==
  /\ rpc = "cases"
  /\ caseIdx \in Cases
  /\ Kind[caseIdx] = "dual" /\ ~envB
  /\ Tally(TestResultOf(SKIPPED, "Dual test case skipped"))
  /\ UNCHANGED <<dev, logs, port, portTimeout, mon, paired, orch, host,
                 rpc, envB, exitCode>>

\* test.run(env_a, env_b) for a dual case, test.run(env_a) for a solo one.
EnterRun ==
  /\ rpc = "cases"
  /\ caseIdx \in Cases
  /\ Kind[caseIdx] = "solo" \/ envB
  /\ orch' = EnterCase(caseIdx)
  /\ paired' = (Kind[caseIdx] = "dual")
  /\ rpc' = "case"
  /\ UNCHANGED <<dev, logs, port, portTimeout, mon, host,
                 caseIdx, counts, failures, envB, exitCode>>

\* mon_a = env_a.start_testcase(self); mon_b = env_b.start_testcase(self)
CallStart ==
  /\ rpc = "case"
  /\ orch.pc \in {"startA", "startB"}
  /\ host' = Call(IF orch.pc = "startA" THEN A ELSE B, "start")
  /\ rpc' = "call"
  /\ UNCHANGED <<dev, logs, port, portTimeout, mon, paired, orch,
                 caseIdx, counts, failures, envB, exitCode>>

\* The handshake: reset(), wait for the prompt, write the command.
Handshake ==
  /\ rpc = "call"
  /\ EnvironmentStep
  /\ UNCHANGED <<mon, paired, orch, runnerVars>>

\* return TestMonitor(self._port, self._instance): its thread starts.
StartReturns ==
  /\ rpc = "call"
  /\ host.pc = "ok"
  /\ mon' = [mon EXCEPT ![MonId(host.env)] = NewMonitor(host.env)]
  /\ orch' = [orch EXCEPT !.pc = IF orch.pc = "startA" /\ paired
                                   THEN "startB" ELSE "chk"]
  /\ rpc' = "case"
  /\ UNCHANGED <<dev, logs, port, portTimeout, paired, host,
                 caseIdx, counts, failures, envB, exitCode>>

\* TestRunnerError leaves start_testcase and main(): print(e); sys.exit(2)
StartRaises ==
  /\ rpc = "call"
  /\ host.pc = "error"
  /\ rpc' = "exit"
  /\ exitCode' = 2
  /\ UNCHANGED <<dev, logs, port, portTimeout, mon, paired, orch, host,
                 caseIdx, counts, failures, envB>>

\* The polling loop and max() of TestCase.run.
CasePoll ==
  /\ rpc = "case"
  /\ Poll
  /\ UNCHANGED <<host, runnerVars>>

\* test.run returned res: it is tallied and the loop goes on.
RecordResult ==
  /\ rpc = "case"
  /\ orch.pc = "done"
  /\ Tally(orch.res)
  /\ rpc' = "cases"
  /\ UNCHANGED <<dev, logs, port, portTimeout, mon, paired, orch, host,
                 envB, exitCode>>

\* The TypeError of max() is not a TestRunnerError: a traceback, status 1.
CaseRaises ==
  /\ rpc = "case"
  /\ orch.pc = "crashed"
  /\ rpc' = "exit"
  /\ exitCode' = 1
  /\ UNCHANGED <<dev, logs, port, portTimeout, mon, paired, orch, host,
                 caseIdx, counts, failures, envB>>

\* return failures == 0;  sys.exit(0 if run(...) else 1)
RunReturns ==
  /\ rpc = "cases"
  /\ caseIdx \notin Cases
  /\ rpc' = "exit"
  /\ exitCode' = IF failures THEN 1 ELSE 0
  /\ UNCHANGED <<dev, logs, port, portTimeout, mon, paired, orch, host,
                 caseIdx, counts, failures, envB>>

MainThread ==
  \/ SkipCase \/ EnterRun \/ CallStart \/ Handshake \/ StartReturns
  \/ StartRaises \/ CasePoll \/ RecordResult \/ CaseRaises \/ RunReturns

RunnerMonitor(m) == MonitorStep(m) /\ UNCHANGED <<paired, orch, host, runnerVars>>

RunnerClock(m) == Tick(m) /\ UNCHANGED <<paired, orch, host, runnerVars>>

RunnerDevice(e) ==
  /\ DeviceNext(e)
  /\ UNCHANGED <<portTimeout, mon, paired, orch, host, runnerVars>>

\* The interpreter exits once main() is over and every non-daemon monitor
\* thread has returned.
ProcessExited ==
  /\ rpc = "exit"
  /\ \A m \in MonIds : mon[m].pc \in {"idle", "done"}

RunnerNext ==
  \/ MainThread
  \/ \E m \in MonIds : RunnerMonitor(m) \/ RunnerClock(m)
  \/ \E e \in Envs : RunnerDevice(e)
  \/ ProcessExited /\ UNCHANGED vars

\* Threads are scheduled and time passes; a device may stay silent forever.
RunnerFairness ==
  /\ WF_vars(MainThread)
  /\ \A m \in MonIds : WF_vars(RunnerMonitor(m)) /\ WF_vars(RunnerClock(m))

RunnerSpec == RunnerInit /\ [][RunnerNext]_vars /\ RunnerFairness

(***************************************************************************)
(* Properties                                                              *)
(***************************************************************************)

\* The exit status is 0 exactly when run() went through the whole list and
\* no case was tallied Failed or Errored (spec 6: 0 = all executed cases
\* passed or were skipped): a failure of an early case is never forgotten
\* by later passes, skipped dual cases do not count as failures, and an
\* exception never exits 0.
ExitStatusSound ==
  exitCode # None =>
    (exitCode = 0 <=>
       caseIdx \notin Cases /\ counts[FAILED] = 0 /\ counts[ERROR] = 0)

=============================================================================
