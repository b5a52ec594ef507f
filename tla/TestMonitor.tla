----------------------------- MODULE TestMonitor ----------------------------
(***************************************************************************)
(* TestMonitor of tests/test_runner.py: a thread started for each running  *)
(* (test case, environment) that reads the environment's serial port line *)
(* by line and classifies the output into a TestResult.                    *)
(*                                                                         *)
(* mon[m] holds the monitor object m and the program counter of its        *)
(* thread.  `late` stands for `time.time() >= start_time +                 *)
(* TESTCASE_TIMEOUT`: time is not counted, the deadline passes in a Tick   *)
(* step at any moment after the thread starts.  `seen` is a history        *)
(* variable: the kinds of lines the thread has read, and `stop` another:   *)
(* why the while loop ended ("cancel" or "deadline"), None before.        *)
(***************************************************************************)
EXTENDS TestDevice

CONSTANT MonIds   \* the monitor objects the runner may create

VARIABLE mon   \* mon[m]: state of monitor m and of its thread

MonPcs == {"idle", "start", "loop", "read", "final", "finally", "done"}

Monitors == [env : Envs, pc : MonPcs, cancelled : BOOLEAN, late : BOOLEAN,
             result : Results \cup {None}, seen : SUBSET Bodies,
             stop : {None, "cancel", "deadline"}]

\* A monitor not yet constructed.
NoMonitor(e) == [env |-> e, pc |-> "idle", cancelled |-> FALSE, late |-> FALSE,
                 result |-> None, seen |-> {}, stop |-> None]

\* TestMonitor.__init__: the fields, then self._thread.start().
NewMonitor(e) == [NoMonitor(e) EXCEPT !.pc = "start"]

MonitorTypeOK == mon \in [MonIds -> Monitors]

(***************************************************************************)
(* Line classification in _monitorThread.  The line is readline() decoded  *)
(* but not stripped, so it still carries its terminator.                   *)
(***************************************************************************)
EndsWithPass(line) == line.body = "pass" /\ line.eol = CRLF   \* ":PASS\r\n"
ContainsFail(line) == line.body = "fail"                       \* ":FAIL:"
IsBanner(line)     == line.body = "banner" /\ line.eol = ""    \* == BANNER

Classify(line) ==
  CASE EndsWithPass(line) -> TestResultOf(PASSED, "Test passed.")
    [] ContainsFail(line) -> TestResultOf(FAILED, "fail line")
    [] IsBanner(line)     -> TestResultOf(ERROR, "Test caused crash and reset.")
    [] OTHER              -> None

\* The thread starts: start_time is taken and the port timeout shortened.
MonStart(m) ==
  LET e == mon[m].env IN
  /\ mon[m].pc = "start"
  /\ portTimeout' = [portTimeout EXCEPT ![e] = SHORT]
  /\ mon' = [mon EXCEPT ![m].pc = "loop"]
  /\ UNCHANGED <<dev, logs, port>>

\* Bug variant: the loop without its deadline.
MonLoopNoDeadline(m) ==
  /\ mon[m].pc = "loop"
  /\ mon' = [mon EXCEPT ![m].pc = IF ~mon[m].cancelled THEN "read" ELSE "final",
                        ![m].stop = IF ~mon[m].cancelled THEN @ ELSE "cancel"]
  /\ UNCHANGED <<dev, logs, port, portTimeout>>

\* while not self._cancelled and time.time() < start_time + TESTCASE_TIMEOUT
MonLoop(m) ==
  /\ mon[m].pc = "loop"
  /\ mon' = [mon EXCEPT ![m].pc =
               IF ~mon[m].cancelled /\ ~mon[m].late THEN "read" ELSE "final",
                        ![m].stop =
               IF ~mon[m].cancelled /\ ~mon[m].late THEN @
               ELSE IF mon[m].cancelled THEN "cancel" ELSE "deadline"]
  /\ UNCHANGED <<dev, logs, port, portTimeout>>

\* readline(): a line if one is buffered; "" (continue) if the buffer stays
\* empty for the port's timeout; blocked while the timeout is None.
MonRead(m) ==
  LET e == mon[m].env IN
  /\ mon[m].pc = "read"
  /\ \/ /\ port[e] = <<>>
        /\ portTimeout[e] = SHORT
        /\ mon' = [mon EXCEPT ![m].pc = "loop"]
        /\ UNCHANGED port
     \/ /\ port[e] # <<>>
        /\ LET line == Head(port[e])
               r    == Classify(line)
           IN  mon' = [mon EXCEPT ![m].seen = @ \cup {line.body},
                                  ![m].result = r,
                                  ![m].pc = IF r = None THEN "loop" ELSE "finally"]
        /\ port' = [port EXCEPT ![e] = Tail(@)]
  /\ UNCHANGED <<dev, logs, portTimeout>>

\* Bug variant: the two outcomes of the final test swapped.
MonFinalSwapped(m) ==
  /\ mon[m].pc = "final"
  /\ mon' = [mon EXCEPT ![m].result =
               IF mon[m].cancelled THEN TestResultOf(CANCELLED, "Cancelled")
                                   ELSE TestResultOf(ERROR, "Test timed out"),
                        ![m].pc = "finally"]
  /\ UNCHANGED <<dev, logs, port, portTimeout>>

\* After the loop: Cancelled on the deadline, Error when cancel() was called.
MonFinal(m) ==
  /\ mon[m].pc = "final"
  /\ mon' = [mon EXCEPT ![m].result =
               IF ~mon[m].cancelled THEN TestResultOf(CANCELLED, "Cancelled")
                                    ELSE TestResultOf(ERROR, "Test timed out"),
                        ![m].pc = "finally"]
  /\ UNCHANGED <<dev, logs, port, portTimeout>>

\* finally: self._port.timeout = None
MonFinally(m) ==
  LET e == mon[m].env IN
  /\ mon[m].pc = "finally"
  /\ portTimeout' = [portTimeout EXCEPT ![e] = None]
  /\ mon' = [mon EXCEPT ![m].pc = "done"]
  /\ UNCHANGED <<dev, logs, port>>

\* TESTCASE_TIMEOUT elapses for a started thread.
Tick(m) ==
  /\ mon[m].pc \notin {"idle", "start", "done"}
  /\ ~mon[m].late
  /\ mon' = [mon EXCEPT ![m].late = TRUE]
  /\ UNCHANGED <<dev, logs, port, portTimeout>>

\* TestMonitor.cancel, as a conjunct of the caller's step.
Cancel(m) == mon' = [mon EXCEPT ![m].cancelled = TRUE]

MonitorStep(m) ==
  MonStart(m) \/ MonLoop(m) \/ MonRead(m) \/ MonFinal(m) \/ MonFinally(m)

(***************************************************************************)
(* Properties                                                              *)
(***************************************************************************)

\* A monitor reports Error("Test timed out") only when its loop ended
\* because cancel() had been called; a loop that ran out of time with no
\* cancellation ends Cancelled (spec 4.4, items 4 and 5).  The result is
\* decided by a second read of _cancelled after the loop, so a cancel()
\* arriving in between is the case to look at.
TimeoutResultMatchesCause ==
  \A m \in MonIds :
    mon[m].result = TestResultOf(ERROR, "Test timed out") => mon[m].stop = "cancel"

=============================================================================
