--------------------------- MODULE TestEnvironment --------------------------
(***************************************************************************)
(* TestEnvironment and TestSerialPort.wait_line of tests/test_runner.py:   *)
(* the main thread's calls on one environment.  reset() pulses the reset   *)
(* lines and waits for the banner, up to RESET_RETRIES times; get_testlist *)
(* resets and collects CASE lines up to the prompt; start_testcase resets, *)
(* waits for the prompt and writes the command.                            *)
(*                                                                         *)
(* host is the main thread inside one of these calls: the operation (op),  *)
(* its program counter, the line it waits for, the reset attempt, the      *)
(* number of test cases collected, whether the last read matched, and a    *)
(* history flag: whether the banner was seen in the current reset().       *)
(***************************************************************************)
EXTENDS TestDevice

CONSTANT RESET_RETRIES  \* retries to receive the test runner banner after reset

ASSUME RESET_RETRIES \in Nat \ {0}

\* CASE lines in the device's boot output
NumCases == Len(BootOutput) - 2

VARIABLE host

HostPcs == {"pulse", "wl_start", "wl_read", "wl_end", "write", "ok", "error"}

Hosts == [env : Envs, op : {"list", "start"}, pc : HostPcs,
          wait : {"banner", "list", "prompt"}, attempt : 0..RESET_RETRIES - 1,
          tests : 0..NumCases, matched : BOOLEAN, banner : BOOLEAN]

\* A call of get_testlist ("list") or start_testcase ("start") on env e:
\* both begin with self.reset().
Call(e, op) == [env |-> e, op |-> op, pc |-> "pulse", wait |-> "banner",
                attempt |-> 0, tests |-> 0, matched |-> FALSE, banner |-> FALSE]

EnvironmentTypeOK == host \in Hosts

\* One iteration of reset()'s loop: DTR low, RTS high, flushInput, RTS low.
ResetPulse ==
  LET e == host.env IN
  /\ host.pc = "pulse"
  /\ DevResetPulse(e)
  /\ host' = [host EXCEPT !.pc = "wl_start", !.wait = "banner"]
  /\ UNCHANGED <<logs, portTimeout>>

\* wait_line: self.timeout = timeout
WaitLineStart ==
  LET e == host.env IN
  /\ host.pc = "wl_start"
  /\ portTimeout' = [portTimeout EXCEPT ![e] = SHORT]
  /\ host' = [host EXCEPT !.pc = "wl_read", !.matched = FALSE]
  /\ UNCHANGED <<dev, logs, port>>

\* The callbacks, applied to the decoded and rstrip()ped line: the
\* terminator is gone, so a fragment and a whole line look the same.
Matches(wait, body) ==
  CASE wait = "banner" -> body = "banner"    \* line == TESTRUNNER_BANNER
    [] OTHER           -> body = "prompt"    \* line.startswith(">")

\* collect_testcases appends a TestCase for each CASE line it sees.
Collected(wait, body) == IF wait = "list" /\ body = "case" THEN 1 ELSE 0

\* Bug variant: an empty read taken as a non-matching line.
OnTimeoutContinue(h) == h

\* if line == b"": break   (timed out)
OnTimeout(h) == [h EXCEPT !.pc = "wl_end"]

\* while not res: line = self.readline(); ...; res = callback(line)
WaitLineRead ==
  LET e == host.env IN
  /\ host.pc = "wl_read"
  /\ \/ /\ port[e] = <<>>
        /\ portTimeout[e] = SHORT
        /\ host' = OnTimeout(host)
        /\ UNCHANGED port
     \/ /\ port[e] # <<>>
        /\ LET body == Head(port[e]).body IN
           host' = [host EXCEPT !.tests = @ + Collected(host.wait, body),
                                !.matched = Matches(host.wait, body),
                                !.pc = IF Matches(host.wait, body)
                                         THEN "wl_end" ELSE "wl_read"]
        /\ port' = [port EXCEPT ![e] = Tail(@)]
  /\ UNCHANGED <<dev, logs, portTimeout>>

\* Where the caller goes once reset() returns.
AfterReset(h) ==
  IF h.op = "list" THEN [h EXCEPT !.pc = "wl_start", !.wait = "list", !.tests = 0]
                   ELSE [h EXCEPT !.pc = "wl_start", !.wait = "prompt"]

\* Bug variant: for i in range(RESET_RETRIES + 1).
RetryLeftOffByOne(h) == h.attempt < RESET_RETRIES

\* for i in range(RESET_RETRIES): another iteration after attempt h.attempt
RetryLeft(h) == h.attempt + 1 < RESET_RETRIES

(***************************************************************************)
(* finally: self.timeout = None; then the caller acts on the result.       *)
(*  - reset: return on the banner; otherwise the next attempt, and after   *)
(*    the last one the loop ends and reset() returns (the raise after      *)
(*    `continue` is never reached);                                        *)
(*  - get_testlist: return the list, or raise "failed to read test list";  *)
(*  - start_testcase: write the command, or raise "Failed to read test     *)
(*    runnner prompt".                                                     *)
(***************************************************************************)
WaitLineEnd ==
  LET e == host.env IN
  /\ host.pc = "wl_end"
  /\ portTimeout' = [portTimeout EXCEPT ![e] = None]
  /\ host' =
       CASE host.wait = "banner" /\ host.matched ->
              AfterReset([host EXCEPT !.banner = TRUE])
         [] host.wait = "banner" /\ RetryLeft(host) ->
              [host EXCEPT !.attempt = @ + 1, !.pc = "pulse"]
         [] host.wait = "banner" ->
              AfterReset(host)
         [] host.wait = "list" ->
              [host EXCEPT !.pc = IF host.matched THEN "ok" ELSE "error"]
         [] OTHER ->
              [host EXCEPT !.pc = IF host.matched THEN "write" ELSE "error"]
  /\ UNCHANGED <<dev, logs, port>>

\* self._port.write(command); the TestMonitor is created by the caller.
WriteCommand ==
  LET e == host.env IN
  /\ host.pc = "write"
  /\ DevCommand(e)
  /\ host' = [host EXCEPT !.pc = "ok"]
  /\ UNCHANGED <<port, portTimeout>>

EnvironmentStep == ResetPulse \/ WaitLineStart \/ WaitLineRead \/ WaitLineEnd
                   \/ WriteCommand

(***************************************************************************)
(* main() on one environment: env.get_testlist(), then the first case's    *)
(* start_testcase on the same environment.  The port may hold output from  *)
(* before the runner started, and the device may be at its prompt or in   *)
(* the middle of something.                                                *)
(***************************************************************************)
EnvVars == <<dev, logs, port, portTimeout, host>>

EnvInit ==
  /\ dev \in [Envs -> {"idle", "running"}]
  /\ logs = [e \in Envs |-> 0]
  /\ port \in [Envs -> {<<>>, <<LineOf("log")>>}]
  /\ portTimeout = [e \in Envs |-> None]
  /\ \E e \in Envs : host = Call(e, "list")

\* The list is returned; the first case is started.
NextCall ==
  /\ host.op = "list" /\ host.pc = "ok"
  /\ host' = Call(host.env, "start")
  /\ UNCHANGED <<dev, logs, port, portTimeout>>

\* The command is written, or TestRunnerError ended the program (exit 2).
SessionOver ==
  host.pc = "error" \/ (host.op = "start" /\ host.pc = "ok")

EnvNext ==
  \/ EnvironmentStep \/ NextCall
  \/ \E e \in Envs : DeviceNext(e) /\ UNCHANGED <<host, portTimeout>>
  \/ SessionOver /\ UNCHANGED EnvVars

\* The main thread runs; a device may never boot or never print.
EnvSpec == EnvInit /\ [][EnvNext]_EnvVars /\ WF_EnvVars(EnvironmentStep \/ NextCall)

EnvTypeOK == DeviceTypeOK /\ EnvironmentTypeOK

\* start_testcase writes its command only to a device sitting at its prompt,
\* whatever mix of stale output, slow boots and failed attempts came before:
\* otherwise the command is lost and the case can only time out.
CommandAtPrompt ==
  [][host.pc = "write" /\ host'.pc = "ok" => dev[host.env] = "idle"]_EnvVars

\* get_testlist and start_testcase always return or raise: no wait_line and
\* no reset loop goes on forever, even with a device that never answers.
EnvTermination == <>SessionOver

\* reset() returns only after the banner was seen; otherwise it raises
\* "failed to start test runner" (spec 4.2, 7).
ResetReturnsOnlyAfterBanner ==
  host.wait \in {"list", "prompt"} => host.banner

=============================================================================
