----------------------------- MODULE TestDevice -----------------------------
(***************************************************************************)
(* The device side of the serial line protocol, seen from the host: the    *)
(* esp-open-rtos test-runner firmware and the receive buffer of the serial *)
(* port that carries its output to the host.  The firmware is not part of  *)
(* the Python sources; it is modelled from the line protocol of the spec   *)
(* (section 6): after boot a banner line, the CASE lines and a `>` prompt; *)
(* while a test case runs, log lines and then a line ending in `:PASS`, a  *)
(* line containing `:FAIL:`, a crash (the device reboots and prints its    *)
(* boot output again), or nothing at all (a hung test).                    *)
(*                                                                         *)
(* A line in the buffer is a record: its text (abstracted to which kind of *)
(* line it is) and its terminator.  The host reads whole lines, except     *)
(* that pyserial's readline() returns what it has when its timeout expires *)
(* in the middle of a line: a device that stalls before the terminator of  *)
(* a line is read as the text without terminator and then the bare         *)
(* terminator.  MaySplit enables that delivery.                            *)
(*                                                                         *)
(* portTimeout[e] is the `timeout` attribute of serial port e, shared by   *)
(* every thread that reads the port: SHORT is SHORT_OUTPUT_TIMEOUT, and a  *)
(* readline() on an empty buffer then returns "" after 0.25s; None makes   *)
(* readline() block until a line arrives.                                  *)
(***************************************************************************)
EXTENDS Integers, Sequences, TestResult

CONSTANTS
  Envs,       \* the test environments (serial ports / devices) A and B
  MaxLog,     \* bound: log lines a device prints during one test case
  MaySplit    \* whether a device may stall before a line terminator

ASSUME MaxLog \in Nat /\ MaySplit \in BOOLEAN

VARIABLES
  dev,    \* dev[e]: where the firmware of device e is
  logs,   \* logs[e]: log lines device e printed in the running test case
  port,   \* port[e]: lines in the host's receive buffer of port e
  portTimeout   \* portTimeout[e]: the timeout attribute of port e

SHORT == "short"

CRLF == "\r\n"

Bodies == {"banner", "case", "prompt", "log", "pass", "fail", ""}

Lines == [body : Bodies, eol : {CRLF, ""}]

LineOf(body) == [body |-> body, eol |-> CRLF]

\* The ways a line printed by the device can reach the receive buffer.
Delivered(body) ==
  {<<LineOf(body)>>} \cup
  (IF MaySplit THEN {<<[body |-> body, eol |-> ""], LineOf("")>>} ELSE {})

\* What the firmware prints after a reset: banner, test list, prompt.
BootOutput == <<LineOf("banner"), LineOf("case"), LineOf("prompt")>>

\* boot: rebooting, banner not yet printed; listing: banner printed;
\* idle: at the `>` prompt, waiting for a command.
DevStates == {"boot", "listing", "idle", "running", "passed", "failed"}

DeviceTypeOK ==
  /\ dev \in [Envs -> DevStates]
  /\ logs \in [Envs -> 0..MaxLog]
  /\ port \in [Envs -> Seq(Lines)]
  /\ portTimeout \in [Envs -> {SHORT, None}]

\* The host writes "<tag><index>\r\n": a device at its prompt starts the
\* case; a device anywhere else does not read it and the command is lost.
DevCommand(e) ==
  IF dev[e] = "idle"
    THEN /\ dev' = [dev EXCEPT ![e] = "running"]
         /\ logs' = [logs EXCEPT ![e] = 0]
    ELSE UNCHANGED <<dev, logs>>

\* Bug variant: the pulse without flushInput.
DevResetPulseNoFlush(e) ==
  /\ dev' = [dev EXCEPT ![e] = "boot"]
  /\ UNCHANGED port

\* The host pulses RTS with DTR low: the device reboots.  flushInput runs
\* while the device is held in reset, so the buffer is empty when it runs.
DevResetPulse(e) ==
  /\ dev' = [dev EXCEPT ![e] = "boot"]
  /\ port' = [port EXCEPT ![e] = <<>>]

\* A running test case prints a log line.
DevLog(e) ==
  /\ dev[e] = "running"
  /\ logs[e] < MaxLog
  /\ logs' = [logs EXCEPT ![e] = @ + 1]
  /\ port' = [port EXCEPT ![e] = Append(@, LineOf("log"))]
  /\ UNCHANGED dev

\* The test case ends by printing its verdict line, `...:PASS` or `:FAIL:`.
DevVerdict(e) ==
  /\ dev[e] = "running"
  /\ \E v \in {"pass", "fail"} : \E d \in Delivered(v) :
       /\ dev' = [dev EXCEPT ![e] = IF v = "pass" THEN "passed" ELSE "failed"]
       /\ port' = [port EXCEPT ![e] = @ \o d]
  /\ UNCHANGED logs

\* The test case crashes the device, which reboots.
DevCrash(e) ==
  /\ dev[e] = "running"
  /\ dev' = [dev EXCEPT ![e] = "boot"]
  /\ UNCHANGED <<logs, port>>

\* The rebooted firmware prints the banner (possibly stalled before its
\* terminator).  A device that never boots simply never takes this step.
DevBanner(e) ==
  /\ dev[e] = "boot"
  /\ \E d \in Delivered("banner") : port' = [port EXCEPT ![e] = @ \o d]
  /\ dev' = [dev EXCEPT ![e] = "listing"]
  /\ UNCHANGED logs

\* ... then the test list and the prompt.
DevList(e) ==
  /\ dev[e] = "listing"
  /\ port' = [port EXCEPT ![e] = @ \o Tail(BootOutput)]
  /\ dev' = [dev EXCEPT ![e] = "idle"]
  /\ UNCHANGED logs

DeviceNext(e) ==
  DevLog(e) \/ DevVerdict(e) \/ DevCrash(e) \/ DevBanner(e) \/ DevList(e)

=============================================================================
