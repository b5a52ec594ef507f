----------------------------- MODULE FilterOutput -----------------------------
(***************************************************************************)
(* utils/filteroutput.py of esp-open-rtos: main() finds the ELF file,      *)
(* opens the serial port or turns off the echo of the terminal on stdin,   *)
(* then reads lines, prints them, and hands every substring that matches   *)
(* RE_EXECADDR to addr2line; its finally block puts the terminal's echo    *)
(* back.                                                                   *)
(*                                                                         *)
(* A line is a tuple of one-character strings over a small alphabet; the   *)
(* scan of re.finditer(RE_EXECADDR, line, re.IGNORECASE) is the recursive  *)
(* operator FindAddrs.  addr2line itself is an outside program: it answers *)
(* with a location or with "?? ??:0", or exits non-zero, and the model     *)
(* lets it do any of these.                                                *)
(***************************************************************************)
EXTENDS Integers, Sequences

CONSTANTS
  Lines,      \* the lines the device may print
  MaxLines,   \* bound on the lines read in one run
  Unbound,    \* a local variable that was never assigned
  None

VARIABLES
  pc,        \* "elf", "open", "read", "lookup", "finally", "exited"
  elfArg,    \* --elf and the .out files: "given", "missing", "one", "zero", "many"
  portArg,   \* --port given: "serial"; else "stdin"
  tty,       \* stdin is a terminal
  echo,      \* the terminal's ECHO flag
  echo0,     \* ... when the program started
  oldAttr,   \* main's old_attr (the saved ECHO flag) or Unbound
  pending,   \* the matches of the current line not yet looked up
  nread,     \* lines read so far
  raised,    \* an exception is propagating through the finally block
  exitCode   \* the process status, None while running

vars == <<pc, elfArg, portArg, tty, echo, echo0, oldAttr, pending, nread,
          raised, exitCode>>

(***************************************************************************)
(* RE_EXECADDR = r"(0x)?40([0-9]|[a-z]){6}" under re.IGNORECASE            *)
(***************************************************************************)
Digits  == {"0", "1", "2", "3", "4", "5", "6", "7", "8", "9"}
HexLetters == {"a", "b", "c", "d", "e", "f", "A", "B", "C", "D", "E", "F"}
Letters == HexLetters \cup {"g", "x", "z", "G", "X", "Z"}

\* 40 and six characters of [0-9a-z] (any case) at position p of s.
Body(s, p) ==
  /\ p + 7 <= Len(s)
  /\ s[p] = "4" /\ s[p + 1] = "0"
  /\ \A j \in p + 2 .. p + 7 : s[j] \in Digits \cup Letters

\* Bug variant: seven characters after the 40 ({7} for {6}).
BodySeven(s, p) ==
  /\ p + 8 <= Len(s)
  /\ s[p] = "4" /\ s[p + 1] = "0"
  /\ \A j \in p + 2 .. p + 8 : s[j] \in Digits \cup Letters

MatchLenSeven(s, p) ==
  IF p + 1 <= Len(s) /\ s[p] = "0" /\ s[p + 1] \in {"x", "X"} /\ BodySeven(s, p + 2)
  THEN 11 ELSE IF BodySeven(s, p) THEN 9 ELSE 0

\* The length of the match starting at p, 0 if there is none: the optional
\* group is tried first, then the pattern without it.
MatchLen(s, p) ==
  IF p + 1 <= Len(s) /\ s[p] = "0" /\ s[p + 1] \in {"x", "X"} /\ Body(s, p + 2)
  THEN 10 ELSE IF Body(s, p) THEN 8 ELSE 0

\* re.finditer: the leftmost match, then the scan goes on after it.
RECURSIVE FindAddrs(_, _)
FindAddrs(s, p) ==
  IF p > Len(s) THEN <<>>
  ELSE IF MatchLen(s, p) = 0 THEN FindAddrs(s, p + 1)
  ELSE << SubSeq(s, p, p + MatchLen(s, p) - 1) >>
       \o FindAddrs(s, p + MatchLen(s, p))

FilterTypeOK ==
  /\ pc \in {"elf", "open", "read", "lookup", "finally", "exited"}
  /\ elfArg \in {"given", "missing", "one", "zero", "many"}
  /\ portArg \in {"serial", "stdin"}
  /\ {tty, echo, echo0, raised} \subseteq BOOLEAN
  /\ oldAttr \in BOOLEAN \cup {Unbound}
  /\ \A k \in 1 .. Len(pending) : Len(pending[k]) \in {8, 10}
  /\ nread \in 0 .. MaxLines
  /\ exitCode \in {None, 0, 1}

FilterInit ==
  /\ pc = "elf"
  /\ elfArg \in {"given", "missing", "one", "zero", "many"}
  /\ portArg \in {"serial", "stdin"}
  /\ tty \in BOOLEAN
  /\ echo \in BOOLEAN /\ echo0 = echo
  /\ oldAttr = Unbound
  /\ pending = <<>> /\ nread = 0 /\ raised = FALSE
  /\ exitCode = None

\* find_elf_file(): exactly one .out file under the current directory; with
\* none or several it prints why and calls sys.exit(1).
FindElfFile == elfArg = "one"

\* args.elf given and found, or found by find_elf_file(); a given file that
\* does not exist ends the program with sys.exit(1), before the terminal is
\* touched.
FindElf ==
  /\ pc = "elf"
  /\ IF elfArg = "given" \/ FindElfFile
       THEN pc' = "open" /\ UNCHANGED exitCode
       ELSE pc' = "exited" /\ exitCode' = 1
  /\ UNCHANGED <<elfArg, portArg, tty, echo, echo0, oldAttr, pending, nread,
                 raised>>

\* serial.Serial(args.port, ...) opens the port (and pulses DTR); an open
\* that fails raises before the try block.
OpenSerial ==
  /\ pc = "open" /\ portArg = "serial"
  /\ \/ pc' = "read" /\ UNCHANGED exitCode
     \/ pc' = "exited" /\ exitCode' = 1
  /\ UNCHANGED <<elfArg, portArg, tty, echo, echo0, oldAttr, pending, nread,
                 raised>>

\* port = sys.stdin; old_attr = tcgetattr(...); the ECHO bit is cleared by
\* tcsetattr.  On a stdin that is not a terminal the first tcgetattr raises
\* termios.error, which is passed over: old_attr is never assigned.
DisableEcho ==
  /\ pc = "open" /\ portArg = "stdin"
  /\ IF tty THEN oldAttr' = echo /\ echo' = FALSE
            ELSE UNCHANGED <<oldAttr, echo>>
  /\ pc' = "read"
  /\ UNCHANGED <<elfArg, portArg, tty, echo0, pending, nread, raised, exitCode>>

\* line = port.readline(); print(line.strip()); the matches of the line.
ReadLine ==
  /\ pc = "read"
  /\ nread < MaxLines
  /\ \E line \in Lines : pending' = FindAddrs(line, 1)
  /\ nread' = nread + 1
  /\ pc' = "lookup"
  /\ UNCHANGED <<elfArg, portArg, tty, echo, echo0, oldAttr, raised, exitCode>>

\* if line == '': break.  Only stdin ends: a serial readline without a
\* timeout waits for the next line.
EndOfInput ==
  /\ pc = "read" /\ portArg = "stdin"
  /\ pc' = "finally"
  /\ UNCHANGED <<elfArg, portArg, tty, echo, echo0, oldAttr, pending, nread,
                 raised, exitCode>>

\* Ctrl-C: KeyboardInterrupt, the usual way out of the serial monitor.
Interrupt ==
  /\ pc \in {"read", "lookup"}
  /\ pc' = "finally" /\ raised' = TRUE
  /\ UNCHANGED <<elfArg, portArg, tty, echo, echo0, oldAttr, pending, nread,
                 exitCode>>

\* addr2line = subprocess.check_output([... , addr]) for the next match,
\* "0x" put in front of an address without it; it prints its answer, or
\* exits non-zero and CalledProcessError propagates.  Its answer does not
\* depend on the address in the model, so the prefixing is not spelled out.
LookUp ==
  /\ pc = "lookup"
  /\ pending # <<>>
  /\ \/ pending' = Tail(pending) /\ UNCHANGED <<pc, raised>>
     \/ pc' = "finally" /\ raised' = TRUE /\ UNCHANGED pending
  /\ UNCHANGED <<elfArg, portArg, tty, echo, echo0, oldAttr, nread, exitCode>>

\* The for loop over the matches is over: back to readline.
LineDone ==
  /\ pc = "lookup"
  /\ pending = <<>>
  /\ pc' = "read"
  /\ UNCHANGED <<elfArg, portArg, tty, echo, echo0, oldAttr, pending, nread,
                 raised, exitCode>>

\* Bug variant: the echo put back only when the loop ended normally.
FinallyOnlyOnBreak ==
  /\ pc = "finally"
  /\ IF portArg = "stdin" /\ ~raised /\ oldAttr # Unbound
       THEN echo' = oldAttr ELSE UNCHANGED echo
  /\ exitCode' = IF raised \/ (portArg = "stdin" /\ oldAttr = Unbound)
                 THEN 1 ELSE 0
  /\ pc' = "exited"
  /\ UNCHANGED <<elfArg, portArg, tty, echo0, oldAttr, pending, nread, raised>>

\* finally: if args.port is None: tcsetattr(..., old_attr).  With old_attr
\* unassigned this raises UnboundLocalError; any exception ends the
\* process with a traceback and status 1.
Finally ==
  /\ pc = "finally"
  /\ IF portArg = "stdin" /\ oldAttr # Unbound
       THEN echo' = oldAttr ELSE UNCHANGED echo
  /\ exitCode' = IF raised \/ (portArg = "stdin" /\ oldAttr = Unbound)
                 THEN 1 ELSE 0
  /\ pc' = "exited"
  /\ UNCHANGED <<elfArg, portArg, tty, echo0, oldAttr, pending, nread, raised>>

FilterNext ==
  \/ FindElf \/ OpenSerial \/ DisableEcho \/ ReadLine \/ EndOfInput
  \/ Interrupt \/ LookUp \/ LineDone \/ Finally

FilterSpec == FilterInit /\ [][FilterNext]_vars

(***************************************************************************)
(* Properties                                                              *)
(***************************************************************************)

\* Whatever way main() ends once it has turned the echo off (end of input,
\* Ctrl-C, a failing addr2line), the terminal is left echoing as it was
\* when the program started.
EchoRestored == pc = "exited" => echo = echo0

====
