----------------------------- MODULE TestResult -----------------------------
(***************************************************************************)
(* The value types of tests/test_runner.py: TestResult (a severity-ranked  *)
(* status with a message) and the Python comparison semantics the runner   *)
(* relies on when it calls max() over two results, one of which may still  *)
(* be None.                                                                *)
(*                                                                         *)
(* A message is abstracted to a tag naming which constructor call made the *)
(* result; its text is never compared by the runner.                       *)
(***************************************************************************)
EXTENDS Integers

CONSTANT None   \* Python's None: a monitor whose result slot is still empty

\* TestResult status flags, higher = more severe.
CANCELLED == 0
SKIPPED   == 1
PASSED    == 2
FAILED    == 3
ERROR     == 4

Statuses == {CANCELLED, SKIPPED, PASSED, FAILED, ERROR}

\* The call sites that construct a TestResult, one tag per message text.
Messages == {"Cancelled", "Dual test case skipped", "Test passed.",
             "fail line", "Test caused crash and reset.", "Test timed out"}

Results == [status : Statuses, message : Messages]

TestResultOf(status, message) == [status |-> status, message |-> message]

\* TestResult.is_failure
IsFailure(r) == r.status >= FAILED

(***************************************************************************)
(* max(x, y) in CPython keeps x unless `y > x`.  TestResult defines only   *)
(* __lt__, so `y > x` is answered by the reflected x.__lt__(y):            *)
(*   - x, y results: y wins iff x.status < y.status (a tie keeps x);       *)
(*   - y None:  x.__lt__(None) returns False, so x is kept;                *)
(*   - x None:  None has no __lt__ for a TestResult and the reflected      *)
(*     operand gives NotImplemented too, so max raises TypeError.          *)
(***************************************************************************)
PyMaxRaises(x, y) == x = None

\* Bug variant: the comparison the wrong way round.
PyMaxReversed(x, y) == IF y # None /\ y.status < x.status THEN y ELSE x

PyMax(x, y) == IF y # None /\ x.status < y.status THEN y ELSE x

=============================================================================
