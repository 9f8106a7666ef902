----------------------------- MODULE RetryTask -----------------------------
(***************************************************************************)
(* TaskWithRetry of task.go.  An int and a Duration have Width bits, and a *)
(* uint has Width bits without a sign; a float64 is exact.                 *)
(***************************************************************************)
EXTENDS Integers

CONSTANTS
  Width,
  RetryNums,           \* values of RetryNum
  MinBackOff, MaxBackOff,
  MaxAttempts          \* bound on the attempts of one task

VARIABLES
  retryNum,  \* RetryNum
  round,     \* i
  attempts,  \* history: the calls of Task
  failed,    \* history: all of them returned an error
  backOff,   \* the last backOffTime, -1 before the first
  retryPc    \* "attempt", "sleep", "done"

retryVars == <<retryNum, round, attempts, failed, backOff, retryPc>>

MaxInt == 2^(Width - 1) - 1

\* int(x) of a uint, and i++.
ToInt(x) == IF x > MaxInt THEN x - 2^Width ELSE x

\* The conversion of a float64 to a Duration is exact in range, and any of
\* the extreme values, by platform, out of it.
Durations(mult) == IF mult <= MaxInt THEN {mult} ELSE {MaxInt, -MaxInt - 1}

\* Variant: the conversion is not tested.
backOffUntested(n) ==
  {IF sleep > MaxBackOff THEN MaxBackOff ELSE sleep :
     sleep \in Durations(2^n * MinBackOff)}

\* defaultBackOffStrategy
defaultBackOffStrategy(n) ==
  LET mult == 2^n * MinBackOff IN
  {IF sleep # mult \/ sleep > MaxBackOff THEN MaxBackOff ELSE sleep :
     sleep \in Durations(mult)}

RetryInit ==
  /\ retryNum \in RetryNums
  /\ round = 0 /\ attempts = 0
  /\ failed = TRUE /\ backOff = -1
  /\ retryPc = "attempt"

\* Variant: one round too many.
LoopTestLate(i) == i <= ToInt(retryNum) + 1

LoopTest(i) == i <= ToInt(retryNum)

\* A call of Task and, when it fails, the loop's increment and test.
Attempt ==
  /\ retryPc = "attempt"
  /\ attempts < MaxAttempts
  /\ attempts' = attempts + 1
  /\ \/ failed' = FALSE /\ retryPc' = "done" /\ UNCHANGED round
     \/ /\ UNCHANGED failed
        /\ round' = ToInt((round + 1) % 2^Width)
        /\ retryPc' = IF LoopTest(round') THEN "sleep" ELSE "done"
  /\ UNCHANGED <<retryNum, backOff>>

\* getBackOffTime(uint(i)) and the sleep; a custom strategy's result matters
\* to nothing else.
Sleep ==
  /\ retryPc = "sleep"
  /\ backOff' \in defaultBackOffStrategy(round % 2^Width)
  /\ retryPc' = "attempt"
  /\ UNCHANGED <<retryNum, round, attempts, failed>>

RetryNext == Attempt \/ Sleep

RetrySpec == RetryInit /\ [][RetryNext]_retryVars

\* Task runs once and up to RetryNum times more, exactly that often if it
\* always fails.  The two ends of the range are left out: a RetryNum of the
\* largest int never ends, and one above it is a negative int and no retry.
AttemptsExact ==
  retryNum < MaxInt =>
    /\ attempts <= retryNum + 1
    /\ retryPc = "done" /\ failed => attempts = retryNum + 1

\* The back-off doubles from MinBackOff to MaxBackOff and stays there, also
\* when the doubled value no longer fits a Duration.
BackOffExact ==
  backOff # -1 =>
    LET n == attempts - IF retryPc = "attempt" THEN 0 ELSE 1
        mult == 2^n * MinBackOff
    IN backOff = IF mult > MaxBackOff THEN MaxBackOff ELSE mult
=============================================================================
