--------------------------- MODULE ReconnectBackoff ---------------------------
(***************************************************************************)
(* The backoff function that client.go hands to autopaho, and the attempt  *)
(* counter autopaho calls it with.  A Duration is an int64 of nanoseconds. *)
(* ReconnectBackoffMin is MinOdd * 2^MinExp of them, ReconnectBackoffMax   *)
(* is MaxRatio times that; a wait is counted in multiples of the minimum.  *)
(***************************************************************************)
EXTENDS Integers

CONSTANTS
  MinOdd, MinExp,  \* ReconnectBackoffMin
  MaxRatio,        \* ReconnectBackoffMax / ReconnectBackoffMin
  OddBits,         \* the width of MinOdd, so that OddBits + 1 bits hold it with its sign
  MaxAttempt       \* bound: consecutive failures

VARIABLES
  attempt,  \* external: autopaho's count of failures since the last connection
  wait      \* what the last call returned, in minimums; -1 for a negative Duration

vars == <<attempt, wait>>

\* The bits of an int64 left to MinOdd when it is shifted to the left by e.
BitsLeft(e) == 64 - e

\* What int64 arithmetic leaves of MinOdd in r bits, read as a signed number.
Signed(r) ==
  IF r > OddBits THEN MinOdd
  ELSE IF r <= 0 THEN 0
  ELSE LET low == MinOdd % (2^r) IN IF low >= 2^(r - 1) THEN low - 2^r ELSE low

\* A product that has lost bits is, when positive, far above the maximum.
reconnectBackoff(n) ==
  LET shift == IF n < 1 THEN 0 ELSE n - 1
      left  == Signed(BitsLeft(MinExp + shift))
  IN IF left < 0 THEN -1
     ELSE IF left = 0 THEN 0
     ELSE IF shift > 6 \/ 2^shift > MaxRatio THEN MaxRatio
     ELSE 2^shift

Init == attempt = 0 /\ wait = reconnectBackoff(0)

\* external: autopaho fails to connect and asks how long to wait.
ConnectFails ==
  /\ attempt < MaxAttempt
  /\ attempt' = attempt + 1
  /\ wait' = reconnectBackoff(attempt')

\* external: autopaho is connected and starts counting anew.
ConnectionUp ==
  /\ attempt > 0
  /\ attempt' = 0
  /\ wait' = reconnectBackoff(0)

Next == ConnectFails \/ ConnectionUp

Spec == Init /\ [][Next]_vars

-----------------------------------------------------------------------------
\* "ReconnectBackoffMin is the minimum backoff between reconnect attempts."
\* (config.go:82)
NeverBelowMin == wait >= 1

=============================================================================
