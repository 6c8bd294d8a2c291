---------------------------- MODULE TimeoutSpec ----------------------------
(***************************************************************************)
(* What the timeout(9) interface promises, with no wheel and no wrapping   *)
(* integers: a timeout that was added is called once the ticks asked for   *)
(* have passed, never before, unless it is deleted or added again first.   *)
(* Timeout implements this specification; Tsleep is built on it.           *)
(***************************************************************************)
EXTENDS Integers

CONSTANTS Timeouts, NoTimeout,
          Durations,      \* the ticks callers ask for
          Adjustments     \* the ticks a resuming machine may skip

VARIABLES
  left,      \* left[t]: ticks until t is due, or NotPending
  called     \* the timeout whose function runs, or NoTimeout

NotPending == -1

Pending(t) == left[t] # NotPending
Due(t) == left[t] = 0

\* left after n more ticks.
Later(n) ==
  [t \in Timeouts |-> IF left[t] > n THEN left[t] - n
                      ELSE IF Pending(t) THEN 0 ELSE NotPending]

Schedule(t, n) == left' = [left EXCEPT ![t] = n]

Cancel(t) == left' = [left EXCEPT ![t] = NotPending]

\* n ticks pass.
Advance(n) == left' = Later(n)

\* The function of a due timeout is called: the timeout is no longer pending.
Call(t) ==
  /\ called = NoTimeout /\ Due(t)
  /\ called' = t
  /\ Cancel(t)

Return == called # NoTimeout /\ called' = NoTimeout

SpecInit == left = [t \in Timeouts |-> NotPending] /\ called = NoTimeout

SpecNext ==
  \/ /\ \/ \E t \in Timeouts, n \in Durations : Schedule(t, n)
        \/ \E t \in Timeouts : Cancel(t)
        \/ \E n \in {1} \cup Adjustments : Advance(n)
     /\ UNCHANGED called
  \/ \E t \in Timeouts : Call(t)
  \/ Return /\ UNCHANGED left

TimeoutsSpec == SpecInit /\ [][SpecNext]_<<left, called>>
=============================================================================
