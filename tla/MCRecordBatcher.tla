-------------------------- MODULE MCRecordBatcher --------------------------
(* Instances of RecordBatcher for TLC. *)
EXTENDS RecordBatcher

CONSTANTS m1, m2, m3, blank, alice, bob

MCUsers == {alice, bob}

\* Two messages whose second lines do not fit in the batch of the first three.
MCTwoMessages == {m1, m2, blank}
MCTwoUserOf == [m \in {m1, m2, blank} |-> IF m = m2 THEN bob ELSE alice]
MCTwoLineCount == [m \in {m1, m2, blank} |-> IF m = blank THEN 0 ELSE 2]

\* CanPanic is FALSE in the run about liveness: Next is Steps.
MCFairSpec == Init /\ [][Steps]_vars /\ Fairness
=============================================================================
