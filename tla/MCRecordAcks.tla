---------------------------- MODULE MCRecordAcks ----------------------------
(* Instances of RecordAcks for TLC: Alice sends two messages, Bob one; or     *)
(* Alice sends two of two lines each, and Bob a blank one.                    *)
EXTENDS RecordAcks

CONSTANTS m1, m2, m3, blank, alice, bob

MCMessages == {m1, m2, m3}
MCUsers == {alice, bob}
MCUserOf == [m \in {m1, m2, m3} |-> IF m = m3 THEN bob ELSE alice]
MCLineCount == [m \in {m1, m2, m3} |-> 1]

MCTwoMessages == {m1, m2, blank}
MCTwoUserOf == [m \in {m1, m2, blank} |-> IF m = blank THEN bob ELSE alice]
MCTwoLineCount == [m \in {m1, m2, blank} |-> IF m = blank THEN 0 ELSE 2]
=============================================================================
