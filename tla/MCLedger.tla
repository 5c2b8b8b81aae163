------------------------------ MODULE MCLedger ------------------------------
(* Instance of Ledger for TLC: alice has two transactions, bob has one. *)
EXTENDS Ledger

CONSTANTS alice, bob, t1, t2, t3

MCUsers == {alice, bob}
MCTransactions == {t1, t2, t3}
MCOwner == [t \in Transactions |-> IF t = t3 THEN bob ELSE alice]
=============================================================================
