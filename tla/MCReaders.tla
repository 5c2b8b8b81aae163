------------------------------ MODULE MCReaders ------------------------------
(* Instance of Readers for TLC: alice has four transactions, bob has one.     *)
(* Readers share nothing but the table, which Write changes at any time       *)
(* anyway, so a behaviour has one of them.                                    *)
EXTENDS Readers

CONSTANTS alice, bob, client

MCUsers == {alice, bob}
MCClients == {client}
MCReadersOf == {alice, bob, client}
MCRows == 1 .. 5
MCOwnerOf == [r \in 1 .. 5 |-> IF r = 5 THEN bob ELSE alice]
MCValues == {[date |-> 1, type |-> "DB", amount |-> 2, category |-> "food"],
             [date |-> 2, type |-> "CR", amount |-> 0, category |-> "other"],
             [date |-> 2, type |-> "DB", amount |-> 3, category |-> "other"]}
MCOffsets == {-1, 0, 2}
MCQueries == {[from |-> 1, to |-> 2, type |-> ""], [from |-> 1, to |-> 2, type |-> "DB"],
              [from |-> 2, to |-> 1, type |-> ""]}

MCTables ==
  LET v(d, t, a, c) == [date |-> d, type |-> t, amount |-> a, category |-> c]
      f1 == v(1, "DB", 2, "food")  o2 == v(2, "CR", 0, "other")  d2 == v(2, "DB", 3, "other")
  IN {<<f1, o2, d2, f1, d2>>, <<o2, f1, NoRow, o2, NoRow>>, [r \in MCRows |-> NoRow]}

Reading == {u \in MCUsers : page[u] # NoPage}
OneReads == Cardinality(Reading) <= IF issued = <<>> THEN 1 ELSE 0

\* What is refused is refused whatever else the request asks for: one of each is enough.
Refused(r) == ~Valid(r.query, r.offset)
OneRefused ==
  \A c \in MCClients :
    request[c].phase # "idle" /\ Refused(request[c]) =>
      /\ request[c].limit = 0
      /\ request[c].offset = 0 \/ request[c].query = [from |-> 1, to |-> 2, type |-> ""]

\* The first token is alice's: one of bob and then one of alice are the same two tokens.
AliceFirst == issued # <<>> => issued[1] = alice

MCSpec == Init /\ [][Next /\ (OneReads /\ OneRefused /\ AliceFirst)']_vars
=============================================================================
