\* Cards, amends, failures and crashes: replies reach what is shown, no update is lost.
CONSTANTS
  alice = alice
  bob = bob
  t1 = t1
  t2 = t2
  t3 = t3
  Users <- MCUsers
  Transactions <- MCTransactions
  Owner <- MCOwner
  MaxCards = 3
  MaxVersion = 1
SPECIFICATION Spec
INVARIANTS TypeOK NoLostUpdate CardsTrue ReplyHitsShown LatestCardWorks NothingForgotten
