\* A reply to an older card finds nothing.
CONSTANTS
  alice = alice
  bob = bob
  t1 = t1
  t2 = t2
  t3 = t3
  Users <- MCUsers
  Transactions <- MCTransactions
  Owner <- MCOwner
  MaxCards = 3
  MaxVersion = 1
SPECIFICATION Spec
INVARIANT CardsCanBeRepliedTo
