\* No line is lost, every message is answered, Run returns; without panics.
CONSTANTS
  m1 = m1
  m2 = m2
  m3 = m3
  blank = blank
  alice = alice
  bob = bob
  Messages <- MCTwoMessages
  Users <- MCUsers
  UserOf <- MCTwoUserOf
  LineCount <- MCTwoLineCount
  MaxBatchSize = 3
  CanPanic = FALSE
SPECIFICATION MCFairSpec
INVARIANTS NoLineLost
PROPERTIES EveryMessageAnswered StopsWhenCancelled
CHECK_DEADLOCK FALSE
