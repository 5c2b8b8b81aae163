\* Safety, acks and refinement, with panics and cancellation.
CONSTANTS
  m1 = m1
  m2 = m2
  m3 = m3
  blank = blank
  alice = alice
  bob = bob
  Messages <- MCTwoMessages
  Users <- MCUsers
  UserOf <- MCTwoUserOf
  LineCount <- MCTwoLineCount
  MaxBatchSize = 3
  CanPanic = TRUE
SPECIFICATION AcksSpec
INVARIANTS TypeOK NoLineTwice SavedOnce AnswersTrue AnswersInOrder OneAckPerWindow
PROPERTY ImplementsPromise
CHECK_DEADLOCK FALSE
