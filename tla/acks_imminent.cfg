\* An ack skipped as imminent although the next batch misses the message.
CONSTANTS
  m1 = m1
  m2 = m2
  m3 = m3
  blank = blank
  alice = alice
  bob = bob
  Messages <- MCMessages
  Users <- MCUsers
  UserOf <- MCUserOf
  LineCount <- MCLineCount
  MaxBatchSize = 2
  CanPanic = FALSE
SPECIFICATION AcksSpec
INVARIANTS ImminentIsNext
CHECK_DEADLOCK FALSE
