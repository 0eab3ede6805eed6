SPECIFICATION FairSpec
CONSTANTS
  Base = 3
  Text <- MCText
  Message <- MCMessage
  Foreign <- MCForeign
  Garbage = garbage
  Filter <- MCFilter
  Buffer = 1
  MaxSent = 3
INVARIANTS TypeOK NothingLostInside
PROPERTIES ImplementsTopic Delivered Resubscribes EndsWhenWoken
CHECK_DEADLOCK FALSE
