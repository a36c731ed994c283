CONSTANTS
  Listeners = {l1, l2}
  MaxPerPoll = 2
  MaxDatagrams = 4
SPECIFICATION ReceiverSpec
CHECK_DEADLOCK FALSE
INVARIANTS
  ReadingIsExact
  SharesAreFair
PROPERTY
  BacklogIsRead
