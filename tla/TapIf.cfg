SPECIFICATION Spec
CONSTANTS
  Size = 3
  MaxPackets = 5
INVARIANTS
  ListIntact
PROPERTIES
  TakenInOrder
  AcceptedIsTaken
CHECK_DEADLOCK FALSE
