\* Three requests of any kind after each other, with one failure.
CONSTANTS
  Rooms = {"news", "events"}
  Categories = {"talks", "press"}
  Posts = {"post1"}
  Albums = {"trip", "team"}
  Pictures = {"logo.png"}
  Texts = {"A", "B"}
  MaxRequests = 3
  MaxFaults = 1
SPECIFICATION ContentSpec
INVARIANTS
  OkDidAll
  FailedLeavesNothing
  RoomIsThere
\* the bound on requests stops the model
CHECK_DEADLOCK FALSE
