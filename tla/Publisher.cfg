CONSTANTS
  Seat = {s1, s2}
  MaxEvents = 3
SPECIFICATION PublisherSpec
CHECK_DEADLOCK FALSE
INVARIANTS ShowsTheLatest EndIsTold StoryIsWhole NewestIsKept
PROPERTIES EndIsSeen
