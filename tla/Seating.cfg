CONSTANTS
  Account = {a1, a2, a3}
  MinSeats = 2
  MaxSeats = 3
  MaxStarts = 2
  FaultCases = {{}, {"timeout", "loss", "lobby", "tables"}}
SPECIFICATION SeatingSpec
INVARIANTS NoOrphanTable StartingIsFree ReadyIsFree AssignedIsSeated
PROPERTIES FreedAfterTheEnd Contract StartEnds
