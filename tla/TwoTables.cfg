CONSTANTS
  Account = {a1, a2, a3}
  MinSeats = 2
  MaxSeats = 3
  MaxStarts = 2
  FaultCases = {{}}
SPECIFICATION SeatingSpec
INVARIANTS FirstIsTheOnly
