SPECIFICATION Spec
CONSTANT Seats <- MCSeats
CONSTANT Boards <- NestedBoards
CONSTANT Allowance = 1
INVARIANT OncePlaced
