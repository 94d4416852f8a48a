SPECIFICATION Spec
CONSTANT Seats <- MCSeats
CONSTANT Boards <- CursedBoards
CONSTANT Allowance = 1
INVARIANT OfferHolds
