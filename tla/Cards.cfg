SPECIFICATION FairSpec
CONSTANT Seats <- MCSeats
CONSTANT Boards <- MCBoards
CONSTANT Allowance = 1
INVARIANTS OncePlaced EveryStepIsFed GearFollowsRules IdleIsClean
PROPERTIES NoCardLost ToldAsDone DollTakesTheHit EverySettles
