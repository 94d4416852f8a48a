CONSTANTS
  Seat = {s}
  Bystander = {b}
  MaxCommands = 4
  Remembered = 3
  Window = 2
SPECIFICATION CommandsSpec
CHECK_DEADLOCK FALSE
INVARIANTS RunsOnce AnswersAgree LeavingIsConfirmed
