------------------------------ MODULE GameRules ------------------------------
(***************************************************************************)
(* The game as its rules have it, with nothing of the machine that runs    *)
(* it: a seat has a turn and its points, spends them one at a time or lets *)
(* them go, and only then the next seat has its own; a seat wins in the    *)
(* middle of anything, and that is the end.                                *)
(*                                                                         *)
(* The module TurnLoop implements it (KeepsTheRules of TurnLoopProofs).    *)
(***************************************************************************)
EXTENDS Integers

CONSTANTS Seats, Budget

VARIABLES
  phase,   \* "Setup", "Turns", "Concluded"
  winner,  \* the seat that won, or 0
  seat,    \* whose turn it is, or 0
  points   \* what that seat has left to spend

rulesVars == <<phase, winner, seat, points>>

RulesInit == phase = "Setup" /\ winner = 0 /\ seat = 0 /\ points = 0

Begin ==
  /\ phase = "Setup" /\ phase' = "Turns"
  /\ UNCHANGED <<winner, seat, points>>

(* The first seat, or the one after the seat that has nothing left. *)
TakeTurn ==
  /\ phase = "Turns" /\ points = 0
  /\ seat' = (seat % Seats) + 1 /\ points' = Budget
  /\ UNCHANGED <<phase, winner>>

Spend ==
  /\ phase = "Turns" /\ points > 0 /\ points' = points - 1
  /\ UNCHANGED <<phase, winner, seat>>

(* A pass, or time that ran out. *)
LetGo ==
  /\ phase = "Turns" /\ points > 0 /\ points' = 0
  /\ UNCHANGED <<phase, winner, seat>>

Win ==
  /\ phase = "Turns" /\ phase' = "Concluded"
  /\ seat # 0 /\ winner' \in 1..Seats
  /\ UNCHANGED <<seat, points>>

RulesNext == Begin \/ TakeTurn \/ Spend \/ LetGo \/ Win

RulesSpec == RulesInit /\ [][RulesNext]_rulesVars
=============================================================================
