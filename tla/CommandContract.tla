--------------------------- MODULE CommandContract ---------------------------
(***************************************************************************)
(* What a table promises the seats that send it commands, with no network, *)
(* no attempts and no ledger between them: a command is taken or refused   *)
(* once, the seat is told what became of it and nothing else, and only a   *)
(* table that is over lets a seat go.  What a seat is told of its commands *)
(* once it has left is promised to nobody, but none of them runs.          *)
(*                                                                         *)
(* The module Commands implements it (KeepsItsWord of CommandsProofs).     *)
(***************************************************************************)
EXTENDS Naturals

CONSTANTS Command, Bystander  \* a command is a pair of a seat and a number

VARIABLES
  over,  \* the game has ended
  left,  \* the seats that have left
  ran,   \* how often a command took effect
  told   \* what was answered to it

contractVars == <<over, left, ran, told>>

ContractInit ==
  /\ over = FALSE /\ left = {}
  /\ ran = [c \in Command |-> 0]
  /\ told = [c \in Command |-> {}]

New(c) == c[1] \notin left /\ told[c] = {} /\ ran[c] = 0

(* The command may end the game. *)
Take(c) ==
  /\ New(c) /\ ~over
  /\ ran' = [ran EXCEPT ![c] = 1]
  /\ told' = [told EXCEPT ![c] = {"taken"}]
  /\ over' \in BOOLEAN
  /\ UNCHANGED left

Refuse(c) ==
  /\ New(c)
  /\ told' = [told EXCEPT ![c] = {"refused"}]
  /\ UNCHANGED <<over, left, ran>>

LetGo(c) ==
  /\ New(c) /\ over
  /\ told' = [told EXCEPT ![c] = {"taken"}]
  /\ left' = left \cup {c[1]}
  /\ UNCHANGED <<over, ran>>

Afterwards(c) ==
  /\ c[1] \in left
  /\ \E r \in {"taken", "refused", "missing"} : told' = [told EXCEPT ![c] = @ \cup {r}]
  /\ UNCHANGED <<over, left, ran>>

End ==
  /\ ~over /\ over' = TRUE
  /\ UNCHANGED <<left, ran, told>>

GoAway(s) ==
  /\ over /\ left' = left \cup {s}
  /\ UNCHANGED <<over, ran, told>>

ContractNext ==
  \/ \E c \in Command : Take(c) \/ Refuse(c) \/ LetGo(c) \/ Afterwards(c)
  \/ End \/ \E s \in Bystander : GoAway(s)

ContractSpec == ContractInit /\ [][ContractNext]_contractVars
=============================================================================
