---------------------------- MODULE LobbyContract ----------------------------
(***************************************************************************)
(* What the lobby promises its accounts, whatever happens inside: an       *)
(* account sits down only while it is in no game, a game takes a whole     *)
(* group of free accounts at once under an id no game had before, and the  *)
(* end of a game frees the whole group at once.                            *)
(*                                                                         *)
(* The module Lobby implements it (Lobby!Contract).                        *)
(***************************************************************************)
EXTENDS Naturals, FiniteSets

CONSTANTS Account, MinSeats, MaxSeats, Game, NoGame

VARIABLES
  ready,     \* the accounts that wait for a game
  assigned,  \* the game an account is in, or NoGame
  dealt      \* the ids that are used up

contractVars == <<ready, assigned, dealt>>

ContractInit ==
  /\ ready = {}
  /\ assigned = [a \in Account |-> NoGame]
  /\ dealt = {}

(* A free account joins those who wait, while there is a seat. *)
SitDown(a) ==
  /\ assigned[a] = NoGame
  /\ a \notin ready
  /\ Cardinality(ready) < MaxSeats
  /\ ready' = ready \cup {a}
  /\ UNCHANGED <<assigned, dealt>>

(* Accounts stop waiting: they asked to, or the table got smaller. *)
StandUp ==
  /\ \E S \in SUBSET ready : S # {} /\ ready' = ready \ S
  /\ UNCHANGED <<assigned, dealt>>

(* A whole group of free accounts enters a new game together. *)
Begin(group, g) ==
  /\ Cardinality(group) \in MinSeats .. MaxSeats
  /\ \A a \in group : assigned[a] = NoGame
  /\ g \notin dealt
  /\ assigned' = [a \in Account |-> IF a \in group THEN g ELSE assigned[a]]
  /\ ready' = ready \ group
  /\ dealt' = dealt \cup {g}

(* An id can be used up by a game nobody enters. *)
Waste(g) ==
  /\ g \notin dealt
  /\ dealt' = dealt \cup {g}
  /\ UNCHANGED <<ready, assigned>>

(* A game ends for everybody in it at once. *)
End(g) ==
  /\ assigned' = [a \in Account |-> IF assigned[a] = g THEN NoGame ELSE assigned[a]]
  /\ UNCHANGED <<ready, dealt>>

(* A restart forgets who waits and who plays, and with them the starts that *)
(* were out; the ids those had are used up.                                 *)
Forget ==
  /\ ready' = {}
  /\ assigned' = [a \in Account |-> NoGame]
  /\ \E S \in SUBSET Game : dealt' = dealt \cup S

ContractNext ==
  \/ \E a \in Account : SitDown(a)
  \/ StandUp
  \/ \E group \in SUBSET Account, g \in Game : Begin(group, g)
  \/ \E g \in Game : Waste(g) \/ End(g)
  \/ Forget

ContractSpec == ContractInit /\ [][ContractNext]_contractVars
=============================================================================
