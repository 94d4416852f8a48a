------------------------------- MODULE Seating -------------------------------
(***************************************************************************)
(* The lobby process (Lobby) and the game process (Tables) with the two    *)
(* TCP links between them:                                                 *)
(*   create     lobby to game, a call with a timeout                       *)
(*   created    game to lobby, its answer                                  *)
(*   completed  game to lobby, a notice nobody answers                     *)
(*                                                                         *)
(* `faults` says what may go wrong, and is settled at the start:           *)
(*   "timeout"  the call's timer fires although the game process goes on   *)
(*   "loss"     a message on the way is lost                               *)
(*   "lobby"    the lobby process restarts; its accounts are in a database *)
(*   "tables"   the game process restarts                                  *)
(***************************************************************************)
EXTENDS Lobby

CONSTANT FaultCases
ASSUME FaultsAssumption ==
  FaultCases \subseteq SUBSET {"timeout", "loss", "lobby", "tables"}

VARIABLES
  tables, seat,  \* of Tables
  wire,          \* the messages on their way
  faults

T == INSTANCE Tables

seatingVars == <<lobbyVars, tables, seat, wire, faults>>

Create(c)    == [kind |-> "create", game |-> c.game, group |-> c.group]
Created(g)   == [kind |-> "created", game |-> g, group |-> {}]
Completed(g) == [kind |-> "completed", game |-> g, group |-> {}]

SeatingInit == LobbyInit /\ T!TablesInit /\ wire = {} /\ faults \in FaultCases

-----------------------------------------------------------------------------
(* A request the lobby settles by itself. *)
LobbyRequest ==
  /\ \E a \in Account :
       \/ Ready(a)
       \/ Unready(a)
       \/ \E n \in MinSeats .. MaxSeats : UpdateSettings(a, n)
  /\ UNCHANGED <<tables, seat, wire, faults>>

(* startGame sends its call. *)
Start ==
  /\ \E a \in Account : StartGame(a)
  /\ wire' = wire \cup {Create(c) : c \in starting' \ starting}
  /\ UNCHANGED <<tables, seat, faults>>

(* The game process cannot be reached, and the call fails at once. *)
Unreachable ==
  \E c \in starting :
    /\ Create(c) \in wire
    /\ StartFails(c)
    /\ wire' = wire \ {Create(c)}
    /\ UNCHANGED <<tables, seat, faults>>

(* timeout(GAME_SERVER_TIMEOUT_MS): the lobby stops waiting.  What it has   *)
(* sent is not taken back.                                                  *)
TimesOut ==
  /\ "timeout" \in faults
  /\ \E c \in starting : StartFails(c)
  /\ UNCHANGED <<tables, seat, wire, faults>>

(* The game process deals a table and answers; calls arrive in their order. *)
Deal ==
  \E m \in wire :
    /\ m.kind = "create"
    /\ \A n \in wire : n.kind = "create" => m.game <= n.game
    /\ T!CreateTable(m.game, m.group)
    /\ wire' = (wire \ {m}) \cup {Created(m.game)}
    /\ UNCHANGED <<lobbyVars, faults>>

(* The answer arrives; nobody listens any more to one that is too late. *)
Answered ==
  \E m \in wire :
    /\ m.kind = "created"
    /\ \/ \E c \in starting : c.game = m.game /\ GameAccepted(c)
       \/ (\A c \in starting : c.game # m.game) /\ UNCHANGED lobbyVars
    /\ wire' = wire \ {m}
    /\ UNCHANGED <<tables, seat, faults>>

(* Sockets come and go, and a seat leaves a table that is over. *)
Socket ==
  /\ \E a \in Account : T!Connect(a) \/ T!Disconnect(a) \/ T!Leave(a)
  /\ UNCHANGED <<lobbyVars, wire, faults>>

(* A game ends, and its flush tells the lobby.  No game is over within the  *)
(* seconds a call may take.                                                 *)
GameEnds ==
  \E g \in DOMAIN tables :
    /\ Created(g) \notin wire
    /\ T!Conclude(g)
    /\ wire' = wire \cup {Completed(g)}
    /\ UNCHANGED <<lobbyVars, faults>>

Notified ==
  \E m \in wire :
    /\ m.kind = "completed"
    /\ CompleteGame(m.game)
    /\ wire' = wire \ {m}
    /\ UNCHANGED <<tables, seat, faults>>

Lost ==
  /\ "loss" \in faults
  /\ \E m \in wire : wire' = wire \ {m}
  /\ UNCHANGED <<lobbyVars, tables, seat, faults>>

(* A restarted process hears nothing of what was on its way to it. *)
LobbyRestarts ==
  /\ "lobby" \in faults
  /\ RestartLobby
  /\ wire' = {m \in wire : m.kind = "create"}
  /\ UNCHANGED <<tables, seat, faults>>

TablesRestart ==
  /\ "tables" \in faults
  /\ T!RestartTables
  /\ wire' = {m \in wire : m.kind # "create"}
  /\ UNCHANGED <<lobbyVars, faults>>

SeatingNext ==
  \/ LobbyRequest \/ Start \/ Unreachable \/ TimesOut
  \/ Deal \/ Answered \/ Socket \/ GameEnds \/ Notified
  \/ Lost \/ LobbyRestarts \/ TablesRestart

(* What is sent and not lost arrives, and a timer that runs fires. *)
SeatingSpec ==
  /\ SeatingInit /\ [][SeatingNext]_seatingVars
  /\ WF_seatingVars(Deal) /\ WF_seatingVars(Answered)
  /\ WF_seatingVars(Notified) /\ WF_seatingVars(TimesOut)

-----------------------------------------------------------------------------
(* An account the lobby counts as in a game has a seat at that table, even  *)
(* when the ready list moved while the call was out, calls timed out and    *)
(* processes restarted (startGame assigns the group it sent, not the list   *)
(* it finds).                                                               *)
AssignedIsSeated ==
  \A a \in Account : assigned[a] \in DOMAIN tables => a \in tables[assigned[a]].players

(* A table that is not over has its whole group assigned to it, or will     *)
(* have with the answer that is on its way: no table is dealt to accounts   *)
(* the lobby counts as free, as long as nothing fails.                      *)
NoOrphanTable ==
  faults = {} => \A g \in DOMAIN tables : tables[g].phase # "over" =>
    \/ Created(g) \in wire /\ \E c \in starting : c.game = g
    \/ \A a \in tables[g].players : assigned[a] = g

(* Everybody in a game that is over may sit down again, at the latest when  *)
(* the notice has arrived; nobody sends it twice, so it must not be lost.   *)
FreedAfterTheEnd ==
  []<>(faults = {} => \A g \in DOMAIN tables : tables[g].phase = "over" =>
                        \A a \in Account : assigned[a] # g)

-----------------------------------------------------------------------------
(* Claims of the documentation that the code does not keep. *)

(* findByAccount: an account has one table, so the first is the only one. *)
FirstIsTheOnly == \A a \in Account : Cardinality(T!TablesOf(a)) <= 1

=============================================================================
