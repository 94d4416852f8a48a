-------------------------------- MODULE Lobby --------------------------------
(***************************************************************************)
(* LobbyService with its two stores: the ordered ready list, the host's    *)
(* settings, the assignment of accounts to games, and the start of a game. *)
(*                                                                         *)
(* Both stores live in the process's memory, so the awaits on them are     *)
(* microtasks and a request runs to its end in one step.  The one await    *)
(* that lets other requests in is the call to the game server in           *)
(* startGame; StartGame is the part before it, GameAccepted and StartFails *)
(* the part after it.  A request that is refused changes nothing and is    *)
(* not a step.                                                             *)
(***************************************************************************)
EXTENDS Integers, Sequences, FiniteSets, SequencesExt

CONSTANTS
  Account,    \* the accounts that can sign in
  MinSeats,   \* MIN_PLAYER_COUNT
  MaxSeats,   \* MAX_PLAYER_COUNT, the default of the settings too
  MaxStarts   \* bound: how many calls to the game server a behaviour makes

ASSUME LobbyAssumption ==
  /\ MinSeats \in Nat \ {0}
  /\ MaxSeats \in Nat
  /\ MinSeats <= MaxSeats
  /\ MaxStarts \in Nat

(* The n-th call makes game n: ids are fresh, which is all the code needs. *)
Game   == 1 .. MaxStarts
NoGame == 0

VARIABLES
  ready,                \* readyPlayers; the first is the host
  seats,                \* settings.playerCount
  assigned,             \* assignmentsByAccountId
  gameStartInProgress,  \* the service's flag
  starting,             \* the calls to the game server that have not returned
  calls                 \* how many calls there have been

lobbyVars == <<ready, seats, assigned, gameStartInProgress, starting, calls>>

LobbyInit ==
  /\ ready = <<>>
  /\ seats = MaxSeats
  /\ assigned = [a \in Account |-> NoGame]
  /\ gameStartInProgress = FALSE
  /\ starting = {}
  /\ calls = 0

-----------------------------------------------------------------------------
(* removeReadyPlayer(s): the list without some accounts, order kept. *)
Without(list, accounts) ==
  LET Kept[n \in 0 .. Len(list)] ==
        IF n = 0 THEN <<>>
        ELSE IF list[n] \in accounts THEN Kept[n - 1]
        ELSE Append(Kept[n - 1], list[n])
  IN  Kept[Len(list)]

IsHost(a) == ready # <<>> /\ ready[1] = a

(* Nobody in a game may sit down, and the list holds at most `seats`. *)
Ready(a) ==
  /\ assigned[a] = NoGame
  /\ a \notin ToSet(ready)
  /\ Len(ready) < seats
  /\ ready' = Append(ready, a)
  /\ UNCHANGED <<seats, assigned, gameStartInProgress, starting, calls>>

Unready(a) ==
  /\ a \in ToSet(ready)
  /\ ready' = Without(ready, {a})
  /\ UNCHANGED <<seats, assigned, gameStartInProgress, starting, calls>>

(* A smaller table closes seats from the back of the list. *)
UpdateSettings(a, playerCount) ==
  /\ IsHost(a)
  /\ seats' = playerCount
  /\ ready' = Without(ready, ToSet(SubSeq(ready, playerCount + 1, Len(ready))))
  /\ UNCHANGED <<assigned, gameStartInProgress, starting, calls>>

(* Slip: the flag is not looked at. *)
SlipIgnoreFlag(a) ==
  /\ IsHost(a)
  /\ Len(ready) \in MinSeats .. seats
  /\ \A b \in ToSet(ready) : assigned[b] = NoGame
  /\ calls < MaxStarts
  /\ gameStartInProgress' = TRUE
  /\ starting' = starting \cup {[game |-> calls + 1, group |-> ToSet(ready)]}
  /\ calls' = calls + 1
  /\ UNCHANGED <<ready, seats, assigned>>

(* startGame up to the await: the group is fixed here and the flag is up. *)
StartGame(a) ==
  /\ ~gameStartInProgress
  /\ IsHost(a)
  /\ Len(ready) \in MinSeats .. seats
  /\ \A b \in ToSet(ready) : assigned[b] = NoGame
  /\ calls < MaxStarts
  /\ gameStartInProgress' = TRUE
  /\ starting' = starting \cup {[game |-> calls + 1, group |-> ToSet(ready)]}
  /\ calls' = calls + 1
  /\ UNCHANGED <<ready, seats, assigned>>

(* Slip: the list is read again after the await. *)
SlipReread(c) ==
  /\ c \in starting
  /\ starting' = starting \ {c}
  /\ gameStartInProgress' = FALSE
  /\ assigned' = [a \in Account |-> IF a \in ToSet(ready) THEN c.game ELSE assigned[a]]
  /\ ready' = <<>>
  /\ UNCHANGED <<seats, calls>>

(* Slip: the first so many seats are freed, not the group's. *)
SlipFreeFront(c) ==
  /\ c \in starting
  /\ starting' = starting \ {c}
  /\ gameStartInProgress' = FALSE
  /\ assigned' = [a \in Account |-> IF a \in c.group THEN c.game ELSE assigned[a]]
  /\ ready' = SubSeq(ready, Cardinality(c.group) + 1, Len(ready))
  /\ UNCHANGED <<seats, calls>>

(* The game server has answered: assign the whole group, then free its seats. *)
(* The assignment store refuses the whole group when any of it is in a game.  *)
GameAccepted(c) ==
  /\ c \in starting
  /\ starting' = starting \ {c}
  /\ gameStartInProgress' = FALSE
  /\ IF \A a \in c.group : assigned[a] = NoGame
       THEN /\ assigned' = [a \in Account |->
                              IF a \in c.group THEN c.game ELSE assigned[a]]
            /\ ready' = Without(ready, c.group)
       ELSE UNCHANGED <<assigned, ready>>
  /\ UNCHANGED <<seats, calls>>

(* Slip: the flag stays up when the call fails. *)
SlipFlagStays(c) ==
  /\ c \in starting
  /\ starting' = starting \ {c}
  /\ UNCHANGED <<ready, seats, assigned, gameStartInProgress, calls>>

(* The call was refused or took longer than GAME_SERVER_TIMEOUT_MS. *)
StartFails(c) ==
  /\ c \in starting
  /\ starting' = starting \ {c}
  /\ gameStartInProgress' = FALSE
  /\ UNCHANGED <<ready, seats, assigned, calls>>

(* Slip: one completion frees one account. *)
SlipFreeOne(g) ==
  /\ \E a \in Account :
       /\ assigned[a] = g
       /\ assigned' = [assigned EXCEPT ![a] = NoGame]
  /\ UNCHANGED <<ready, seats, gameStartInProgress, starting, calls>>

CompleteGame(g) ==
  /\ assigned' = [a \in Account |-> IF assigned[a] = g THEN NoGame ELSE assigned[a]]
  /\ UNCHANGED <<ready, seats, gameStartInProgress, starting, calls>>

(* The lobby process is restarted; everything it knew was in memory. *)
RestartLobby ==
  /\ ready' = <<>>
  /\ seats' = MaxSeats
  /\ assigned' = [a \in Account |-> NoGame]
  /\ gameStartInProgress' = FALSE
  /\ starting' = {}
  /\ UNCHANGED calls

-----------------------------------------------------------------------------
(* The lobby with a game server that answers, refuses and completes at any   *)
(* time, and restarts of its own; a game does not end before the call that   *)
(* made it has returned.                                                     *)
Request ==
  \E a \in Account :
    \/ Ready(a)
    \/ Unready(a)
    \/ \E n \in MinSeats .. MaxSeats : UpdateSettings(a, n)
    \/ StartGame(a)

Answer == \E c \in starting : GameAccepted(c) \/ StartFails(c)

Completion ==
  \E g \in 1 .. calls :
    /\ \A c \in starting : c.game # g
    /\ CompleteGame(g)

LobbyNext == Request \/ Answer \/ Completion \/ RestartLobby

(* Every call returns: the client puts a timeout on it. *)
LobbySpec == LobbyInit /\ [][LobbyNext]_lobbyVars /\ WF_lobbyVars(Answer)

-----------------------------------------------------------------------------
LobbyTypeOK ==
  /\ ready \in Seq(Account)
  /\ seats \in MinSeats .. MaxSeats
  /\ assigned \in [Account -> Game \cup {NoGame}]
  /\ gameStartInProgress \in BOOLEAN
  /\ starting \subseteq [game : Game, group : SUBSET Account]
  /\ calls \in 0 .. MaxStarts

(* Nobody waits for a game while being in one (lobby.service.ts: ready and  *)
(* startGame keep the list and the assignments apart, across an await       *)
(* during which the list moves).                                            *)
ReadyIsFree == \A a \in ToSet(ready) : assigned[a] = NoGame

(* Never more ready accounts than the host's table seats, and nobody twice, *)
(* whatever the host changes while accounts come and go.                    *)
ReadyFitsTable ==
  /\ Len(ready) <= seats
  /\ \A i, j \in DOMAIN ready : ready[i] = ready[j] => i = j

(* A group whose start is on its way stays free until it is answered, so    *)
(* the assignment store never refuses a group the game server accepted.     *)
StartingIsFree ==
  \A c \in starting : \A a \in c.group : assigned[a] = NoGame

(* A start always ends, and with it the refusal of every other start.       *)
StartEnds == []<>~gameStartInProgress

(* The lobby does what LobbyContract promises. *)
Promise == INSTANCE LobbyContract WITH
             ready <- ToSet(ready),
             dealt <- (1 .. calls) \ {c.game : c \in starting}
Contract == Promise!ContractSpec

=============================================================================
