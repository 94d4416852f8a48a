---------------------------- MODULE SeatingProofs ----------------------------
(***************************************************************************)
(* Theorems about Seating, for any accounts, any bounds and every fault in *)
(* any combination.                                                        *)
(***************************************************************************)
EXTENDS Seating, LobbyProofs

-----------------------------------------------------------------------------
(* The invariant.  A game has one id, and its call is in one place after    *)
(* the other: a create on the wire, a table and what is said about it, an   *)
(* assignment.  So nobody is assigned to a game whose create is still to be *)
(* heard, and what is dealt is what was asked for.                          *)

Id == Nat \ {0}
AreTables(f) ==
  /\ DOMAIN f \subseteq Id
  /\ f = [g \in DOMAIN f |-> f[g]]
  /\ \A g \in DOMAIN f : {"players", "phase"} \subseteq DOMAIN f[g]

SeatingTypes ==
  /\ calls \in Nat
  /\ assigned \in [Account -> Nat]
  /\ \A c \in starting : c.game \in Id
  /\ \A m \in wire : m.game \in Id
  /\ AreTables(tables)

(* The ids in use are those of calls that have been made. *)
IdsAreUsed ==
  /\ \A a \in Account : assigned[a] <= calls
  /\ \A c \in starting : c.game <= calls
  /\ \A m \in wire : m.game <= calls
  /\ \A g \in DOMAIN tables : g <= calls

(* A create that is still to be heard is the only thing there is about its  *)
(* game, besides the call that waits for it.                                *)
NothingBeforeCreate ==
  \A m \in wire : m.kind = "create" =>
    /\ m.game \notin DOMAIN tables
    /\ \A n \in wire : n.game = m.game => n = m
    /\ \A a \in Account : assigned[a] # m.game
    /\ \A c \in starting : c.game = m.game => c.group = m.group

(* The table of a call that has not returned seats its group. *)
DealtAsAsked ==
  \A c \in starting : c.game \in DOMAIN tables =>
    c.group = tables[c.game].players

SeatInv ==
  SeatingTypes /\ IdsAreUsed /\ NothingBeforeCreate /\ DealtAsAsked
  /\ AssignedIsSeated

LEMMA InitSeatInv == SeatingInit => SeatInv
<1> SUFFICES ASSUME SeatingInit PROVE SeatInv
  OBVIOUS
<1> USE DEF SeatingInit, LobbyInit, T!TablesInit, NoGame
<1>1. SeatingTypes
  BY DEF SeatingTypes, AreTables, Id
<1>2. IdsAreUsed
  BY DEF IdsAreUsed
<1> QED
  BY <1>1, <1>2 DEF SeatInv, NothingBeforeCreate, DealtAsAsked, AssignedIsSeated

-----------------------------------------------------------------------------
(* Most steps only take away: messages, calls, assignments, tables.  What   *)
(* they say is about a game that has a table.                               *)

TablesShrink ==
  /\ DOMAIN tables' \subseteq DOMAIN tables
  /\ AreTables(tables')
  /\ \A g \in DOMAIN tables' :
        /\ tables'[g].players = tables[g].players
        /\ tables[g].phase = "over" => tables'[g].phase = "over"

LobbyShrinks ==
  /\ calls' = calls
  /\ starting' \subseteq starting
  /\ assigned' \in [Account -> Nat]
  /\ \A a \in Account : assigned'[a] \in {assigned[a], NoGame}

WireShrinks ==
  \A m \in wire' : m \in wire \/ (m.kind # "create" /\ m.game \in DOMAIN tables)

LEMMA ShrinkingStep ==
  ASSUME SeatInv, TablesShrink, LobbyShrinks, WireShrinks
  PROVE  SeatInv'
<1> USE DEF SeatInv, TablesShrink, LobbyShrinks, WireShrinks
<1>1. SeatingTypes'
  BY DEF SeatingTypes, AreTables
<1>2. IdsAreUsed'
  BY DEF IdsAreUsed, SeatingTypes, NoGame
<1>3. NothingBeforeCreate'
  <2> SUFFICES ASSUME NEW m \in wire', m.kind = "create"
               PROVE  /\ m.game \notin DOMAIN tables'
                      /\ \A n \in wire' : n.game = m.game => n = m
                      /\ \A a \in Account : assigned'[a] # m.game
                      /\ \A c \in starting' : c.game = m.game => c.group = m.group
    BY DEF NothingBeforeCreate
  <2>1. m \in wire /\ m.game # NoGame
    BY DEF SeatingTypes, Id, NoGame
  <2> QED
    BY <2>1 DEF NothingBeforeCreate
<1>4. DealtAsAsked'
  BY DEF DealtAsAsked
<1>5. AssignedIsSeated'
  <2> SUFFICES ASSUME NEW a \in Account, assigned'[a] \in DOMAIN tables'
               PROVE  a \in tables'[assigned'[a]].players
    BY DEF AssignedIsSeated
  <2>1. assigned'[a] = assigned[a]
    BY DEF SeatingTypes, AreTables, Id, NoGame
  <2> QED
    BY <2>1 DEF AssignedIsSeated
<1> QED
  BY <1>1, <1>2, <1>3, <1>4, <1>5

LEMMA SameTables == ASSUME SeatInv, UNCHANGED tables PROVE TablesShrink
BY DEF SeatInv, SeatingTypes, TablesShrink

LEMMA SameLobby == ASSUME SeatInv, UNCHANGED lobbyVars PROVE LobbyShrinks
BY DEF SeatInv, SeatingTypes, LobbyShrinks, lobbyVars

LEMMA LessWire == ASSUME SeatInv, wire' \subseteq wire PROVE WireShrinks
BY DEF SeatInv, SeatingTypes, WireShrinks

(* What the door does to a table leaves its players where they are. *)
LEMMA DoorShrinks ==
  ASSUME SeatInv, NEW a \in Account,
         T!Connect(a) \/ T!Disconnect(a) \/ T!Leave(a)
  PROVE  TablesShrink
<1> USE DEF SeatInv, SeatingTypes
<1>1. CASE T!Connect(a)
  <2> DEFINE g == T!FindByAccount(a)
  <2>1. tables' = [tables EXCEPT ![g] = T!Arrive(tables[g], a)]
    BY <1>1 DEF T!Connect
  <2>2. ASSUME NEW t, {"players", "phase"} \subseteq DOMAIN t
        PROVE  /\ {"players", "phase"} \subseteq DOMAIN T!Arrive(t, a)
               /\ T!Arrive(t, a).players = t.players
               /\ t.phase = "over" => T!Arrive(t, a).phase = "over"
    BY <2>2 DEF T!Arrive
  <2> HIDE DEF g
  <2>3. tables' = [h \in DOMAIN tables |->
                     IF h = g THEN T!Arrive(tables[g], a) ELSE tables[h]]
    BY <2>1
  <2> QED
    BY <2>2, <2>3 DEF TablesShrink, AreTables
<1>2. CASE T!Disconnect(a)
  BY <1>2, SameTables DEF T!Disconnect
<1>3. CASE T!Leave(a)
  <2> DEFINE g == seat[a]
             left == tables[g].left \cup {a}
  <2>1. g \in DOMAIN tables
    BY <1>3 DEF T!Leave
  <2>2. CASE tables' = [h \in DOMAIN tables \ {g} |-> tables[h]]
    BY <2>2 DEF TablesShrink, AreTables
  <2>3. CASE tables' = [tables EXCEPT ![g].left = left]
    BY <2>1, <2>3 DEF TablesShrink, AreTables
  <2> QED
    BY <1>3, <2>2, <2>3 DEF T!Leave
<1> QED
  BY <1>1, <1>2, <1>3

-----------------------------------------------------------------------------
(* The life of a call *)

LEMMA StartKeepsSeats == ASSUME SeatInv, Start PROVE SeatInv'
<1> USE DEF SeatInv, SeatingTypes
<1>1. PICK a \in Account : StartGame(a)
  BY DEF Start
<1> DEFINE c == [game |-> calls + 1, group |-> ToSet(ready)]
           m == Create(c)
<1>2. /\ starting' = starting \cup {c} /\ calls' = calls + 1
      /\ UNCHANGED <<assigned, tables>>
  BY <1>1 DEF StartGame, Start
<1>3. c \notin starting /\ calls + 1 \in Id
  BY DEF IdsAreUsed, Id
<1>4. wire' = wire \cup {m}
  BY <1>2, <1>3 DEF Start
<1>5. /\ m.kind = "create" /\ m.game = calls + 1 /\ m.group = c.group
      /\ c.game = calls + 1
  BY DEF Create
<1> HIDE DEF m, c
<1>6. SeatingTypes'
  BY <1>2, <1>3, <1>4, <1>5
<1>7. IdsAreUsed'
  <2>1. /\ calls \in Nat /\ calls' = calls + 1 /\ assigned \in [Account -> Nat]
        /\ \A k \in wire \cup starting : k.game \in Nat /\ k.game <= calls
        /\ \A g \in DOMAIN tables : g \in Nat /\ g <= calls
    BY <1>2 DEF IdsAreUsed, AreTables, Id
  <2>2. \A b \in Account : assigned'[b] <= calls'
    BY <1>2, <2>1 DEF IdsAreUsed
  <2>3. \A k \in wire' \cup starting' : k.game <= calls'
    BY <1>2, <1>4, <1>5, <2>1
  <2>4. \A g \in DOMAIN tables' : g <= calls'
    BY <1>2, <2>1
  <2> QED
    BY <2>2, <2>3, <2>4 DEF IdsAreUsed
<1>8. /\ calls + 1 \notin DOMAIN tables
      /\ \A n \in wire : n.game # calls + 1
      /\ \A b \in Account : assigned[b] # calls + 1
      /\ \A d \in starting : d.game # calls + 1
  BY DEF IdsAreUsed, AreTables, Id
<1>9. NothingBeforeCreate'
  <2> SUFFICES ASSUME NEW k \in wire', k.kind = "create"
               PROVE  /\ k.game \notin DOMAIN tables
                      /\ \A n \in wire' : n.game = k.game => n = k
                      /\ \A b \in Account : assigned[b] # k.game
                      /\ \A d \in starting' : d.game = k.game => d.group = k.group
    BY <1>2 DEF NothingBeforeCreate
  <2>1. CASE k = m
    BY <1>2, <1>4, <1>5, <1>8, <2>1
  <2>2. CASE k \in wire
    BY <1>2, <1>4, <1>5, <1>8, <2>2 DEF NothingBeforeCreate
  <2> QED
    BY <1>4, <2>1, <2>2
<1>10. DealtAsAsked'
  BY <1>2, <1>5, <1>8 DEF DealtAsAsked
<1>11. AssignedIsSeated'
  BY <1>2 DEF AssignedIsSeated
<1> QED
  BY <1>6, <1>7, <1>9, <1>10, <1>11

LEMMA DealKeepsSeats == ASSUME SeatInv, Deal PROVE SeatInv'
<1> USE DEF SeatInv, SeatingTypes
<1>1. PICK m \in wire :
        /\ m.kind = "create"
        /\ T!CreateTable(m.game, m.group)
        /\ wire' = (wire \ {m}) \cup {Created(m.game)}
        /\ UNCHANGED <<starting, assigned, calls>>
  BY DEF Deal, lobbyVars
<1> DEFINE said == Created(m.game)
<1>2. said.kind # "create" /\ said.game = m.game
  BY DEF Created
<1>3. wire' = (wire \ {m}) \cup {said}
  BY <1>1
<1> HIDE DEF said
<1>4. /\ DOMAIN tables' = DOMAIN tables \cup {m.game}
      /\ tables' = [g \in DOMAIN tables' |-> tables'[g]]
      /\ {"players", "phase"} \subseteq DOMAIN tables'[m.game]
      /\ tables'[m.game].players = m.group
      /\ \A g \in DOMAIN tables : g # m.game => tables'[g] = tables[g]
  BY <1>1 DEF T!CreateTable
<1>5. /\ m.game \in Id /\ m.game <= calls
      /\ \A n \in wire : n.game = m.game => n = m
      /\ \A a \in Account : assigned[a] # m.game
      /\ \A c \in starting : c.game = m.game => c.group = m.group
  BY <1>1 DEF NothingBeforeCreate, IdsAreUsed
<1>6. SeatingTypes'
  BY <1>1, <1>2, <1>3, <1>4, <1>5 DEF AreTables
<1>7. IdsAreUsed'
  BY <1>1, <1>2, <1>3, <1>4, <1>5 DEF IdsAreUsed
<1>8. NothingBeforeCreate'
  <2> SUFFICES ASSUME NEW k \in wire', k.kind = "create"
               PROVE  /\ k.game \notin DOMAIN tables'
                      /\ \A n \in wire' : n.game = k.game => n = k
                      /\ \A b \in Account : assigned[b] # k.game
                      /\ \A d \in starting : d.game = k.game => d.group = k.group
    BY <1>1 DEF NothingBeforeCreate
  <2>1. k \in wire /\ k # m /\ k.game # m.game
    BY <1>2, <1>3, <1>5
  <2> QED
    BY <1>2, <1>3, <1>4, <2>1 DEF NothingBeforeCreate
<1>9. DealtAsAsked'
  BY <1>1, <1>4, <1>5 DEF DealtAsAsked
<1>10. AssignedIsSeated'
  BY <1>1, <1>4, <1>5 DEF AssignedIsSeated
<1> QED
  BY <1>6, <1>7, <1>8, <1>9, <1>10

(* The group is assigned to the table that was dealt to it, or to one that  *)
(* is gone.                                                                 *)
LEMMA AcceptedKeepsSeats ==
  ASSUME SeatInv, NEW c \in starting, GameAccepted(c), UNCHANGED tables,
         NEW m \in wire, m.kind # "create", m.game = c.game, wire' = wire \ {m}
  PROVE  SeatInv'
<1> USE DEF SeatInv, SeatingTypes
<1>1. /\ starting' \subseteq starting /\ calls' = calls
      /\ assigned' \in [Account -> Nat]
      /\ \A a \in Account : \/ assigned'[a] = assigned[a]
                            \/ a \in c.group /\ assigned'[a] = c.game
  <2>1. c.game \in Nat
    BY DEF Id
  <2> QED
    BY <2>1 DEF GameAccepted
<1>2. SeatingTypes'
  BY <1>1
<1>3. IdsAreUsed'
  BY <1>1 DEF IdsAreUsed
<1>4. NothingBeforeCreate'
  <2>1. \A k \in wire : k.kind = "create" => k.game # c.game
    BY DEF NothingBeforeCreate
  <2> QED
    BY <1>1, <2>1 DEF NothingBeforeCreate
<1>5. DealtAsAsked'
  BY <1>1 DEF DealtAsAsked
<1>6. AssignedIsSeated'
  BY <1>1 DEF AssignedIsSeated, DealtAsAsked
<1> QED
  BY <1>2, <1>3, <1>4, <1>5, <1>6

-----------------------------------------------------------------------------
(* Every other step takes away *)

LEMMA RequestShrinks == ASSUME SeatInv, LobbyRequest PROVE LobbyShrinks
<1>1. UNCHANGED <<assigned, starting, calls>>
  BY DEF LobbyRequest, Ready, Unready, UpdateSettings
<1> QED
  BY <1>1 DEF SeatInv, SeatingTypes, LobbyShrinks

LEMMA FailureShrinks ==
  ASSUME SeatInv, NEW c, StartFails(c) PROVE LobbyShrinks
BY DEF StartFails, SeatInv, SeatingTypes, LobbyShrinks

LEMMA CompletionShrinks ==
  ASSUME SeatInv, NEW g, CompleteGame(g) PROVE LobbyShrinks
BY DEF CompleteGame, SeatInv, SeatingTypes, LobbyShrinks, NoGame

LEMMA RestartShrinks == ASSUME SeatInv, RestartLobby PROVE LobbyShrinks
BY DEF RestartLobby, SeatInv, SeatingTypes, LobbyShrinks, NoGame

LEMMA EndShrinks ==
  ASSUME SeatInv, GameEnds PROVE TablesShrink /\ LobbyShrinks /\ WireShrinks
<1>1. PICK g \in DOMAIN tables :
        /\ tables' = [tables EXCEPT ![g].phase = "over"]
        /\ wire' = wire \cup {Completed(g)}
        /\ UNCHANGED lobbyVars
  BY DEF GameEnds, T!Conclude
<1>2. TablesShrink
  BY <1>1 DEF TablesShrink, AreTables, SeatInv, SeatingTypes
<1>3. WireShrinks
  BY <1>1 DEF WireShrinks, Completed
<1> QED
  BY <1>1, <1>2, <1>3, SameLobby

LEMMA NextSeatInv == SeatInv /\ [SeatingNext]_seatingVars => SeatInv'
<1> SUFFICES ASSUME SeatInv, [SeatingNext]_seatingVars PROVE SeatInv'
  OBVIOUS
<1>1. CASE LobbyRequest
  BY <1>1, RequestShrinks, SameTables, LessWire, ShrinkingStep DEF LobbyRequest
<1>2. CASE Unreachable
  BY <1>2, FailureShrinks, SameTables, LessWire, ShrinkingStep DEF Unreachable
<1>3. CASE TimesOut
  BY <1>3, FailureShrinks, SameTables, LessWire, ShrinkingStep DEF TimesOut
<1>4. CASE Answered
  <2>1. PICK m \in wire :
          /\ m.kind = "created"
          /\ \/ \E c \in starting : c.game = m.game /\ GameAccepted(c)
             \/ UNCHANGED lobbyVars
          /\ wire' = wire \ {m} /\ UNCHANGED tables
    BY <1>4 DEF Answered
  <2> QED
    BY <2>1, AcceptedKeepsSeats, SameLobby, SameTables, LessWire, ShrinkingStep
<1>5. CASE Socket
  BY <1>5, DoorShrinks, SameLobby, LessWire, ShrinkingStep DEF Socket
<1>6. CASE GameEnds
  BY <1>6, EndShrinks, ShrinkingStep
<1>7. CASE Notified
  <2>1. PICK m \in wire : /\ CompleteGame(m.game) /\ wire' = wire \ {m}
                          /\ UNCHANGED tables
    BY <1>7 DEF Notified
  <2> QED
    BY <2>1, CompletionShrinks, SameTables, LessWire, ShrinkingStep
<1>8. CASE Lost
  BY <1>8, SameLobby, SameTables, LessWire, ShrinkingStep DEF Lost
<1>9. CASE LobbyRestarts
  BY <1>9, RestartShrinks, SameTables, LessWire, ShrinkingStep DEF LobbyRestarts
<1>10. CASE TablesRestart
  <2>1. TablesShrink
    BY <1>10 DEF TablesRestart, T!RestartTables, TablesShrink, AreTables
  <2> QED
    BY <1>10, <2>1, SameLobby, LessWire, ShrinkingStep DEF TablesRestart
<1>11. CASE UNCHANGED seatingVars
  BY <1>11, SameLobby, SameTables, LessWire, ShrinkingStep DEF seatingVars
<1> QED
  BY <1>1, <1>2, <1>3, <1>4, <1>5, <1>6, <1>7, <1>8, <1>9, <1>10, <1>11,
     StartKeepsSeats, DealKeepsSeats DEF SeatingNext

-----------------------------------------------------------------------------
(* The lobby's own invariant holds whatever happens outside the lobby. *)

LEMMA LobbyInvStep == IInv /\ [SeatingNext]_seatingVars => IInv'
<1> SUFFICES ASSUME IInv, [SeatingNext]_seatingVars PROVE IInv'
  OBVIOUS
<1>1. CASE UNCHANGED lobbyVars
  BY <1>1 DEF IInv, LobbyTypeOK, OneCall, ReadyIsFree, StartingIsFree,
              ReadyFitsTable, lobbyVars
<1>2. CASE LobbyRequest
  BY <1>2, ReadyStep, UnreadyStep, SettingsStep DEF LobbyRequest
<1>3. CASE Start
  BY <1>3, StartStep DEF Start
<1>4. CASE Unreachable \/ TimesOut
  BY <1>4, FailsStep DEF Unreachable, TimesOut
<1>5. CASE Answered
  BY <1>1, <1>5, AcceptedStep DEF Answered
<1>6. CASE Notified
  BY <1>6, CompleteStep DEF Notified
<1>7. CASE LobbyRestarts
  BY <1>7, RestartStep DEF LobbyRestarts
<1>8. CASE Deal \/ Socket \/ GameEnds \/ Lost \/ TablesRestart
  BY <1>1, <1>8 DEF Deal, Socket, GameEnds, Lost, TablesRestart
<1>9. CASE UNCHANGED seatingVars
  BY <1>1, <1>9 DEF seatingVars
<1> QED
  BY <1>2, <1>3, <1>4, <1>5, <1>6, <1>7, <1>8, <1>9 DEF SeatingNext

-----------------------------------------------------------------------------
(* No table without its group, as long as nothing fails.  A create on its   *)
(* way has a call that waits for it, and a completion is about a game that  *)
(* is over, so that it frees nobody who still plays.                        *)

Awaited == \A m \in wire : m.kind = "create" => \E c \in starting : c.game = m.game

Reported ==
  \A m \in wire : m.kind = "completed" /\ m.game \in DOMAIN tables
                  => tables[m.game].phase = "over"

HasItsGroup(g) ==
  \/ tables[g].phase = "over"
  \/ Created(g) \in wire /\ \E c \in starting : c.game = g
  \/ \A a \in tables[g].players : assigned[a] = g

OfAccounts ==
  /\ \A m \in wire : m.group \subseteq Account
  /\ \A g \in DOMAIN tables : tables[g].players \subseteq Account

GroupInv ==
  Awaited /\ Reported /\ OfAccounts /\ \A g \in DOMAIN tables : HasItsGroup(g)
Inv == SeatInv /\ IInv /\ (faults = {} => GroupInv)

(* Steps after which everybody who waited waits, and who plays plays. *)
LEMMA SteadyStep ==
  ASSUME GroupInv, TablesShrink, UNCHANGED assigned, starting \subseteq starting',
         \A g : Created(g) \in wire => Created(g) \in wire',
         \A m \in wire' \ wire :
            /\ m.group \subseteq Account
            /\ m.kind = "create" => \E c \in starting' : c.game = m.game
            /\ m.kind = "completed" /\ m.game \in DOMAIN tables'
                 => tables'[m.game].phase = "over"
  PROVE  GroupInv'
<1> USE DEF GroupInv, TablesShrink
<1>1. Awaited'
  BY DEF Awaited
<1>2. Reported'
  BY DEF Reported
<1>3. OfAccounts'
  BY DEF OfAccounts
<1>4. ASSUME NEW g \in DOMAIN tables' PROVE HasItsGroup(g)'
  <2>1. Created(g)' = Created(g)
    BY DEF Created
  <2> QED
    BY <2>1 DEF HasItsGroup
<1> QED
  BY <1>1, <1>2, <1>3, <1>4

LEMMA StartKeepsGroups ==
  ASSUME SeatInv, IInv', GroupInv, Start PROVE GroupInv'
<1>1. UNCHANGED <<assigned, tables>> /\ starting \subseteq starting'
      /\ wire' = wire \cup {Create(c) : c \in starting' \ starting}
  BY DEF Start, StartGame
<1>2. \A m \in wire' \ wire : /\ m.kind = "create"
                            /\ \E c \in starting' : m.game = c.game /\ m.group = c.group
  BY <1>1 DEF Create
<1>3. \A c \in starting' : c.group \subseteq Account
  BY DEF IInv, LobbyTypeOK
<1>4. TablesShrink
  BY <1>1, SameTables
<1> QED
  BY <1>1, <1>2, <1>3, <1>4, SteadyStep

(* A call that cannot be made has no table. *)
LEMMA UnreachableKeepsGroups ==
  ASSUME SeatInv, GroupInv, Unreachable PROVE GroupInv'
<1> USE DEF GroupInv
<1>1. PICK c \in starting :
        /\ Create(c) \in wire /\ wire' = wire \ {Create(c)}
        /\ starting' = starting \ {c} /\ UNCHANGED <<assigned, tables>>
  BY DEF Unreachable, StartFails
<1>2. Create(c).kind = "create" /\ Create(c).game = c.game
  BY DEF Create
<1> DEFINE m == Create(c)
<1> HIDE DEF m
<1>3. c.game \notin DOMAIN tables /\ \A n \in wire : n.game = c.game => n = m
  BY <1>1, <1>2 DEF m, SeatInv, NothingBeforeCreate
<1>4. Awaited'
  BY <1>1, <1>3 DEF Awaited, m
<1>5. Reported'
  BY <1>1 DEF Reported
<1>6. OfAccounts'
  BY <1>1 DEF OfAccounts
<1>7. ASSUME NEW g \in DOMAIN tables' PROVE HasItsGroup(g)'
  <2>1. Created(g)' = Created(g) /\ Created(g) # Create(c)
    BY DEF Created, Create
  <2> QED
    BY <1>1, <1>3, <2>1 DEF HasItsGroup
<1> QED
  BY <1>4, <1>5, <1>6, <1>7

LEMMA DealKeepsGroups == ASSUME SeatInv, GroupInv, Deal PROVE GroupInv'
<1> USE DEF GroupInv
<1>1. PICK m \in wire :
        /\ m.kind = "create"
        /\ T!CreateTable(m.game, m.group)
        /\ wire' = (wire \ {m}) \cup {Created(m.game)}
        /\ UNCHANGED <<starting, assigned>>
  BY DEF Deal, lobbyVars
<1>2. \A g : /\ Created(g).kind = "created" /\ Created(g).group = {}
             /\ Created(g)' = Created(g)
  BY DEF Created
<1>3. /\ DOMAIN tables' = DOMAIN tables \cup {m.game}
      /\ tables'[m.game].players = m.group
      /\ \A g \in DOMAIN tables : g # m.game => tables'[g] = tables[g]
  BY <1>1 DEF T!CreateTable
<1>4. \A n \in wire : n.game = m.game => n = m
  BY <1>1 DEF SeatInv, NothingBeforeCreate
<1>5. Awaited'
  BY <1>1, <1>2 DEF Awaited
<1>6. Reported'
  BY <1>1, <1>2, <1>3, <1>4 DEF Reported
<1>7. OfAccounts'
  BY <1>1, <1>2, <1>3 DEF OfAccounts
<1>8. ASSUME NEW g \in DOMAIN tables' PROVE HasItsGroup(g)'
  <2>1. CASE g = m.game
    BY <1>1, <1>2, <2>1 DEF HasItsGroup, Awaited
  <2>2. CASE g # m.game
    BY <1>1, <1>2, <1>3, <2>2 DEF HasItsGroup
  <2> QED
    BY <2>1, <2>2
<1> QED
  BY <1>5, <1>6, <1>7, <1>8

(* The whole group enters, since all of it is free (StartingIsFree). *)
LEMMA AnsweredKeepsGroups ==
  ASSUME SeatInv, IInv, GroupInv, Answered PROVE GroupInv'
<1> USE DEF GroupInv
<1>1. PICK m \in wire :
        /\ m.kind = "created" /\ wire' = wire \ {m} /\ UNCHANGED tables
        /\ \/ \E c \in starting : c.game = m.game /\ GameAccepted(c)
           \/ (\A c \in starting : c.game # m.game) /\ UNCHANGED lobbyVars
  BY DEF Answered
<1>2. \A g : Created(g)' = Created(g) /\ Created(g).game = g
  BY DEF Created
<1>3. Reported' /\ OfAccounts'
  BY <1>1 DEF Reported, OfAccounts
<1>4. CASE (\A c \in starting : c.game # m.game) /\ UNCHANGED lobbyVars
  BY <1>1, <1>2, <1>3, <1>4 DEF Awaited, HasItsGroup, lobbyVars
<1>5. ASSUME NEW c \in starting, c.game = m.game, GameAccepted(c) PROVE GroupInv'
  <2>1. \A a \in c.group : a \in Account /\ assigned[a] = NoGame
    BY DEF IInv, StartingIsFree, LobbyTypeOK
  <2>2. /\ starting' = starting \ {c}
        /\ assigned' = [a \in Account |->
                          IF a \in c.group THEN c.game ELSE assigned[a]]
    BY <1>5, <2>1 DEF GameAccepted
  <2>3. \A n \in wire : n.kind = "create" => n.game # c.game
    BY <1>1, <1>5 DEF SeatInv, NothingBeforeCreate
  <2>4. Awaited'
    BY <1>1, <2>2, <2>3 DEF Awaited
  <2>5. ASSUME NEW g \in DOMAIN tables' PROVE HasItsGroup(g)'
    <3>1. g \in DOMAIN tables /\ g # NoGame
      BY <1>1 DEF SeatInv, SeatingTypes, AreTables, Id, NoGame
    <3>2. CASE g = c.game
      BY <1>1, <2>1, <2>2, <3>1, <3>2 DEF HasItsGroup, SeatInv, DealtAsAsked
    <3>3. CASE g # c.game /\ Created(g) \in wire /\ \E d \in starting : d.game = g
      BY <1>1, <1>2, <1>5, <2>2, <3>3 DEF HasItsGroup
    <3>4. CASE g # c.game /\ \A a \in tables[g].players : assigned[a] = g
      <4>1. ASSUME NEW a \in tables[g].players PROVE assigned'[a] = g
        <5>1. assigned[a] = g /\ a \notin c.group
          BY <2>1, <3>1, <3>4
        <5>2. a \in Account
          BY <3>1 DEF OfAccounts
        <5> QED
          BY <2>2, <5>1, <5>2
      <4> QED
        BY <1>1, <4>1 DEF HasItsGroup
    <3> QED
      BY <1>1, <3>1, <3>2, <3>3, <3>4 DEF HasItsGroup
  <2> QED
    BY <1>3, <2>4, <2>5
<1> QED
  BY <1>1, <1>4, <1>5

LEMMA SocketKeepsGroups == ASSUME SeatInv, GroupInv, Socket PROVE GroupInv'
<1>1. TablesShrink /\ UNCHANGED <<assigned, starting, wire>>
  BY DoorShrinks DEF Socket, lobbyVars
<1> QED
  BY <1>1, SteadyStep

LEMMA EndKeepsGroups == ASSUME SeatInv, GroupInv, GameEnds PROVE GroupInv'
<1>1. PICK g \in DOMAIN tables :
        /\ tables' = [tables EXCEPT ![g].phase = "over"]
        /\ wire' = wire \cup {Completed(g)}
        /\ UNCHANGED <<assigned, starting>>
  BY DEF GameEnds, T!Conclude, lobbyVars
<1>2. tables'[g].phase = "over"
  BY <1>1 DEF SeatInv, SeatingTypes, AreTables
<1>3. \A m \in wire' \ wire : m.kind = "completed" /\ m.game = g /\ m.group = {}
  BY <1>1 DEF Completed
<1> QED
  BY <1>1, <1>2, <1>3, EndShrinks, SteadyStep

(* The end frees those who were at a table that is over, or gone. *)
LEMMA NotifiedKeepsGroups == ASSUME SeatInv, GroupInv, Notified PROVE GroupInv'
<1> USE DEF GroupInv
<1>1. PICK m \in wire :
        /\ m.kind = "completed" /\ wire' = wire \ {m}
        /\ assigned' = [a \in Account |->
                          IF assigned[a] = m.game THEN NoGame ELSE assigned[a]]
        /\ UNCHANGED <<tables, starting>>
  BY DEF Notified, CompleteGame
<1>2. Awaited' /\ Reported' /\ OfAccounts'
  BY <1>1 DEF Awaited, Reported, OfAccounts
<1>3. ASSUME NEW g \in DOMAIN tables' PROVE HasItsGroup(g)'
  <2>1. Created(g)' = Created(g) /\ Created(g) # m
    BY <1>1 DEF Created
  <2>2. CASE g = m.game
    BY <1>1, <2>2 DEF Reported, HasItsGroup
  <2>3. CASE g # m.game
    BY <1>1, <2>1, <2>3 DEF HasItsGroup, OfAccounts
  <2> QED
    BY <2>2, <2>3
<1> QED
  BY <1>2, <1>3

LEMMA RequestKeepsGroups ==
  ASSUME SeatInv, GroupInv, LobbyRequest \/ UNCHANGED seatingVars PROVE GroupInv'
<1>1. UNCHANGED <<assigned, starting, tables, wire>>
  BY DEF LobbyRequest, Ready, Unready, UpdateSettings, seatingVars, lobbyVars
<1> QED
  BY <1>1, SameTables, SteadyStep

LEMMA InitInv == SeatingInit => Inv
<1> SUFFICES ASSUME SeatingInit PROVE Inv
  OBVIOUS
<1>1. GroupInv
  BY DEF SeatingInit, T!TablesInit, GroupInv, Awaited, Reported, OfAccounts
<1> QED
  BY <1>1, InitSeatInv, InitIInv DEF Inv, SeatingInit

LEMMA NextInv == Inv /\ [SeatingNext]_seatingVars => Inv'
<1> SUFFICES ASSUME Inv, [SeatingNext]_seatingVars PROVE Inv'
  OBVIOUS
<1> USE DEF Inv
<1>1. SeatInv' /\ IInv'
  BY NextSeatInv, LobbyInvStep
<1>2. faults' = faults
  BY DEF SeatingNext, LobbyRequest, Start, Unreachable, TimesOut, Deal, Answered,
         Socket, GameEnds, Notified, Lost, LobbyRestarts, TablesRestart, seatingVars
<1>3. ASSUME faults = {} PROVE GroupInv'
  <2>1. ~TimesOut /\ ~Lost /\ ~LobbyRestarts /\ ~TablesRestart
    BY <1>3 DEF TimesOut, Lost, LobbyRestarts, TablesRestart
  <2> QED
    BY <1>1, <1>3, <2>1, RequestKeepsGroups, StartKeepsGroups,
       UnreachableKeepsGroups, DealKeepsGroups, AnsweredKeepsGroups,
       SocketKeepsGroups, EndKeepsGroups, NotifiedKeepsGroups DEF SeatingNext
<1> QED
  BY <1>1, <1>2, <1>3

LEMMA AlwaysInv == SeatingSpec => []Inv
<1> QED
  BY InitInv, NextInv, PTL DEF SeatingSpec

-----------------------------------------------------------------------------
(* Whom the lobby counts as in a game has a seat at that game's table, if   *)
(* there still is one: whatever times out, is lost or restarts between      *)
(* startGame's call and its answer, the group assigned is the group seated. *)
THEOREM AssignedAreSeated == SeatingSpec => []AssignedIsSeated
<1>1. Inv => AssignedIsSeated
  BY DEF Inv, SeatInv
<1> QED
  BY <1>1, AlwaysInv, PTL

(* Every table that is not over has its whole group assigned to it, or will *)
(* have with the answer on its way (startGame, InternalGameController), as  *)
(* long as no call times out, nothing is lost and nobody restarts.          *)
THEOREM TablesHaveTheirGroups == SeatingSpec => []NoOrphanTable
<1>1. Inv => NoOrphanTable
  BY DEF Inv, GroupInv, HasItsGroup, NoOrphanTable
<1> QED
  BY <1>1, AlwaysInv, PTL

(* No account waits for a game while it is in one, whatever times out, is   *)
(* lost or restarts around the lobby (ready, startGame, completeGame).      *)
THEOREM ReadyStaysFreeOfFaults == SeatingSpec => []ReadyIsFree
<1>1. Inv => ReadyIsFree
  BY DEF Inv, IInv
<1> QED
  BY <1>1, AlwaysInv, PTL

(* Nor is anybody of a group assigned to another game while the group's own *)
(* start is out, so the assignment store refuses no group that was dealt.   *)
THEOREM StartingStaysFreeOfFaults == SeatingSpec => []StartingIsFree
<1>1. Inv => StartingIsFree
  BY DEF Inv, IInv
<1> QED
  BY <1>1, AlwaysInv, PTL

-----------------------------------------------------------------------------
(* The lobby keeps its contract among faults as well.  Every step of either *)
(* process is one of the lobby's own, or nothing the contract sees: no      *)
(* answer or notice, however late, starts or ends more than one game.       *)

LEMMA SeatingGoodGroups ==
  IInv /\ GoodGroups /\ [SeatingNext]_seatingVars => GoodGroups'
<1> SUFFICES ASSUME IInv, GoodGroups, [SeatingNext]_seatingVars PROVE GoodGroups'
  OBVIOUS
<1>1. ASSUME starting' \subseteq starting, calls' = calls PROVE GoodGroups'
  BY <1>1 DEF GoodGroups
<1>2. CASE Start
  <2>1. [LobbyNext]_lobbyVars
    BY <1>2 DEF Start, LobbyNext, Request
  <2> QED
    BY <2>1, NextGoodGroups
<1>3. CASE LobbyRequest
  BY <1>1, <1>3 DEF LobbyRequest, Ready, Unready, UpdateSettings
<1>4. CASE Unreachable \/ TimesOut
  BY <1>1, <1>4 DEF Unreachable, TimesOut, StartFails
<1>5. CASE Answered
  BY <1>1, <1>5 DEF Answered, GameAccepted, lobbyVars
<1>6. CASE Notified
  BY <1>1, <1>6 DEF Notified, CompleteGame
<1>7. CASE LobbyRestarts
  BY <1>1, <1>7 DEF LobbyRestarts, RestartLobby
<1>8. CASE \/ Deal \/ Socket \/ GameEnds \/ Lost \/ TablesRestart
           \/ UNCHANGED seatingVars
  BY <1>1, <1>8 DEF Deal, Socket, GameEnds, Lost, TablesRestart, seatingVars, lobbyVars
<1> QED
  BY <1>2, <1>3, <1>4, <1>5, <1>6, <1>7, <1>8 DEF SeatingNext

LEMMA SeatingRefines ==
  Inv /\ GoodGroups /\ [SeatingNext]_seatingVars
    => [Promise!ContractNext]_(Promise!contractVars)
<1> SUFFICES ASSUME Inv, GoodGroups, [SeatingNext]_seatingVars
             PROVE  [Promise!ContractNext]_(Promise!contractVars)
  OBVIOUS
<1>1. IInv /\ SeatInv
  BY DEF Inv
<1>2. ASSUME [LobbyNext]_lobbyVars
      PROVE  [Promise!ContractNext]_(Promise!contractVars)
  BY <1>1, <1>2, NextRefines
<1>3. CASE LobbyRequest \/ Start
  BY <1>2, <1>3 DEF LobbyRequest, Start, LobbyNext, Request
<1>4. CASE Unreachable \/ TimesOut
  BY <1>2, <1>4 DEF Unreachable, TimesOut, LobbyNext, Answer
<1>5. CASE Answered
  BY <1>2, <1>5 DEF Answered, LobbyNext, Answer
<1>6. CASE Notified
  <2>1. PICK m \in wire : CompleteGame(m.game)
    BY <1>6 DEF Notified
  <2>2. m.game \in Nat \ {0} /\ m.game <= calls
    BY <1>1 DEF SeatInv, SeatingTypes, Id, IdsAreUsed
  <2>3. calls \in 0 .. MaxStarts
    BY <1>1 DEF IInv, LobbyTypeOK
  <2>4. m.game \in Game
    BY <2>2, <2>3, LobbyAssumption DEF Game
  <2>5. Promise!End(m.game)
    BY <2>1 DEF CompleteGame, Promise!End
  <2> QED
    BY <2>4, <2>5 DEF Promise!ContractNext
<1>7. CASE LobbyRestarts
  BY <1>2, <1>7 DEF LobbyRestarts, LobbyNext
<1>8. CASE \/ Deal \/ Socket \/ GameEnds \/ Lost \/ TablesRestart
           \/ UNCHANGED seatingVars
  BY <1>2, <1>8 DEF Deal, Socket, GameEnds, Lost, TablesRestart, seatingVars
<1> QED
  BY <1>3, <1>4, <1>5, <1>6, <1>7, <1>8 DEF SeatingNext

(* Accounts see the same lobby whether or not calls time out, notices are   *)
(* lost and processes restart: a group enters a game whole, under an id no  *)
(* game had before, and a game ends once for all of its group (startGame,   *)
(* completeGame and the stores, with the game process at work beside them). *)
THEOREM SeatingKeepsContract == SeatingSpec => Contract
<1>1. SeatingInit => GoodGroups /\ LobbyInit
  BY DEF SeatingInit, LobbyInit, GoodGroups
<1>2. Inv /\ GoodGroups /\ [SeatingNext]_seatingVars => GoodGroups'
  BY SeatingGoodGroups DEF Inv
<1>3. SeatingSpec => [](Inv /\ GoodGroups)
  BY <1>1, <1>2, InitInv, NextInv, PTL DEF SeatingSpec
<1> QED
  BY <1>1, <1>3, InitRefines, SeatingRefines, PTL
     DEF SeatingSpec, Contract, Promise!ContractSpec
=============================================================================
