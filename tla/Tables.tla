------------------------------- MODULE Tables --------------------------------
(***************************************************************************)
(* GameRegistryService and the door of GameGateway: the tables one game    *)
(* process hosts, who has arrived at and left each, and the socket of each *)
(* account with the seat it was given at its handshake.                    *)
(*                                                                         *)
(* What is played at a table is the matter of TurnLoop and Reactions; here *)
(* a table is being set up, running, or over.  Node runs every handler to  *)
(* its end, so each is one action.                                         *)
(***************************************************************************)
EXTENDS Integers, FiniteSets, FiniteSetsExt

CONSTANTS
  Account,
  Game        \* ids, numbers above 0 in the order the tables are dealt

NoTable == 0

VARIABLES
  tables,  \* games, by id: who plays, the phase, who has arrived and left
  seat     \* socket.data.seat.gameId of the account's socket, or NoTable

tableVars == <<tables, seat>>

TablesInit ==
  /\ tables = [g \in {} |-> {}]
  /\ seat = [a \in Account |-> NoTable]

-----------------------------------------------------------------------------
TablesOf(a) == {g \in DOMAIN tables : a \in tables[g].players}

(* findByAccount: the first match in the order of the map. *)
FindByAccount(a) == Min(TablesOf(a))

(* create: a table is dealt to exactly these accounts; nobody is there yet. *)
CreateTable(g, players) ==
  /\ tables' = [h \in DOMAIN tables \cup {g} |->
                  IF h = g
                    THEN [players |-> players, phase |-> "setup",
                          arrived |-> {}, left |-> {}]
                    ELSE tables[h]]
  /\ UNCHANGED seat

(* arrive: the arrival that completes a table being set up starts it. *)
Arrive(t, a) ==
  [t EXCEPT !.arrived = @ \cup {a},
            !.phase   = IF @ = "setup" /\ t.players \subseteq t.arrived \cup {a}
                          THEN "running" ELSE @]

(* The handshake seats the socket at the account's table, then welcomes it.  *)
(* Without a table the handshake is refused.                                 *)
Connect(a) ==
  /\ seat[a] = NoTable
  /\ TablesOf(a) # {}
  /\ seat' = [seat EXCEPT ![a] = FindByAccount(a)]
  /\ tables' = [tables EXCEPT ![FindByAccount(a)] = Arrive(@, a)]

Disconnect(a) ==
  /\ seat[a] # NoTable
  /\ seat' = [seat EXCEPT ![a] = NoTable]
  /\ UNCHANGED tables

(* GameEnded, by a command or by a window or turn that lapses. *)
Conclude(g) ==
  /\ g \in DOMAIN tables
  /\ tables[g].phase = "running"
  /\ tables' = [tables EXCEPT ![g].phase = "over"]
  /\ UNCHANGED seat

(* leave, from the table the socket is bound to, once it is over; the last  *)
(* one to leave takes the table away.  The socket keeps its seat.           *)
Leave(a) ==
  LET g == seat[a] IN
  /\ g \in DOMAIN tables
  /\ tables[g].phase = "over"
  /\ LET left == tables[g].left \cup {a} IN
       tables' = IF tables[g].players \subseteq left
                   THEN [h \in DOMAIN tables \ {g} |-> tables[h]]
                   ELSE [tables EXCEPT ![g].left = left]
  /\ UNCHANGED seat

(* The game process is restarted: its tables and sockets were in memory. *)
RestartTables ==
  /\ tables' = [g \in {} |-> {}]
  /\ seat' = [a \in Account |-> NoTable]
=============================================================================
