------------------------------ MODULE Publisher ------------------------------
(***************************************************************************)
(* What the seats, the lobby and the store are told of one table: the      *)
(* watcher that answers every burst of engine events with one flush, the   *)
(* snapshots on their way to the clients, the first look a connection gets *)
(* and the records of the store, which land in any order or not at all.    *)
(*                                                                         *)
(* The board is the number of events the engine has emitted: every change  *)
(* of it is an event.  A burst is one stack of the event loop; a flush     *)
(* runs when no burst does, and several bursts may come before it.         *)
(***************************************************************************)
EXTENDS Integers, Sequences

CONSTANTS
  Seat,
  MaxEvents  \* bound: how many events the engine emits

ASSUME PublisherAssumption == Seat # {} /\ MaxEvents \in Nat \ {0}

VARIABLES
  arrived,    \* the seats that have connected at least once
  board,      \* how many events there were
  over,       \* the game has a winner
  pending,    \* Watcher.pending: a flush is on its way
  ended,      \* Watcher.ended: GameEnded came since the last flush
  version,    \* RunningGame.version
  drained,    \* how many events the store was handed
  notices,    \* how often the lobby was told
  connected,  \* the seats with a socket in their room
  pipe,       \* the snapshots on each socket, in order
  shown,      \* the snapshot on each client's screen
  creating,   \* the store's create is on its way
  row,        \* the stored game, or NoRow
  flights,    \* the flushes on their way to the store
  lost        \* the flushes it rejected

gameVars   == <<arrived, board, over, pending, ended, version, drained, notices>>
clientVars == <<connected, pipe, shown>>
storeVars  == <<creating, row, flights, lost>>
publisherVars == <<gameVars, clientVars, storeVars>>

Started == arrived = Seat

Nothing == [version |-> -1, board |-> 0, over |-> FALSE]
NoRow   == [version |-> -1, board |-> 0, winner |-> FALSE, events |-> {}]
NewRow  == [NoRow EXCEPT !.version = 0]

PublisherInit ==
  /\ arrived = {} /\ board = 0 /\ over = FALSE
  /\ pending = FALSE /\ ended = FALSE
  /\ version = 0 /\ drained = 0 /\ notices = 0
  /\ connected = {}
  /\ pipe = [s \in Seat |-> <<>>]
  /\ shown = [s \in Seat |-> Nothing]
  /\ creating = TRUE /\ row = NoRow /\ flights = {} /\ lost = {}

-----------------------------------------------------------------------------
(* The watcher *)

(* Slip: GameEnded is not looked at while a flush is on its way. *)
SlipWatch(n, ends) ==
  /\ board' = board + n
  /\ ended' = IF pending THEN ended ELSE ended \/ ends
  /\ pending' = TRUE

(* onEvent, for the n events of a burst, GameEnded among them or not. *)
Watch(n, ends) ==
  /\ board' = board + n
  /\ ended' = (ended \/ ends)
  /\ pending' = TRUE

(* A command, a clock or an answer moves the engine; a concluded game *)
(* emits nothing any more.                                            *)
Burst ==
  /\ Started /\ ~over
  /\ \E n \in 1 .. MaxEvents - board, ends \in BOOLEAN :
       Watch(n, ends) /\ over' = ends
  /\ UNCHANGED <<arrived, version, drained, notices, clientVars, storeVars>>

(* To every seat that has a socket in its room. *)
Push(seats, snapshot) ==
  pipe' = [s \in Seat |-> IF s \in seats THEN Append(pipe[s], snapshot) ELSE pipe[s]]

(* Slip: the version stays. *)
SlipVersion == version

(* version += 1 *)
NextVersion == version + 1

(* drain hands out everything since the last drain. *)
Drain == board

(* setImmediate: push, for the burst or the bursts since the last one. *)
Flush ==
  /\ pending
  /\ pending' = FALSE /\ ended' = FALSE
  /\ version' = NextVersion
  /\ Push(connected, [version |-> version', board |-> board, over |-> over])
  /\ drained' = Drain
  /\ flights' = flights \cup {[version |-> version', from |-> drained + 1,
                               board |-> board, winner |-> ended]}
  /\ notices' = IF ended THEN notices + 1 ELSE notices
  /\ UNCHANGED <<arrived, board, over, connected, shown, creating, row, lost>>

-----------------------------------------------------------------------------
(* Sockets *)

(* Slip: a first look carries the version of the flush that is due. *)
SlipLook == [version |-> IF pending THEN version + 1 ELSE version,
             board |-> board, over |-> over]

(* snapshotOf, outside a flush: the board as it is, the version as it was. *)
Look == [version |-> version, board |-> board, over |-> over]

(* handleConnection: the last arrival starts the game and everybody gets a  *)
(* first look; an arrival at a started table gets the current one.          *)
Connect(s) ==
  /\ s \notin connected
  /\ connected' = connected \cup {s}
  /\ arrived' = arrived \cup {s}
  /\ \/ /\ ~Started /\ arrived' = Seat
        /\ Watch(1, FALSE)
        /\ Push(connected', [Look EXCEPT !.board = board'])
     \/ /\ Started
        /\ Push({s}, Look)
        /\ UNCHANGED <<board, pending, ended>>
     \/ /\ arrived' # Seat
        /\ UNCHANGED <<pipe, board, pending, ended>>
  /\ UNCHANGED <<over, version, drained, notices, shown, storeVars>>

(* What was on the socket is gone with it. *)
Disconnect(s) ==
  /\ s \in connected
  /\ connected' = connected \ {s}
  /\ pipe' = [pipe EXCEPT ![s] = <<>>]
  /\ UNCHANGED <<gameVars, shown, storeVars>>

(* The client's accept, whatever the name of the event. *)
Receive(s) ==
  /\ pipe[s] # <<>>
  /\ pipe' = [pipe EXCEPT ![s] = Tail(@)]
  /\ shown' = [shown EXCEPT ![s] =
                 IF Head(pipe[s]).version <= @.version THEN @ ELSE Head(pipe[s])]
  /\ UNCHANGED <<gameVars, connected, storeVars>>

-----------------------------------------------------------------------------
(* The store *)

Create ==
  /\ creating /\ creating' = FALSE
  /\ row' \in {NewRow, NoRow}
  /\ UNCHANGED <<gameVars, clientVars, flights, lost>>

EventsOf(f) == f.from .. f.board

(* Slip: the board is replaced by whatever lands. *)
SlipStored(f) ==
  [version |-> f.version, board |-> f.board,
   winner |-> row.winner \/ f.winner, events |-> row.events \cup EventsOf(f)]

(* Slip: a flush that comes late is dropped with its records. *)
SlipDropLate(f) ==
  IF f.version <= row.version THEN row ELSE
    [version |-> f.version, board |-> f.board,
     winner |-> row.winner \/ f.winner, events |-> row.events \cup EventsOf(f)]

(* The records are appended; the board and the winner only by a newer flush. *)
Stored(f) ==
  LET appended == [row EXCEPT !.events = @ \cup EventsOf(f)] IN
  IF f.version <= row.version THEN appended ELSE
    [appended EXCEPT !.version = f.version, !.board = f.board,
                     !.winner = @ \/ f.winner]

(* One transaction.  Records of a game that is not stored are rejected. *)
Land(f) ==
  /\ f \in flights /\ row # NoRow
  /\ flights' = flights \ {f}
  /\ row' = Stored(f)
  /\ UNCHANGED <<gameVars, clientVars, creating, lost>>

(* The rejection is logged and the table plays on. *)
Reject(f) ==
  /\ f \in flights
  /\ flights' = flights \ {f}
  /\ lost' = lost \cup {f}
  /\ UNCHANGED <<gameVars, clientVars, creating, row>>

PublisherNext ==
  \/ Burst \/ Flush \/ Create
  \/ \E s \in Seat : Connect(s) \/ Disconnect(s) \/ Receive(s)
  \/ \E f \in flights : Land(f) \/ Reject(f)

(* setImmediate runs, and a socket that stays open delivers. *)
PublisherSpec ==
  /\ PublisherInit /\ [][PublisherNext]_publisherVars
  /\ WF_publisherVars(Flush)
  /\ \A s \in Seat : WF_publisherVars(Receive(s))

-----------------------------------------------------------------------------
(* A client that has heard everything shows the board as it is, although a  *)
(* first look may run ahead of the flush it shares its version with         *)
(* (snapshotOf, Watcher, and accept in useGameState.ts).                    *)
ShowsTheLatest ==
  \A s \in connected :
    Started /\ ~pending /\ pipe[s] = <<>> => shown[s].board = board

(* "tells the lobby once": the flush after the burst that ended the game    *)
(* tells it, whatever else the watcher had heard before (push, Watcher).    *)
EndIsTold == notices = IF over /\ ~pending THEN 1 ELSE 0

(* "an older flush that lands late appends its records and leaves the newer *)
(* board alone" (postgres-game.store.ts): of every event there is one       *)
(* record, stored, on its way or rejected with its flush.                   *)
StoryIsWhole ==
  row # NoRow =>
    LET unsaved == UNION {EventsOf(f) : f \in flights \cup lost} IN
    /\ row.events \cup unsaved = 1 .. drained
    /\ row.events \cap unsaved = {}

(* The stored board is the last one shown, and names a winner if and only   *)
(* if there is one, in whatever order the flushes landed, as long as the    *)
(* last of them did (push, flush).                                          *)
NewestIsKept ==
  (/\ row # NoRow /\ flights = {} /\ ~pending
   /\ \A f \in lost : f.version < version)
    => row.version = version /\ row.board = drained /\ row.winner = over

(* Whoever stays connected sees the end. *)
EndIsSeen ==
  \A s \in Seat : over ~> (s \notin connected \/ shown[s].over)

=============================================================================
