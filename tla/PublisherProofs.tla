--------------------------- MODULE PublisherProofs ---------------------------
(***************************************************************************)
(* What Publisher promises its clients and the lobby, for any number of    *)
(* seats and events.                                                       *)
(*                                                                         *)
(* A first look taken while a flush is due has the version of the flush    *)
(* before it and a newer board, so a version does not always name one      *)
(* board.  What holds is that the last version names the board once        *)
(* nothing is pending (NewestIsTrue), and that it is on every screen or    *)
(* on its way there (NewestIsNear).                                        *)
(***************************************************************************)
EXTENDS Publisher, TLAPS

Snap == [version : Nat, board : Nat, over : BOOLEAN]

(* What is in a queue. *)
Items(q) == {q[i] : i \in DOMAIN q}

ClientsOK ==
  /\ arrived \subseteq Seat /\ connected \subseteq Seat
  /\ version \in Nat /\ board \in Nat
  /\ over \in BOOLEAN /\ pending \in BOOLEAN
  /\ pipe \in [Seat -> Seq(Snap)]
  /\ shown \in [Seat -> Snap \cup {Nothing}]

(* What a client shows, or will be sent. *)
Around(s) == Items(pipe[s]) \cup {shown[s]}

(* Nothing is newer than the version; with no flush due, it names the board. *)
NewestIsTrue ==
  \A s \in Seat : \A x \in Around(s) :
    /\ x.version <= version
    /\ ~pending /\ x.version = version => x.board = board

(* Every client has the last version, or will be sent it. *)
NewestIsNear ==
  \A s \in connected : Started => \E x \in Around(s) : x.version = version

ClientsInv == ClientsOK /\ NewestIsTrue /\ NewestIsNear

-----------------------------------------------------------------------------
LEMMA ItemsOfAppend ==
  ASSUME NEW S, NEW q \in Seq(S), NEW e \in S
  PROVE  Items(Append(q, e)) = Items(q) \cup {e}
<1>1. Append(q, e) \in Seq(S) /\ Len(q) \in Nat /\ DOMAIN q = 1 .. Len(q)
  OBVIOUS
<1>2. DOMAIN Append(q, e) = 1 .. Len(q) + 1
  BY <1>1
<1>3. /\ \A i \in 1 .. Len(q) : Append(q, e)[i] = q[i]
      /\ Append(q, e)[Len(q) + 1] = e
  BY <1>1
<1>4. DOMAIN Append(q, e) = DOMAIN q \cup {Len(q) + 1}
  BY <1>1, <1>2
<1> QED  BY <1>1, <1>3, <1>4, Zenon DEF Items

LEMMA ItemsOfTail ==
  ASSUME NEW S, NEW q \in Seq(S), q # <<>>
  PROVE  /\ Items(Tail(q)) \subseteq Items(q)
         /\ Items(q) = Items(Tail(q)) \cup {Head(q)}
<1>1. /\ Tail(q) \in Seq(S) /\ DOMAIN Tail(q) = 1 .. Len(q) - 1
      /\ \A i \in 1 .. Len(q) - 1 : Tail(q)[i] = q[i + 1]
      /\ Head(q) = q[1] /\ DOMAIN q = 1 .. Len(q) /\ Len(q) \in Nat \ {0}
  OBVIOUS
<1>2. ASSUME NEW x \in Items(Tail(q)) PROVE x \in Items(q)
  <2>1. PICK i \in 1 .. Len(q) - 1 : x = q[i + 1]
    BY <1>1, <1>2 DEF Items
  <2>2. i + 1 \in DOMAIN q
    BY <1>1
  <2> QED  BY <2>1, <2>2 DEF Items
<1>3. Head(q) \in Items(q)
  <2>1. 1 \in DOMAIN q
    BY <1>1
  <2> QED  BY <1>1, <2>1 DEF Items
<1>4. ASSUME NEW x \in Items(q), x # Head(q) PROVE x \in Items(Tail(q))
  <2>1. PICK i \in 1 .. Len(q) : x = q[i]
    BY <1>1 DEF Items
  <2>2. i # 1 /\ i - 1 \in 1 .. Len(q) - 1
    BY <2>1, <1>1, <1>4
  <2>3. x = Tail(q)[i - 1]
    BY <2>1, <2>2, <1>1
  <2> QED  BY <2>2, <2>3, <1>1 DEF Items
<1> QED  BY <1>2, <1>3, <1>4

LEMMA PushAdds ==
  ASSUME ClientsOK, NEW seats, NEW e \in Snap, Push(seats, e)
  PROVE  /\ pipe' \in [Seat -> Seq(Snap)]
         /\ \A s \in Seat : Items(pipe'[s]) =
                            IF s \in seats THEN Items(pipe[s]) \cup {e} ELSE Items(pipe[s])
<1>1. \A s \in Seat : pipe[s] \in Seq(Snap) /\ Append(pipe[s], e) \in Seq(Snap)
  BY DEF ClientsOK
<1>2. \A s \in Seat : pipe'[s] = IF s \in seats THEN Append(pipe[s], e) ELSE pipe[s]
  BY DEF Push
<1>3. ASSUME NEW s \in Seat PROVE Items(Append(pipe[s], e)) = Items(pipe[s]) \cup {e}
  <2> DEFINE q == pipe[s]
  <2>1. q \in Seq(Snap)
    BY <1>1
  <2> HIDE DEF q
  <2>2. Items(Append(q, e)) = Items(q) \cup {e}
    BY <2>1, ItemsOfAppend
  <2> QED  BY <2>2 DEF q
<1>4. pipe' \in [Seat -> Seq(Snap)]
  BY <1>1 DEF Push
<1> QED  BY <1>2, <1>3, <1>4

LEMMA AroundIsTyped ==
  ASSUME ClientsOK, NEW s \in Seat, NEW x \in Around(s)
  PROVE  x.version \in Int /\ x.board \in Nat
<1>1. CASE x = shown[s]
  BY <1>1 DEF ClientsOK, Snap, Nothing
<1>2. CASE x \in Items(pipe[s])
  <2>1. pipe[s] \in Seq(Snap)
    BY DEF ClientsOK
  <2>2. PICK i \in DOMAIN pipe[s] : x = pipe[s][i]
    BY <1>2 DEF Items
  <2>3. x \in Snap
    BY <2>1, <2>2
  <2> QED  BY <2>3 DEF Snap
<1> QED  BY <1>1, <1>2 DEF Around

-----------------------------------------------------------------------------
LEMMA ClientsInit == PublisherInit => ClientsInv
<1> SUFFICES ASSUME PublisherInit PROVE ClientsInv
  OBVIOUS
<1>1. /\ pipe = [s \in Seat |-> <<>>] /\ shown = [s \in Seat |-> Nothing]
      /\ ClientsOK
  <2>1. pipe = [s \in Seat |-> <<>>] /\ shown = [s \in Seat |-> Nothing]
    BY DEF PublisherInit
  <2>2. pipe \in [Seat -> Seq(Snap)] /\ shown \in [Seat -> Snap \cup {Nothing}]
    BY <2>1
  <2>3. /\ arrived \subseteq Seat /\ connected \subseteq Seat
        /\ version \in Nat /\ board \in Nat
    BY DEF PublisherInit
  <2>4. over \in BOOLEAN /\ pending \in BOOLEAN
    BY DEF PublisherInit
  <2> QED  BY <2>1, <2>2, <2>3, <2>4 DEF ClientsOK
<1>2. ASSUME NEW s \in Seat PROVE Around(s) = {Nothing}
  <2>1. pipe[s] = <<>> /\ shown[s] = Nothing
    BY <1>1
  <2>2. Items(pipe[s]) = {}
    BY <2>1 DEF Items
  <2> QED  BY <2>1, <2>2 DEF Around
<1>3. NewestIsTrue
  BY <1>2 DEF PublisherInit, NewestIsTrue, Nothing
<1> QED  BY <1>1, <1>3 DEF PublisherInit, ClientsInv, NewestIsNear

(* More events: the newest version is no longer the board, and a flush is due. *)
LEMMA BurstKeepsClients == ClientsInv /\ Burst => ClientsInv'
<1> SUFFICES ASSUME ClientsInv, Burst PROVE ClientsInv'
  OBVIOUS
<1>1. /\ pending' = TRUE /\ over' \in BOOLEAN
      /\ UNCHANGED <<arrived, version, connected, pipe, shown>>
  BY DEF Burst, Watch, clientVars
<1>2. board' \in Nat
  <2>1. PICK n \in 1 .. MaxEvents - board : board' = board + n
    BY DEF Burst, Watch
  <2> QED  BY <2>1, PublisherAssumption DEF ClientsInv, ClientsOK
<1>3. ClientsOK'
  BY <1>1, <1>2 DEF ClientsInv, ClientsOK
<1>4. \A s \in Seat : Around(s)' = Around(s)
  BY <1>1 DEF Around
<1>5. NewestIsTrue'
  BY <1>1, <1>4 DEF ClientsInv, NewestIsTrue
<1>6. NewestIsNear'
  BY <1>1, <1>4 DEF ClientsInv, ClientsOK, NewestIsNear, Started
<1> QED  BY <1>3, <1>5, <1>6 DEF ClientsInv

(* A flush has a version of its own and goes to every socket. *)
LEMMA FlushKeepsClients == ClientsInv /\ Flush => ClientsInv'
<1> SUFFICES ASSUME ClientsInv, Flush PROVE ClientsInv'
  OBVIOUS
<1> DEFINE e == [version |-> version + 1, board |-> board, over |-> over]
<1>1. /\ pending' = FALSE /\ version' = version + 1
      /\ UNCHANGED <<arrived, board, over, connected, shown>>
      /\ Push(connected, e)
  BY DEF Flush, NextVersion
<1>2. e \in Snap
  BY DEF ClientsInv, ClientsOK, Snap
<1>3. /\ pipe' \in [Seat -> Seq(Snap)]
      /\ \A s \in Seat : Items(pipe'[s]) =
                         IF s \in connected THEN Items(pipe[s]) \cup {e} ELSE Items(pipe[s])
  <2> HIDE DEF e
  <2> QED  BY <1>1, <1>2, PushAdds DEF ClientsInv
<1>4. ClientsOK'
  <2>1. version' \in Nat
    BY <1>1 DEF ClientsInv, ClientsOK
  <2> HIDE DEF e
  <2> QED  BY <2>1, <1>1, <1>3, Zenon DEF ClientsInv, ClientsOK
<1>5. \A s \in Seat : Around(s)' = IF s \in connected THEN Around(s) \cup {e} ELSE Around(s)
  BY <1>1, <1>3 DEF Around
<1>6. NewestIsTrue'
  <2> SUFFICES ASSUME NEW s \in Seat, NEW x \in Around(s)'
               PROVE  x.version <= version' /\ (x.version = version' => x.board = board')
    BY DEF NewestIsTrue
  <2>1. CASE x = e
    BY <2>1, <1>1 DEF ClientsInv, ClientsOK
  <2>2. CASE x \in Around(s)
    <3>1. x.version \in Int /\ x.version <= version /\ version \in Nat
      BY <2>2, AroundIsTyped DEF ClientsInv, ClientsOK, NewestIsTrue
    <3> QED  BY <3>1, <1>1
  <2> QED  BY <1>5, <2>1, <2>2
<1>7. NewestIsNear'
  BY <1>1, <1>5 DEF ClientsInv, ClientsOK, NewestIsNear
<1> QED  BY <1>4, <1>6, <1>7 DEF ClientsInv

LEMMA ConnectKeepsClients ==
  ASSUME ClientsInv, NEW s \in Seat, Connect(s)
  PROVE  ClientsInv'
<1>1. /\ connected' = connected \cup {s} /\ arrived' = arrived \cup {s}
      /\ UNCHANGED <<over, version, shown>>
  BY DEF Connect
<1>2. CASE /\ Watch(1, FALSE)
           /\ Push(connected', [Look EXCEPT !.board = board'])
  <2> DEFINE e == [Look EXCEPT !.board = board']
  <2>1. board' \in Nat /\ pending' = TRUE
    BY <1>2 DEF Watch, ClientsInv, ClientsOK
  <2>2. e \in Snap /\ e.version = version
    BY <2>1 DEF Look, Snap, ClientsInv, ClientsOK
  <2>3. /\ pipe' \in [Seat -> Seq(Snap)]
        /\ \A t \in Seat : Items(pipe'[t]) =
              IF t \in connected' THEN Items(pipe[t]) \cup {e} ELSE Items(pipe[t])
    <3> HIDE DEF e
    <3>1. Push(connected', e)
      BY <1>2 DEF e
    <3> QED  BY <3>1, <2>2, PushAdds DEF ClientsInv
  <2>4. ClientsOK'
    BY <1>1, <2>1, <2>3 DEF ClientsInv, ClientsOK
  <2>5. \A t \in Seat : Around(t)' = IF t \in connected' THEN Around(t) \cup {e} ELSE Around(t)
    BY <1>1, <2>3 DEF Around
  <2> HIDE DEF e
  <2>6. NewestIsTrue'
    BY <1>1, <2>1, <2>2, <2>5 DEF ClientsInv, ClientsOK, NewestIsTrue
  <2>7. NewestIsNear'
    BY <1>1, <2>2, <2>5 DEF ClientsInv, ClientsOK, NewestIsNear
  <2> QED  BY <2>4, <2>6, <2>7 DEF ClientsInv
<1>3. CASE Started /\ Push({s}, Look) /\ UNCHANGED <<board, pending, ended>>
  <2>1. Look \in Snap /\ Look.version = version /\ Look.board = board
    BY DEF Look, Snap, ClientsInv, ClientsOK
  <2>2. /\ pipe' \in [Seat -> Seq(Snap)]
        /\ \A t \in Seat : Items(pipe'[t]) =
              IF t \in {s} THEN Items(pipe[t]) \cup {Look} ELSE Items(pipe[t])
    BY <1>3, <2>1, PushAdds DEF ClientsInv
  <2>3. ClientsOK'
    BY <1>1, <1>3, <2>2 DEF ClientsInv, ClientsOK
  <2>4. \A t \in Seat : Around(t)' = IF t = s THEN Around(t) \cup {Look} ELSE Around(t)
    BY <1>1, <2>2 DEF Around
  <2>5. NewestIsTrue'
    BY <1>1, <1>3, <2>1, <2>4 DEF ClientsInv, ClientsOK, NewestIsTrue
  <2>6. NewestIsNear'
    BY <1>1, <1>3, <2>1, <2>4 DEF ClientsInv, ClientsOK, NewestIsNear
  <2> QED  BY <2>3, <2>5, <2>6 DEF ClientsInv
<1>4. CASE arrived' # Seat /\ UNCHANGED <<pipe, board, pending, ended>>
  <2>1. ClientsOK'
    BY <1>1, <1>4 DEF ClientsInv, ClientsOK
  <2>2. \A t \in Seat : Around(t)' = Around(t)
    BY <1>1, <1>4 DEF Around
  <2>3. NewestIsTrue'
    BY <1>1, <1>4, <2>2 DEF ClientsInv, NewestIsTrue
  <2>4. NewestIsNear'
    BY <1>4 DEF NewestIsNear, Started
  <2> QED  BY <2>1, <2>3, <2>4 DEF ClientsInv
<1> QED  BY <1>2, <1>3, <1>4 DEF Connect

LEMMA DisconnectKeepsClients ==
  ASSUME ClientsInv, NEW s \in Seat, Disconnect(s)
  PROVE  ClientsInv'
<1>1. /\ connected' = connected \ {s} /\ pipe' = [pipe EXCEPT ![s] = <<>>]
      /\ UNCHANGED <<arrived, board, over, pending, version, shown>>
  BY DEF Disconnect, gameVars
<1>2. ClientsOK'
  BY <1>1 DEF ClientsInv, ClientsOK
<1>3. \A t \in Seat : IF t = s THEN Around(t)' = {shown[t]} ELSE Around(t)' = Around(t)
  BY <1>1 DEF ClientsInv, ClientsOK, Around, Items
<1>4. \A t \in Seat : shown[t] \in Around(t)
  BY DEF Around
<1>5. NewestIsTrue'
  BY <1>1, <1>3, <1>4 DEF ClientsInv, NewestIsTrue
<1>6. NewestIsNear'
  BY <1>1, <1>3 DEF ClientsInv, ClientsOK, NewestIsNear, Started
<1> QED  BY <1>2, <1>5, <1>6 DEF ClientsInv

(* What a client does not take is no newer than what it shows. *)
LEMMA ReceiveKeepsClients ==
  ASSUME ClientsInv, NEW s \in Seat, Receive(s)
  PROVE  ClientsInv'
<1> DEFINE h == Head(pipe[s])
<1>1. /\ pipe[s] # <<>> /\ pipe' = [pipe EXCEPT ![s] = Tail(@)]
      /\ shown' = [shown EXCEPT ![s] = IF h.version <= shown[s].version THEN shown[s] ELSE h]
      /\ UNCHANGED <<arrived, board, over, pending, version, connected>>
  BY DEF Receive, gameVars
<1>2. /\ pipe \in [Seat -> Seq(Snap)] /\ pipe[s] \in Seq(Snap)
      /\ shown \in [Seat -> Snap \cup {Nothing}] /\ version \in Nat
  BY DEF ClientsInv, ClientsOK
<1>3. h \in Snap /\ Tail(pipe[s]) \in Seq(Snap)
  BY <1>1, <1>2
<1>4. /\ pipe'[s] = Tail(pipe[s])
      /\ shown'[s] = IF h.version <= shown[s].version THEN shown[s] ELSE h
      /\ \A t \in Seat \ {s} : pipe'[t] = pipe[t] /\ shown'[t] = shown[t]
  BY <1>1, <1>2
<1>5. ClientsOK'
  <2>1. pipe' \in [Seat -> Seq(Snap)]
    BY <1>1, <1>2, <1>3
  <2>2. shown' \in [Seat -> Snap \cup {Nothing}]
    BY <1>1, <1>2, <1>3
  <2> QED  BY <1>1, <2>1, <2>2 DEF ClientsInv, ClientsOK
<1>6. Items(pipe[s]) = Items(pipe'[s]) \cup {h}
  BY <1>1, <1>2, <1>4, ItemsOfTail
<1> HIDE DEF h
<1>7. Around(s)' \subseteq Around(s)
  BY <1>4, <1>6 DEF Around
<1>8. \A t \in Seat \ {s} : Around(t)' = Around(t)
  BY <1>4 DEF Around
<1>9. NewestIsTrue'
  BY <1>1, <1>7, <1>8 DEF ClientsInv, NewestIsTrue
<1>10. NewestIsNear'
  <2> SUFFICES ASSUME NEW t \in connected, Started
               PROVE  \E x \in Around(t)' : x.version = version
    BY <1>1 DEF NewestIsNear, Started
  <2>1. t \in Seat /\ \E x \in Around(t) : x.version = version
    BY DEF ClientsInv, ClientsOK, NewestIsNear
  <2>2. CASE t # s
    BY <2>1, <2>2, <1>8
  <2>3. CASE t = s
    <3>1. PICK x \in Around(s) : x.version = version
      BY <2>1, <2>3
    <3>2. x \in Items(pipe'[s]) \/ x = h \/ x = shown[s]
      BY <1>6 DEF Around
    <3>3. CASE x \in Items(pipe'[s])
      BY <2>3, <3>1, <3>3 DEF Around
    <3>4. CASE x = h \/ x = shown[s]
      <4>1. h \in Around(s) /\ shown[s] \in Around(s)
        BY <1>6 DEF Around
      <4>2. /\ h.version <= version /\ shown[s].version <= version
            /\ h.version \in Int /\ shown[s].version \in Int
        BY <4>1, AroundIsTyped DEF ClientsInv, NewestIsTrue
      <4>3. shown'[s].version = version
        BY <3>1, <3>4, <4>2, <1>2, <1>4
      <4> QED  BY <2>3, <4>3 DEF Around
    <3> QED  BY <3>2, <3>3, <3>4
  <2> QED  BY <2>2, <2>3
<1> QED  BY <1>5, <1>9, <1>10 DEF ClientsInv

LEMMA StoreKeepsClients ==
  ClientsInv /\ UNCHANGED <<gameVars, clientVars>> => ClientsInv'
BY DEF ClientsInv, ClientsOK, NewestIsTrue, NewestIsNear, Started, Around,
       gameVars, clientVars

LEMMA ClientsNext == ClientsInv /\ [PublisherNext]_publisherVars => ClientsInv'
<1> SUFFICES ASSUME ClientsInv, [PublisherNext]_publisherVars PROVE ClientsInv'
  OBVIOUS
<1>1. CASE Burst
  BY <1>1, BurstKeepsClients
<1>2. CASE Flush
  BY <1>2, FlushKeepsClients
<1>3. ASSUME NEW s \in Seat, Connect(s) \/ Disconnect(s) \/ Receive(s) PROVE ClientsInv'
  BY <1>3, ConnectKeepsClients, DisconnectKeepsClients, ReceiveKeepsClients
<1>4. CASE Create \/ \E f \in flights : Land(f) \/ Reject(f)
  <2>1. UNCHANGED <<gameVars, clientVars>>
    BY <1>4 DEF Create, Land, Reject
  <2> QED  BY <2>1, StoreKeepsClients
<1>5. CASE UNCHANGED publisherVars
  BY <1>5, StoreKeepsClients DEF publisherVars
<1> QED  BY <1>1, <1>2, <1>3, <1>4, <1>5 DEF PublisherNext

(* A client that has heard everything shows the board as it is              *)
(* (snapshotOf, Watcher, accept).                                           *)
THEOREM ClientsCatchUp == PublisherSpec => []ShowsTheLatest
<1>1. ClientsInv => ShowsTheLatest
  <2> SUFFICES ASSUME ClientsInv, NEW s \in connected, Started, ~pending, pipe[s] = <<>>
               PROVE  shown[s].board = board
    BY DEF ShowsTheLatest
  <2>1. s \in Seat /\ Around(s) = {shown[s]}
    BY DEF ClientsInv, ClientsOK, Around, Items
  <2> QED  BY <2>1 DEF ClientsInv, NewestIsTrue, NewestIsNear
<1> QED  BY <1>1, ClientsInit, ClientsNext, PTL DEF PublisherSpec

-----------------------------------------------------------------------------
(* GameEnded waits for its flush, or the lobby has been told. *)
EndInv ==
  /\ over \in BOOLEAN /\ pending \in BOOLEAN /\ ended \in BOOLEAN
  /\ ended <=> over /\ pending
  /\ notices = IF over /\ ~pending THEN 1 ELSE 0
  /\ over => Started

LEMMA EndNext == EndInv /\ [PublisherNext]_publisherVars => EndInv'
<1> SUFFICES ASSUME EndInv, [PublisherNext]_publisherVars PROVE EndInv'
  OBVIOUS
<1>1. CASE Burst
  BY <1>1 DEF Burst, Watch, EndInv, Started
<1>2. CASE Flush
  <2>1. /\ over' = over /\ pending /\ pending' = FALSE /\ ended' = FALSE
        /\ notices' = IF ended THEN notices + 1 ELSE notices
        /\ Started' = Started
    BY <1>2 DEF Flush, Started
  <2>2. over = ended
    BY <2>1 DEF EndInv
  <2>3. notices = 0
    BY <2>1 DEF EndInv
  <2>4. notices' = IF over' /\ ~pending' THEN 1 ELSE 0
    BY <2>1, <2>2, <2>3
  <2> QED  BY <2>1, <2>4, Zenon DEF EndInv
<1>3. ASSUME NEW s \in Seat, Connect(s) PROVE EndInv'
  <2>1. /\ over' = over /\ notices' = notices /\ arrived' = arrived \cup {s}
    BY <1>3 DEF Connect
  <2>2. CASE ~Started /\ Watch(1, FALSE)
    <3>1. over = FALSE /\ ended = FALSE
      BY <2>2 DEF EndInv
    <3>2. over' = FALSE /\ ended' = FALSE /\ pending' = TRUE
      BY <2>1, <2>2, <3>1 DEF Watch
    <3>3. notices' = 0
      BY <2>1, <3>1 DEF EndInv
    <3> QED  BY <3>2, <3>3 DEF EndInv
  <2>3. CASE UNCHANGED <<pending, ended>>
    <3>1. Started => Started'
      BY <2>1 DEF Started
    <3> QED  BY <2>1, <2>3, <3>1, Zenon DEF EndInv
  <2> QED  BY <1>3, <2>2, <2>3, Zenon DEF Connect
<1>4. ASSUME NEW s \in Seat, Disconnect(s) \/ Receive(s) PROVE EndInv'
  BY <1>4 DEF Disconnect, Receive, gameVars, EndInv, Started
<1>5. CASE Create \/ (\E f \in flights : Land(f) \/ Reject(f)) \/ UNCHANGED publisherVars
  BY <1>5 DEF Create, Land, Reject, publisherVars, gameVars, EndInv, Started
<1> QED  BY <1>1, <1>2, <1>3, <1>4, <1>5 DEF PublisherNext

(* "tells the lobby once": as soon as the flush of the last burst has run,  *)
(* never before and never again (push, Watcher).                            *)
THEOREM LobbyHearsOnce == PublisherSpec => []EndIsTold
<1>1. PublisherInit => EndInv
  BY DEF PublisherInit, EndInv
<1>2. EndInv => EndIsTold
  BY DEF EndInv, EndIsTold
<1> QED  BY <1>1, <1>2, EndNext, PTL DEF PublisherSpec

-----------------------------------------------------------------------------
(* What Publisher promises of the store, for any number of seats, events    *)
(* and flushes, in whatever order these land or are rejected.               *)

Row == [version : Int, board : Nat, winner : BOOLEAN, events : SUBSET Int]
Known == flights \cup lost

StoreOK ==
  /\ board \in Nat /\ drained \in Nat /\ version \in Nat /\ drained <= board
  /\ \A f \in Known : /\ f.version \in Nat /\ f.version <= version
                      /\ f.from \in Nat \ {0}
                      /\ f.board \in Nat /\ f.board <= drained
                      /\ f.winner \in BOOLEAN
  /\ \A f, g \in Known : f.version = g.version => f = g
  /\ flights \cap lost = {}
  /\ row \in Row /\ row.version <= version
  /\ row = NoRow \/ row.version \in Nat
  /\ creating => row = NoRow

(* StoryIsWhole, event by event; a game that is not stored has no events,   *)
(* and two flushes have none in common.                                     *)
StoryInv ==
  /\ row.events \subseteq 1 .. drained
  /\ \A e \in 1 .. drained : e \in row.events \/ \E f \in Known : e \in EventsOf(f)
  /\ \A f \in Known : EventsOf(f) \cap row.events = {}
  /\ \A f, g \in Known : f # g => EventsOf(f) \cap EventsOf(g) = {}

(* Where the last flush is: on its way, rejected, or the board in the row.  *)
(* Only the very last one, after which nothing is due, names a winner.      *)
NewestInv ==
  /\ version = 0 => drained = 0 /\ (~pending => ~over)
  /\ version > 0 => row.version = version \/ \E f \in Known : f.version = version
  /\ \A f \in Known :
        /\ f.version = version => f.board = drained /\ (~pending => f.winner = over)
        /\ f.winner => f.version = version /\ over /\ ~pending
  /\ row.version = version => row.board = drained /\ (~pending => row.winner = over)
  /\ row.winner => row.version = version /\ over /\ ~pending

StoreInv == EndInv /\ StoreOK /\ StoryInv /\ NewestInv

LEMMA RowsAreRows ==
  /\ NoRow \in Row /\ NoRow.version = -1 /\ NoRow.board = 0 /\ NoRow.winner = FALSE
  /\ NoRow.events = {}
  /\ NewRow \in Row /\ NewRow.version = 0 /\ NewRow.board = 0 /\ NewRow.winner = FALSE
  /\ NewRow.events = {}
<1>1. /\ NoRow \in Row /\ NoRow.version = -1 /\ NoRow.board = 0 /\ NoRow.winner = FALSE
      /\ NoRow.events = {}
  <2>1. -1 \in Int /\ 0 \in Nat /\ FALSE \in BOOLEAN /\ {} \in SUBSET Int
    OBVIOUS
  <2> QED
    BY <2>1 DEF NoRow, Row
<1>2. /\ NewRow \in Row /\ NewRow.version = 0
      /\ NewRow.board = NoRow.board /\ NewRow.winner = NoRow.winner
      /\ NewRow.events = NoRow.events
  BY <1>1 DEF NewRow, Row
<1> QED
  BY <1>1, <1>2

LEMMA FieldsOfTheRow ==
  ASSUME row \in Row
  PROVE  /\ row.version \in Int /\ row.board \in Nat /\ row.winner \in BOOLEAN
         /\ row.events \subseteq Int
BY DEF Row

LEMMA StoreInit == PublisherInit => StoreInv
<1> SUFFICES ASSUME PublisherInit PROVE StoreInv
  OBVIOUS
<1> USE RowsAreRows DEF PublisherInit
<1>1. EndInv
  BY DEF EndInv
<1>2. Known = {}
  BY DEF Known
<1>3. StoreOK
  BY <1>2 DEF StoreOK
<1>4. StoryInv /\ NewestInv
  BY <1>2 DEF StoryInv, NewestInv
<1> QED
  BY <1>1, <1>3, <1>4 DEF StoreInv

-----------------------------------------------------------------------------
(* The board moves on while no game is over: a flush is due. *)
LEMMA BoardMoves ==
  ASSUME StoreInv, EndInv', ~over, board' \in Nat, board <= board', pending' = TRUE,
         UNCHANGED <<version, drained, storeVars>>
  PROVE  StoreInv'
<1> USE DEF StoreInv, storeVars
<1>1. Known' = Known
  BY DEF Known
<1>2. StoreOK'
  BY <1>1 DEF StoreOK
<1>3. \A f : EventsOf(f)' = EventsOf(f)
  BY DEF EventsOf
<1>4. StoryInv'
  BY <1>1, <1>3 DEF StoryInv
<1>5. NewestInv'
  BY <1>1 DEF NewestInv
<1> QED
  BY <1>2, <1>4, <1>5

LEMMA NothingMoves ==
  ASSUME StoreInv, EndInv',
         UNCHANGED <<board, over, pending, version, drained, storeVars>>
  PROVE  StoreInv'
<1> USE DEF StoreInv, storeVars
<1>1. Known' = Known /\ \A f : EventsOf(f)' = EventsOf(f)
  BY DEF Known, EventsOf
<1> QED
  BY <1>1 DEF StoreOK, StoryInv, NewestInv

LEMMA FlushKeepsStore == ASSUME StoreInv, EndInv', Flush PROVE StoreInv'
<1> USE DEF StoreInv
<1> DEFINE n == [version |-> version', from |-> drained + 1,
                 board |-> board, winner |-> ended]
<1>1. /\ pending = TRUE /\ pending' = FALSE /\ version' = version + 1
      /\ drained' = board /\ flights' = flights \cup {n}
      /\ UNCHANGED <<board, over, creating, row, lost>>
  BY DEF Flush, NextVersion, Drain, EndInv
<1>2. /\ n.version = version + 1 /\ n.from = drained + 1 /\ n.board = board
      /\ n.winner = over /\ over \in BOOLEAN
  BY <1>1 DEF EndInv
<1> HIDE DEF n
<1>3. Known' = Known \cup {n} /\ n \notin Known
  BY <1>1, <1>2 DEF Known, StoreOK
<1>4. StoreOK'
  <2>1. row.version \in Int /\ row.version <= version
    BY FieldsOfTheRow DEF StoreOK
  <2>2. /\ board' \in Nat /\ drained' \in Nat /\ version' \in Nat /\ drained' <= board'
        /\ row' \in Row /\ row'.version <= version'
        /\ row' = NoRow \/ row'.version \in Nat
        /\ creating' => row' = NoRow
    BY <1>1, <2>1 DEF StoreOK
  <2>3. flights' \cap lost' = {}
    BY <1>1, <1>3 DEF StoreOK, Known
  <2>4. \A f \in Known' : /\ f.version \in Nat /\ f.version <= version'
                          /\ f.from \in Nat \ {0}
                          /\ f.board \in Nat /\ f.board <= drained'
                          /\ f.winner \in BOOLEAN
    BY <1>1, <1>2, <1>3 DEF StoreOK
  <2>5. \A f, g \in Known' : f.version = g.version => f = g
    BY <1>2, <1>3 DEF StoreOK
  <2> QED
    BY <2>2, <2>3, <2>4, <2>5 DEF StoreOK
<1>5. StoryInv'
  <2>1. \A f \in Known' : EventsOf(f) = f.from .. f.board
    BY DEF EventsOf
  <2>2. \A f \in Known : EventsOf(f) \subseteq 1 .. drained
    BY <1>3, <2>1 DEF StoreOK
  <2>3. EventsOf(n) = (drained + 1) .. board
    BY <1>2 DEF EventsOf
  <2>4. 1 .. drained' = (1 .. drained) \cup EventsOf(n)
    BY <1>1, <2>3 DEF StoreOK
  <2>5. (1 .. drained) \cap EventsOf(n) = {}
    BY <2>3 DEF StoreOK
  <2>6. \A f : EventsOf(f)' = EventsOf(f)
    BY DEF EventsOf
  <2> QED
    BY <1>1, <1>3, <2>2, <2>4, <2>5, <2>6 DEF StoryInv
<1>6. NewestInv'
  <2>1. ~row.winner /\ \A f \in Known : ~f.winner /\ f.version < version'
    BY <1>1 DEF NewestInv, StoreOK
  <2>2. version' > 0 /\ row.version < version'
    BY <1>1, FieldsOfTheRow DEF StoreOK
  <2> QED
    BY <1>1, <1>2, <1>3, <2>1, <2>2 DEF NewestInv
<1> QED
  BY <1>4, <1>5, <1>6

LEMMA CreateKeepsStore == ASSUME StoreInv, EndInv', Create PROVE StoreInv'
<1> USE RowsAreRows DEF StoreInv
<1>1. /\ row = NoRow /\ row' \in {NewRow, NoRow} /\ creating' = FALSE
      /\ UNCHANGED <<board, over, pending, version, drained, flights, lost>>
  BY DEF Create, StoreOK, gameVars
<1>2. Known' = Known /\ \A f : EventsOf(f)' = EventsOf(f)
  BY <1>1 DEF Known, EventsOf
<1>3. row' \in Row /\ row'.events = {} /\ row'.board = 0 /\ row'.winner = FALSE
      /\ row'.version \in {-1, 0} /\ (row' = NoRow \/ row'.version \in Nat)
  BY <1>1
<1>4. StoreOK'
  BY <1>1, <1>2, <1>3 DEF StoreOK
<1>5. StoryInv'
  BY <1>1, <1>2, <1>3 DEF StoryInv
<1>6. NewestInv'
  <2>1. version \in Nat /\ row.version = -1
    BY <1>1 DEF StoreOK
  <2>2. version > 0 => \E f \in Known : f.version = version
    BY <2>1 DEF NewestInv
  <2>3. row'.version = version => version = 0
    BY <1>3, <2>1
  <2>4. row'.version = version => row'.board = drained' /\ (~pending' => row'.winner = over')
    BY <1>1, <1>3, <2>3 DEF NewestInv, EndInv
  <2>5. \A f \in Known' :
          /\ f.version = version' => f.board = drained' /\ (~pending' => f.winner = over')
          /\ f.winner => f.version = version' /\ over' /\ ~pending'
    BY <1>1, <1>2 DEF NewestInv
  <2>6. version' > 0 => row'.version = version' \/ \E f \in Known' : f.version = version'
    BY <1>1, <1>2, <2>2
  <2>7. version' = 0 => drained' = 0 /\ (~pending' => ~over')
    BY <1>1 DEF NewestInv
  <2>8. ~row'.winner
    BY <1>3
  <2> QED
    BY <1>1, <2>4, <2>5, <2>6, <2>7, <2>8 DEF NewestInv
<1> QED
  BY <1>4, <1>5, <1>6

LEMMA RejectKeepsStore ==
  ASSUME StoreInv, EndInv', NEW f \in flights, Reject(f) PROVE StoreInv'
<1> USE DEF StoreInv
<1>1. /\ flights' = flights \ {f} /\ lost' = lost \cup {f}
      /\ UNCHANGED <<board, over, pending, version, drained, creating, row>>
  BY DEF Reject, gameVars
<1>2. Known' = Known /\ \A g : EventsOf(g)' = EventsOf(g)
  BY <1>1 DEF Known, EventsOf
<1>3. flights' \cap lost' = {}
  BY <1>1 DEF StoreOK
<1> QED
  BY <1>1, <1>2, <1>3 DEF StoreOK, StoryInv, NewestInv

LEMMA LandKeepsStore ==
  ASSUME StoreInv, EndInv', NEW f \in flights, Land(f) PROVE StoreInv'
<1> USE DEF StoreInv
<1>1. /\ flights' = flights \ {f} /\ row # NoRow /\ row' = Stored(f)
      /\ UNCHANGED <<board, over, pending, version, drained, creating, lost>>
  BY DEF Land, gameVars
<1>2. f \in Known /\ Known' = Known \ {f} /\ \A g : EventsOf(g)' = EventsOf(g)
  BY <1>1 DEF Known, EventsOf, StoreOK
<1>3. EventsOf(f) \subseteq 1 .. drained
  BY <1>2 DEF EventsOf, StoreOK
<1>4. /\ row' \in Row /\ row'.events = row.events \cup EventsOf(f)
      /\ IF f.version <= row.version
         THEN UNCHANGED <<row.version, row.board, row.winner>>
         ELSE /\ row'.version = f.version /\ row'.board = f.board
              /\ row'.winner = (row.winner \/ f.winner)
  <2>1. EventsOf(f) \subseteq Int
    BY <1>2 DEF EventsOf, StoreOK
  <2>2. row \in Row /\ f.version \in Int /\ f.board \in Nat /\ f.winner \in BOOLEAN
    BY <1>2 DEF StoreOK
  <2> QED
    BY <1>1, <2>1, <2>2 DEF Stored, Row
<1>5. StoreOK'
  BY <1>1, <1>2, <1>4 DEF StoreOK
<1>6. StoryInv'
  <2>1. \A g \in Known' : EventsOf(g) \cap EventsOf(f) = {}
    BY <1>2 DEF StoryInv
  <2> QED
    BY <1>1, <1>2, <1>3, <1>4, <2>1 DEF StoryInv
<1>7. NewestInv'
  <2>1. CASE f.version <= row.version
    BY <1>1, <1>2, <1>4, <2>1 DEF NewestInv, StoreOK
  <2>2. CASE row.version < f.version /\ f.version = version
    BY <1>1, <1>2, <1>4, <2>2 DEF NewestInv, StoreOK
  <2>3. CASE row.version < f.version /\ f.version < version
    <3>1. row'.winner = FALSE /\ row'.version # version
      BY <1>2, <1>4, <2>3 DEF NewestInv, StoreOK
    <3> QED
      BY <1>1, <1>2, <2>3, <3>1 DEF NewestInv, StoreOK
  <2>4. row.version \in Int /\ f.version \in Nat /\ version \in Nat /\ f.version <= version
    BY <1>2, FieldsOfTheRow DEF StoreOK
  <2> QED
    BY <2>1, <2>2, <2>3, <2>4
<1> QED
  BY <1>5, <1>6, <1>7

LEMMA StoreNext == StoreInv /\ [PublisherNext]_publisherVars => StoreInv'
<1> SUFFICES ASSUME StoreInv, [PublisherNext]_publisherVars PROVE StoreInv'
  OBVIOUS
<1>1. EndInv'
  BY EndNext DEF StoreInv
<1>2. CASE Burst
  <2>1. PICK n \in 1 .. MaxEvents - board : board' = board + n
    BY <1>2 DEF Burst, Watch
  <2>2. board' \in Nat /\ board <= board'
    BY <2>1, PublisherAssumption DEF StoreInv, StoreOK
  <2> QED
    BY <1>1, <1>2, <2>2, BoardMoves DEF Burst, Watch
<1>3. ASSUME NEW s \in Seat, Connect(s) PROVE StoreInv'
  <2>1. UNCHANGED <<over, version, drained, storeVars>>
    BY <1>3 DEF Connect
  <2>2. CASE ~Started /\ Watch(1, FALSE)
    BY <1>1, <2>1, <2>2, BoardMoves DEF Watch, StoreInv, StoreOK, EndInv
  <2>3. CASE UNCHANGED <<board, pending>>
    BY <1>1, <2>1, <2>3, NothingMoves
  <2> QED
    BY <1>3, <2>2, <2>3 DEF Connect
<1>4. ASSUME NEW s \in Seat, Disconnect(s) \/ Receive(s) PROVE StoreInv'
  BY <1>1, <1>4, NothingMoves DEF Disconnect, Receive, gameVars
<1>5. CASE UNCHANGED publisherVars
  BY <1>1, <1>5, NothingMoves DEF publisherVars, gameVars
<1> QED
  BY <1>1, <1>2, <1>3, <1>4, <1>5, FlushKeepsStore, CreateKeepsStore,
     LandKeepsStore, RejectKeepsStore DEF PublisherNext

-----------------------------------------------------------------------------
(* Of every event handed to the store there is one record, in the row, on   *)
(* its way or lost with its flush, in whatever order flushes land (flush of *)
(* postgres-game.store.ts, drain of the log).                               *)
THEOREM OneRecordOfEach == PublisherSpec => []StoryIsWhole
<1>1. StoreInv => StoryIsWhole
  <2> SUFFICES ASSUME StoreInv
               PROVE  LET unsaved == UNION {EventsOf(f) : f \in Known} IN
                      /\ row.events \cup unsaved = 1 .. drained
                      /\ row.events \cap unsaved = {}
    BY DEF StoryIsWhole, Known
  <2>1. \A f \in Known : EventsOf(f) \subseteq 1 .. drained
    BY DEF StoreInv, StoreOK, EventsOf
  <2> QED
    BY <2>1 DEF StoreInv, StoryInv
<1> QED
  BY <1>1, StoreInit, StoreNext, PTL DEF PublisherSpec

(* Once every flush has landed, the last one at least, the stored board is  *)
(* the last one shown, and names a winner if there is one (flush, push).    *)
THEOREM TheNewestStays == PublisherSpec => []NewestIsKept
<1>1. StoreInv => NewestIsKept
  BY DEF StoreInv, StoreOK, NewestInv, NewestIsKept, Known
<1> QED
  BY <1>1, StoreInit, StoreNext, PTL DEF PublisherSpec

-----------------------------------------------------------------------------
(* Forward only.  Versions tell a client what is newer, but two snapshots   *)
(* may share one; so what a newer version shows has to be shown newer.      *)

Onward ==
  \A s \in Seat : \A x \in Around(s) :
    /\ x.board <= board /\ (x.over => over)
    /\ \A y \in Around(s) :
          x.version < y.version => x.board <= y.board /\ (x.over => y.over)

GameGoesOn ==
  /\ version \in Nat /\ version' \in Nat /\ version <= version'
  /\ board \in Nat /\ board' \in Nat /\ board <= board'
  /\ over => over'

(* A client gets nothing new, or some of them the board as it now is. *)
Newest == [version |-> version, board |-> board, over |-> over]

AroundMoves ==
  \/ \A s \in Seat : Around(s)' \subseteq Around(s)
  \/ \E seats : \A s \in Seat :
        Around(s)' = IF s \in seats THEN Around(s) \cup {Newest'} ELSE Around(s)

LEMMA OnwardKept ==
  ASSUME ClientsInv, Onward, GameGoesOn, AroundMoves
  PROVE  Onward'
<1>1. \A s \in Seat : \A x \in Around(s) :
        /\ x.version \in Int /\ x.board \in Nat /\ x.version <= version
        /\ x.board <= board /\ (x.over => over)
  BY AroundIsTyped DEF ClientsInv, NewestIsTrue, Onward
<1>2. CASE \A s \in Seat : Around(s)' \subseteq Around(s)
  BY <1>1, <1>2 DEF Onward, GameGoesOn
<1>3. ASSUME NEW seats, \A s \in Seat :
        Around(s)' = IF s \in seats THEN Around(s) \cup {Newest'} ELSE Around(s)
      PROVE  Onward'
  <2>1. Newest'.version = version' /\ Newest'.board = board' /\ Newest'.over = over'
    BY DEF Newest
  <2>2. SUFFICES ASSUME NEW s \in Seat, NEW x \in Around(s)'
                 PROVE  /\ x.board <= board' /\ (x.over => over')
                        /\ \A y \in Around(s)' :
                              x.version < y.version => x.board <= y.board /\ (x.over => y.over)
    BY DEF Onward
  <2>3. x \in Around(s) \/ x = Newest'
    BY <1>3
  <2>4. x.board <= board' /\ (x.over => over') /\ x.version <= version'
    BY <1>1, <2>1, <2>3 DEF GameGoesOn
  <2>5. ASSUME NEW y \in Around(s)', x.version < y.version
        PROVE  x.board <= y.board /\ (x.over => y.over)
    <3>1. CASE y = Newest'
      BY <2>1, <2>4, <3>1
    <3>2. CASE y \in Around(s)
      <4>1. x \in Around(s)
        BY <1>1, <2>1, <2>3, <2>5, <3>2 DEF GameGoesOn
      <4> QED  BY <2>5, <3>2, <4>1 DEF Onward
    <3> QED  BY <1>3, <3>1, <3>2
  <2> QED  BY <2>4, <2>5
<1> QED  BY <1>2, <1>3 DEF AroundMoves

LEMMA GamesGoOn == ASSUME ClientsInv, ClientsInv', PublisherNext PROVE GameGoesOn
<1>1. /\ version \in Nat /\ version' \in Nat /\ board \in Nat /\ board' \in Nat
  BY DEF ClientsInv, ClientsOK
<1>2. CASE Burst
  <2>1. ~over /\ version' = version
    BY <1>2 DEF Burst
  <2>2. PICK n \in 1 .. MaxEvents - board : board' = board + n
    BY <1>2 DEF Burst, Watch
  <2> QED  BY <1>1, <2>1, <2>2, PublisherAssumption DEF GameGoesOn
<1>3. CASE Flush
  BY <1>1, <1>3 DEF GameGoesOn, Flush, NextVersion
<1>4. ASSUME NEW s \in Seat, Connect(s) PROVE GameGoesOn
  BY <1>1, <1>4 DEF GameGoesOn, Connect, Watch
<1>5. CASE \/ \E s \in Seat : Disconnect(s) \/ Receive(s)
           \/ Create \/ \E f \in flights : Land(f) \/ Reject(f)
  <2>1. UNCHANGED <<version, board, over>>
    BY <1>5 DEF Disconnect, Receive, Create, Land, Reject, gameVars
  <2> QED  BY <1>1, <2>1 DEF GameGoesOn
<1> QED  BY <1>2, <1>3, <1>4, <1>5 DEF PublisherNext

LEMMA PushedAround ==
  ASSUME ClientsOK, NEW seats, Newest' \in Snap, Push(seats, Newest'), shown' = shown
  PROVE  AroundMoves
<1> DEFINE e == Newest'
<1>1. e \in Snap /\ Push(seats, e)
  OBVIOUS
<1> HIDE DEF e
<1>2. \A s \in Seat : Items(pipe'[s]) =
                        IF s \in seats THEN Items(pipe[s]) \cup {e} ELSE Items(pipe[s])
  BY <1>1, PushAdds
<1>3. \A s \in Seat : Around(s)' = IF s \in seats THEN Around(s) \cup {e} ELSE Around(s)
  BY <1>2 DEF Around
<1> QED  BY <1>3 DEF AroundMoves, e

LEMMA AroundsMove == ASSUME ClientsInv, ClientsInv', PublisherNext PROVE AroundMoves
<1>1. ClientsOK /\ Newest' \in Snap
  BY DEF ClientsInv, ClientsOK, Newest, Snap
<1>2. CASE UNCHANGED <<pipe, shown>>
  BY <1>2 DEF AroundMoves, Around
<1>3. CASE Burst \/ Create \/ \E f \in flights : Land(f) \/ Reject(f)
  BY <1>2, <1>3 DEF Burst, Create, Land, Reject, clientVars
<1>4. CASE Flush
  <2>1. Push(connected, Newest') /\ shown' = shown
    BY <1>4 DEF Flush, Newest
  <2> QED  BY <1>1, <2>1, PushedAround
<1>5. ASSUME NEW s \in Seat, Connect(s) PROVE AroundMoves
  <2>1. shown' = shown /\ version' = version /\ over' = over
    BY <1>5 DEF Connect
  <2>2. CASE Push(connected', [Look EXCEPT !.board = board'])
    <3>1. [Look EXCEPT !.board = board'] = Newest'
      BY <2>1 DEF Look, Newest
    <3> QED  BY <1>1, <2>1, <2>2, <3>1, PushedAround
  <2>3. CASE Push({s}, Look) /\ board' = board
    <3>1. Look = Newest'
      BY <2>1, <2>3 DEF Look, Newest
    <3> QED  BY <1>1, <2>1, <2>3, <3>1, PushedAround
  <2> QED  BY <1>2, <1>5, <2>1, <2>2, <2>3 DEF Connect
<1>6. ASSUME NEW s \in Seat, Disconnect(s) PROVE AroundMoves
  <2>1. pipe' = [pipe EXCEPT ![s] = <<>>] /\ shown' = shown
    BY <1>6 DEF Disconnect
  <2>2. \A t \in Seat : Around(t)' \subseteq Around(t)
    BY <1>1, <2>1 DEF ClientsOK, Around, Items
  <2> QED  BY <2>2 DEF AroundMoves
<1>7. ASSUME NEW s \in Seat, Receive(s) PROVE AroundMoves
  <2> DEFINE h == Head(pipe[s])
  <2>1. /\ pipe[s] # <<>> /\ pipe' = [pipe EXCEPT ![s] = Tail(@)]
        /\ shown' = [shown EXCEPT ![s] = IF h.version <= shown[s].version THEN shown[s] ELSE h]
    BY <1>7 DEF Receive
  <2>2. pipe[s] \in Seq(Snap)
    BY <1>1 DEF ClientsOK
  <2>3. /\ pipe'[s] = Tail(pipe[s])
        /\ shown'[s] \in {shown[s], h}
        /\ \A t \in Seat \ {s} : pipe'[t] = pipe[t] /\ shown'[t] = shown[t]
    BY <1>1, <2>1 DEF ClientsOK
  <2>4. Items(pipe[s]) = Items(pipe'[s]) \cup {h}
    BY <2>1, <2>2, <2>3, ItemsOfTail
  <2> HIDE DEF h
  <2>5. \A t \in Seat : Around(t)' \subseteq Around(t)
    BY <2>3, <2>4 DEF Around
  <2> QED  BY <2>5 DEF AroundMoves
<1> QED  BY <1>3, <1>4, <1>5, <1>6, <1>7 DEF PublisherNext

ScreensGoOn ==
  \A s \in Seat :
    /\ shown[s].version <= shown'[s].version /\ shown[s].board <= shown'[s].board
    /\ shown[s].over => shown'[s].over

LEMMA ScreensMove ==
  ClientsInv /\ Onward /\ [PublisherNext]_publisherVars
    => ClientsInv' /\ Onward' /\ [ScreensGoOn]_publisherVars
<1> SUFFICES ASSUME ClientsInv, Onward, [PublisherNext]_publisherVars
             PROVE  ClientsInv' /\ Onward' /\ [ScreensGoOn]_publisherVars
  OBVIOUS
<1>1. ClientsInv'
  BY ClientsNext
<1>2. CASE UNCHANGED publisherVars
  BY <1>1, <1>2 DEF publisherVars, gameVars, clientVars, Onward, Around
<1>3. CASE PublisherNext
  <2>1. Onward'
    BY <1>1, <1>3, GamesGoOn, AroundsMove, OnwardKept
  <2>2. \A s \in Seat : shown[s].version \in Int /\ shown[s].board \in Nat
    BY AroundIsTyped DEF ClientsInv, Around
  <2>3. shown' = shown => ScreensGoOn
    BY <2>2 DEF ScreensGoOn
  <2>4. ASSUME NEW s \in Seat, Receive(s) PROVE ScreensGoOn
    <3> DEFINE h == Head(pipe[s])
    <3>1. /\ pipe[s] # <<>> /\ pipe[s] \in Seq(Snap)
          /\ shown' = [shown EXCEPT ![s] = IF h.version <= shown[s].version THEN shown[s] ELSE h]
      BY <2>4 DEF Receive, ClientsInv, ClientsOK
    <3>2. h \in Around(s) /\ shown[s] \in Around(s)
      BY <3>1, ItemsOfTail DEF Around
    <3>3. /\ shown'[s] = IF h.version <= shown[s].version THEN shown[s] ELSE h
          /\ \A t \in Seat \ {s} : shown'[t] = shown[t]
      BY <3>1 DEF ClientsInv, ClientsOK
    <3> HIDE DEF h
    <3>4. h.version \in Int /\ h.board \in Nat
      BY <3>2, AroundIsTyped DEF ClientsInv
    <3>5. shown[s].version < h.version =>
            shown[s].board <= h.board /\ (shown[s].over => h.over)
      BY <3>2 DEF Onward
    <3> QED  BY <2>2, <3>3, <3>4, <3>5 DEF ScreensGoOn
  <2>5. shown' = shown \/ \E s \in Seat : Receive(s)
    BY <1>3 DEF PublisherNext, Burst, Flush, Create, Connect, Disconnect, Land, Reject,
       clientVars
  <2> QED  BY <1>1, <2>1, <2>3, <2>4, <2>5
<1> QED  BY <1>2, <1>3

LEMMA OnwardInit == PublisherInit => Onward
<1> SUFFICES ASSUME PublisherInit PROVE Onward
  OBVIOUS
<1>1. ASSUME NEW s \in Seat PROVE Around(s) = {Nothing}
  <2>1. pipe[s] = <<>> /\ shown[s] = Nothing
    BY DEF PublisherInit
  <2>2. Items(pipe[s]) = {}
    BY <2>1 DEF Items
  <2> QED  BY <2>1, <2>2 DEF Around
<1>2. Nothing.version = -1 /\ Nothing.board = 0 /\ Nothing.over = FALSE /\ board = 0
  BY DEF Nothing, PublisherInit
<1> QED  BY <1>1, <1>2 DEF Onward

(* A screen never goes back: neither its version, nor the board it shows,   *)
(* nor the end of the game, whatever first looks came in between (accept of *)
(* useGameState.ts, snapshotOf).                                            *)
THEOREM ScreensNeverGoBack == PublisherSpec => [][ScreensGoOn]_publisherVars
  BY ClientsInit, OnwardInit, ScreensMove, PTL DEF PublisherSpec

-----------------------------------------------------------------------------
(* The same of the row: a later flush knows at least as much.               *)

RecordsInOrder ==
  /\ \A f, g \in Known : f.version < g.version => f.board <= g.board
  /\ \A f \in Known : row.version < f.version => row.board <= f.board
  /\ row.board <= drained

RowGoesOn ==
  row # NoRow =>
    /\ row.version <= row'.version /\ row.board <= row'.board
    /\ row.winner => row'.winner
    /\ row.events \subseteq row'.events

LEMMA RowMoves ==
  StoreInv /\ RecordsInOrder /\ [PublisherNext]_publisherVars
    => StoreInv' /\ RecordsInOrder' /\ [RowGoesOn]_publisherVars
<1> SUFFICES ASSUME StoreInv, RecordsInOrder, [PublisherNext]_publisherVars
             PROVE  StoreInv' /\ RecordsInOrder' /\ [RowGoesOn]_publisherVars
  OBVIOUS
<1>1. StoreInv'
  BY StoreNext
<1>2. row.version \in Int /\ row.board \in Nat
  BY FieldsOfTheRow DEF StoreInv, StoreOK
<1>3. CASE UNCHANGED <<row, Known, drained>>
  BY <1>1, <1>2, <1>3 DEF RecordsInOrder, RowGoesOn
<1>4. CASE Flush
  <2> DEFINE n == [version |-> version', from |-> drained + 1,
                   board |-> board, winner |-> ended]
  <2>1. /\ version' = version + 1 /\ row' = row
        /\ flights' = flights \cup {n} /\ lost' = lost /\ drained' = board
    BY <1>4 DEF Flush, NextVersion, Drain
  <2>2. n.version = version + 1 /\ n.board = board
    BY <2>1
  <2> HIDE DEF n
  <2>3. Known' = Known \cup {n}
    BY <2>1 DEF Known
  <2>4. /\ \A f \in Known : /\ f.version \in Nat /\ f.version <= version
                            /\ f.board \in Nat /\ f.board <= board
        /\ version \in Nat /\ board \in Nat /\ drained \in Nat /\ drained <= board
    BY DEF StoreInv, StoreOK
  <2>5. row.board <= board
    BY <1>2, <2>4 DEF RecordsInOrder
  <2> QED  BY <1>1, <1>2, <2>1, <2>2, <2>3, <2>4, <2>5 DEF RecordsInOrder, RowGoesOn
<1>5. CASE Create
  <2>1. /\ row = NoRow /\ row' \in {NewRow, NoRow} /\ Known' = Known
        /\ drained' = drained /\ drained \in Nat
    BY <1>5 DEF Create, StoreInv, StoreOK, Known, gameVars
  <2>2. row'.board = 0 /\ \A f \in Known : f.board \in Nat
    BY <2>1, RowsAreRows DEF StoreInv, StoreOK
  <2> QED  BY <1>1, <2>1, <2>2 DEF RecordsInOrder, RowGoesOn
<1>6. ASSUME NEW f \in flights, Land(f)
      PROVE  RecordsInOrder' /\ RowGoesOn
  <2>1. flights' = flights \ {f} /\ lost' = lost /\ row' = Stored(f)
    BY <1>6 DEF Land
  <2>2. f \in Known /\ Known' \subseteq Known
    BY <2>1 DEF Known
  <2>3. /\ row.events \subseteq row'.events
        /\ IF f.version <= row.version
           THEN UNCHANGED <<row.version, row.board, row.winner>>
           ELSE /\ row'.version = f.version /\ row'.board = f.board
                /\ row'.winner = (row.winner \/ f.winner)
    BY <2>1, RowsAreRows DEF Stored, StoreInv, StoreOK, Row
  <2>4. /\ \A g \in Known : g.version \in Nat /\ g.board \in Nat /\ g.board <= drained
        /\ drained' = drained
    BY <1>6 DEF Land, StoreInv, StoreOK, gameVars
  <2>5. row.winner => row'.winner
    BY <2>3, Zenon
  <2>6. /\ row.version <= row'.version /\ row.board <= row'.board
        /\ row'.board <= drained
        /\ \A g \in Known : row'.version < g.version => row'.board <= g.board
    <3>1. CASE f.version <= row.version
      BY <1>2, <2>3, <2>4, <3>1 DEF RecordsInOrder
    <3>2. CASE row.version < f.version
      BY <1>2, <2>2, <2>3, <2>4, <3>2 DEF RecordsInOrder
    <3> QED  BY <1>2, <2>2, <2>4, <3>1, <3>2
  <2> QED  BY <2>2, <2>3, <2>4, <2>5, <2>6 DEF RecordsInOrder, RowGoesOn
<1>7. ASSUME NEW f \in flights, Reject(f) PROVE UNCHANGED <<row, Known, drained>>
  BY <1>7 DEF Reject, Known, gameVars
<1>8. CASE Burst \/ \E s \in Seat : Connect(s) \/ Disconnect(s) \/ Receive(s)
  BY <1>3, <1>8 DEF Burst, Connect, Disconnect, Receive, gameVars, storeVars, Known
<1>9. CASE UNCHANGED publisherVars
  BY <1>3, <1>9 DEF publisherVars, gameVars, storeVars, Known
<1> QED  BY <1>1, <1>3, <1>4, <1>5, <1>6, <1>7, <1>8, <1>9 DEF PublisherNext

(* The stored game never goes back to an older board, forgets its winner or *)
(* loses a record, in whatever order the flushes land (flush of             *)
(* postgres-game.store.ts).                                                 *)
THEOREM TheRowNeverGoesBack == PublisherSpec => [][RowGoesOn]_publisherVars
<1>1. PublisherInit => RecordsInOrder
  BY RowsAreRows DEF PublisherInit, RecordsInOrder, Known
<1> QED  BY <1>1, StoreInit, RowMoves, PTL DEF PublisherSpec

=============================================================================
