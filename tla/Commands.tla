------------------------------ MODULE Commands -------------------------------
(***************************************************************************)
(* A command's way from a seat's client to one table and back: the two     *)
(* attempts of the client, the gateway's handleCommand with its ledger,    *)
(* and the end of the table.  Connections break, and with them anything    *)
(* that is on its way may be lost; what a broken connection has delivered  *)
(* may still be handled after the next one is up.                          *)
(*                                                                         *)
(* What a command does to the board is left out: a command runs, or the    *)
(* table refuses it.  Every handler of the gateway is synchronous.         *)
(***************************************************************************)
EXTENDS Integers, Sequences, FiniteSets

CONSTANTS
  Seat,
  Bystander,    \* the seats whose commands, but for leaving, are left out
  MaxCommands,  \* bound: how many commands each seat sends
  Remembered,   \* REMEMBERED_PER_SEAT
  Window        \* how many commands a seat sends while one can still be tried

(* "A retry is seconds old, not hours": the commands that can be answered   *)
(* before a command is tried again are the ones that were under way with it *)
(* and the ones sent since.                                                 *)
ASSUME CommandsAssumption ==
  /\ MaxCommands \in Nat
  /\ Bystander \cap Seat = {}
  /\ Window \in Nat \ {0}
  /\ Remembered \in Nat \ {0}
  /\ Remembered >= 2 * Window - 1

Command == Seat \X (1 .. MaxCommands)
SeatOf(c) == c[1]
(* A throw of the engine counts as "taken", for it leaves what it had done. *)
Result == {"taken", "refused", "missing"}

VARIABLES
  phase,     \* the table is "running", or "over"
  left,      \* the seats that have left it; when all have, it is forgotten
  ledger,    \* bySeat: the answers a seat is remembered by, oldest first
  issued,    \* how many commands each seat has sent
  aim,       \* what a command asks for: an "act", or to "leave"
  attempt,   \* the attempt the client waits for: 1 or 2, 0 before and 3 after
  connected, \* the seats whose client has a connection
  wire,      \* what each connection carries, in order
  stale,     \* what broken connections may still deliver
  ran,       \* history: how often the command took effect
  answers    \* history: what it was answered

Gone == Seat \cup Bystander \subseteq left

serverVars  == <<phase, left, ledger>>
clientVars  == <<issued, aim, attempt>>
linkVars    == <<connected, wire, stale>>
historyVars == <<ran, answers>>
commandVars == <<serverVars, clientVars, linkVars, historyVars>>

CommandsInit ==
  /\ phase = "running"
  /\ left = {}
  /\ ledger = [s \in Seat |-> <<>>]
  /\ issued = [s \in Seat |-> 0]
  /\ aim = [c \in Command |-> "act"]
  /\ attempt = [c \in Command |-> 0]
  /\ connected = {}
  /\ wire = [s \in Seat |-> <<>>]
  /\ stale = {}
  /\ ran = [c \in Command |-> 0]
  /\ answers = [c \in Command |-> {}]

-----------------------------------------------------------------------------
(* The client *)

Travelling == stale \cup UNION {{wire[s][i] : i \in DOMAIN wire[s]} : s \in Seat}

(* A command that can still reach the table: its client waits for it, or an *)
(* attempt is on its way.                                                   *)
CanBeTried(c) ==
  \/ attempt[c] \in 1 .. 2
  \/ \E m \in Travelling : m.command = c

(* emitOnce: a client that is not connected sends nothing. *)
Emit(c, n) ==
  /\ attempt' = [attempt EXCEPT ![c] = n]
  /\ wire' = IF SeatOf(c) \notin connected THEN wire
             ELSE [wire EXCEPT ![SeatOf(c)] =
                     Append(@, [command |-> c, try |-> n])]

(* A player acts, under a fresh id. *)
Issue(s, what) ==
  LET c == <<s, issued[s] + 1>> IN
  /\ c \in Command
  /\ \A d \in Command :
        SeatOf(d) = s /\ CanBeTried(d) => c[2] - d[2] < Window
  /\ issued' = [issued EXCEPT ![s] = @ + 1]
  /\ aim' = [aim EXCEPT ![c] = what]
  /\ Emit(c, 1)
  /\ UNCHANGED <<serverVars, connected, stale, historyVars>>

(* Nothing came back in time, or nothing was sent. *)
Retry(c) ==
  /\ attempt[c] = 1
  /\ Emit(c, 2)
  /\ UNCHANGED <<serverVars, issued, aim, connected, stale, historyVars>>

(* The second attempt is the last; the player is told of an InternalError. *)
GiveUp(c) ==
  /\ attempt[c] = 2
  /\ attempt' = [attempt EXCEPT ![c] = 3]
  /\ UNCHANGED <<serverVars, issued, aim, linkVars, historyVars>>

-----------------------------------------------------------------------------
(* Connections *)

(* Slip: the ledger belongs to the connection. *)
SlipConnect(s) ==
  /\ s \notin connected /\ ~Gone
  /\ connected' = connected \cup {s}
  /\ ledger' = [ledger EXCEPT ![s] = <<>>]
  /\ UNCHANGED <<phase, left, clientVars, wire, stale, historyVars>>

(* The handshake; without a table it is refused. *)
Connect(s) ==
  /\ s \notin connected /\ ~Gone
  /\ connected' = connected \cup {s}
  /\ UNCHANGED <<serverVars, clientVars, wire, stale, historyVars>>

Disconnect(s) ==
  /\ s \in connected
  /\ connected' = connected \ {s}
  /\ wire' = [wire EXCEPT ![s] = <<>>]
  /\ stale' = stale \cup {wire[s][i] : i \in DOMAIN wire[s]}
  /\ UNCHANGED <<serverVars, clientVars, historyVars>>

(* What was on a broken connection may be lost. *)
Lose(m) ==
  /\ m \in stale
  /\ stale' = stale \ {m}
  /\ UNCHANGED <<serverVars, clientVars, connected, wire, historyVars>>

-----------------------------------------------------------------------------
(* The gateway *)

Recalls(c) == {i \in DOMAIN ledger[SeatOf(c)] : ledger[SeatOf(c)][i].command = c}

(* Slip: the limit is taken for one too few. *)
SlipRemember(list, c, result) ==
  LET longer == Append(list, [command |-> c, result |-> result]) IN
  IF Len(longer) >= Remembered THEN Tail(longer) ELSE longer

(* remember: the oldest answer goes when there are too many. *)
Remember(list, c, result) ==
  LET longer == Append(list, [command |-> c, result |-> result]) IN
  IF Len(longer) > Remembered THEN Tail(longer) ELSE longer

(* The answer is heard on the connection the command came on, by a client  *)
(* that still waits for this attempt; or it is late, or lost.               *)
Reply(m, result) ==
  LET c == m.command  s == SeatOf(m.command) IN
  /\ answers' = [answers EXCEPT ![c] = @ \cup {result}]
  /\ \/ /\ wire[s] # <<>> /\ m = Head(wire[s])
        /\ wire' = [wire EXCEPT ![s] = Tail(@)]
        /\ \/ UNCHANGED attempt
           \/ attempt[c] = m.try /\ attempt' = [attempt EXCEPT ![c] = 3]
        /\ UNCHANGED stale
     \/ m \in stale /\ stale' = stale \ {m} /\ UNCHANGED <<wire, attempt>>
  /\ UNCHANGED <<issued, aim, connected>>

(* A command that was answered is answered again, even when the table it    *)
(* was for is gone.                                                         *)
Recall(m) ==
  /\ \E i \in Recalls(m.command) : Reply(m, ledger[SeatOf(m.command)][i].result)
  /\ UNCHANGED <<serverVars, ran>>

(* No table, no memory of it. *)
Missing(m) ==
  /\ Recalls(m.command) = {} /\ Gone
  /\ Reply(m, "missing")
  /\ UNCHANGED <<serverVars, ran>>

(* dispatch: the engine takes the command or refuses it; a malformed one    *)
(* counts as refused.  A table that is over refuses everything; a command   *)
(* that is taken may end the game.                                          *)
Dispatch(m) ==
  LET c == m.command
      Answer(result) ==
        /\ Reply(m, result)
        /\ ledger' = [ledger EXCEPT ![SeatOf(c)] = Remember(@, c, result)]
  IN
  /\ Recalls(c) = {} /\ ~Gone /\ aim[c] = "act"
  /\ \/ Answer("refused") /\ UNCHANGED <<phase, ran>>
     \/ /\ phase = "running"
        /\ Answer("taken")
        /\ ran' = [ran EXCEPT ![c] = @ + 1]
        /\ phase' \in {"running", "over"}
  /\ UNCHANGED left

(* Slip: the seat is forgotten after its answer was remembered. *)
SlipLeave(m) ==
  LET c == m.command  s == SeatOf(m.command) IN
  /\ Recalls(c) = {} /\ ~Gone /\ aim[c] = "leave"
  /\ IF phase = "over"
       THEN /\ left' = left \cup {s}
            /\ ledger' = [ledger EXCEPT ![s] = <<>>]
            /\ Reply(m, "taken")
       ELSE /\ ledger' = [ledger EXCEPT ![s] = Remember(@, c, "refused")]
            /\ Reply(m, "refused")
            /\ UNCHANGED left
  /\ UNCHANGED <<phase, ran>>

(* leave: a table that is over lets the seat go and forgets what the seat   *)
(* was answered, but for this answer.                                       *)
Leave(m) ==
  LET c == m.command  s == SeatOf(m.command) IN
  /\ Recalls(c) = {} /\ ~Gone /\ aim[c] = "leave"
  /\ IF phase = "over"
       THEN /\ left' = left \cup {s}
            /\ ledger' = [ledger EXCEPT ![s] = Remember(<<>>, c, "taken")]
            /\ Reply(m, "taken")
       ELSE /\ ledger' = [ledger EXCEPT ![s] = Remember(@, c, "refused")]
            /\ Reply(m, "refused")
            /\ UNCHANGED left
  /\ UNCHANGED <<phase, ran>>

(* A clock, or a command of the bystanders, ends the game. *)
GameEnds ==
  /\ phase = "running" /\ phase' = "over"
  /\ UNCHANGED <<left, ledger, clientVars, linkVars, historyVars>>

BystanderLeaves(s) ==
  /\ phase = "over" /\ s \notin left
  /\ left' = left \cup {s}
  /\ UNCHANGED <<phase, ledger, clientVars, linkVars, historyVars>>

Player ==
  \/ \E s \in Seat : Issue(s, "act") \/ Issue(s, "leave")
  \/ \E c \in Command : Retry(c) \/ GiveUp(c)

Network ==
  \/ \E s \in Seat : Connect(s) \/ Disconnect(s)
  \/ \E m \in stale : Lose(m)

Handle == \E m \in Travelling : Recall(m) \/ Missing(m) \/ Dispatch(m) \/ Leave(m)

Others == GameEnds \/ \E s \in Bystander : BystanderLeaves(s)

CommandsNext == Player \/ Network \/ Handle \/ Others

CommandsSpec == CommandsInit /\ [][CommandsNext]_commandVars

-----------------------------------------------------------------------------
(* "A retried command is answered from memory and never executed twice",    *)
(* across lost answers, broken connections and the ledger's own forgetting  *)
(* (command-ledger.ts, game.gateway.ts handleCommand).                      *)
RunsOnce == \A c \in Command : ran[c] <= 1

(* Whoever has not left is answered the same however often a command comes, *)
(* and a refusal means that nothing happened ("dedupe by command id,        *)
(* dispatch, ack truthfully", game.gateway.ts).                             *)
AnswersAgree ==
  \A c \in Command : SeatOf(c) \notin left =>
    /\ Cardinality(answers[c]) <= 1
    /\ "refused" \in answers[c] => ran[c] = 0
    /\ "taken" \in answers[c] /\ aim[c] = "act" => ran[c] = 1

(* "A retried LeaveGame that emptied the table is answered from here after  *)
(* the table is gone" (game.gateway.ts): the one command by which a seat    *)
(* left is never answered by anything but its acceptance.                   *)
LeavingIsConfirmed ==
  \A c \in Command :
    (/\ aim[c] = "leave" /\ "taken" \in answers[c]
     /\ \A d \in Command \ {c} :
           SeatOf(d) = SeatOf(c) /\ aim[d] = "leave" => "taken" \notin answers[d])
      => answers[c] = {"taken"}

=============================================================================
