--------------------------- MODULE TurnLoopProofs ---------------------------
(***************************************************************************)
(* What TurnLoop promises, for any number of seats, any budget, and        *)
(* whatever the cards set off.                                             *)
(*                                                                         *)
(* The invariant says where the cascade can be and what is true of the     *)
(* board there: what a step may take for granted is what the steps that    *)
(* are still to come leave to it.                                          *)
(***************************************************************************)
EXTENDS TurnLoop, Induction

(* What may be left to do: after a command (D), after a window has settled  *)
(* (R), and either of them while a card is on its way to the table (P, S).  *)
D1 == <<"drain">>
D2 == <<"hear", "drain">>
D3 == <<"tasks", "hear", "drain">>
PD == <<"land", "show", "drain">>
SD == <<"show", "drain">>
R1 == <<"resume">>
R2 == <<"hear", "resume">>
R3 == <<"tasks", "hear", "resume">>
R4 == <<"wake", "tasks", "hear", "resume">>
R5 == <<"clock", "wake", "tasks", "hear", "resume">>
R6 == <<"hear", "clock", "wake", "tasks", "hear", "resume">>
R7 == <<"tasks", "hear", "clock", "wake", "tasks", "hear", "resume">>
R8 == <<"push", "tasks", "hear", "clock", "wake", "tasks", "hear", "resume">>
R9 == <<"hear", "push", "tasks", "hear", "clock", "wake", "tasks", "hear", "resume">>
S2 == <<"show", "hear", "resume">>
P2 == <<"land", "show", "hear", "resume">>
S6 == <<"show", "hear", "clock", "wake", "tasks", "hear", "resume">>
P6 == <<"land", "show", "hear", "clock", "wake", "tasks", "hear", "resume">>
Next1 == <<"next">>
Sync1 == <<"sync">>
None == <<>>

Draining   == {D1, D2, D3, PD, SD}
ShowAhead  == {PD, SD, P2, S2, P6, S6}
TasksAhead == {D3, R3, R4, R5, R6, R7, R8, R9, P6, S6}
WakeAhead  == {R4, R5, R6, R7, R8, R9, P6, S6}
ClockAhead == {R5, R6, R7, R8, R9, P6, S6}
Unheard    == {R2, P2, S2, R3} \cup WakeAhead
Agenda     == {None, Next1, Sync1, R1} \cup Draining \cup Unheard

-----------------------------------------------------------------------------
(* The invariant *)

Pipeline == [steps : Nat, on : Nat, asks : BOOLEAN]
Frame == [restoring : BOOLEAN, open : BOOLEAN, before : SUBSET Seat]

Types ==
    /\ phase \in {"Setup", "Turns", "Concluded"}
    /\ winner \in 0..Seats
    /\ turn \in [phase : {"Start", "Action", "End"}, seat : 0..Seats,
                 points : Nat]
    /\ queue \in Seq(Kind)
    /\ clock \in [timed : BOOLEAN, running : BOOLEAN]
    /\ DOMAIN frames \subseteq Nat \ {0}
    /\ frames \in [DOMAIN frames -> Frame]
    /\ stack \in Seq(Pipeline)
    /\ qualifies \subseteq Seat
    /\ resolved \in Nat
    /\ runs \in Int
    /\ todo \in Agenda

(* Before the game nothing is there; after it nothing is left of it but     *)
(* what the cascade that ended it still does in vain.                       *)
InSetup ==
    phase = "Setup" =>
        /\ todo = None /\ queue = <<>> /\ stack = <<>> /\ DOMAIN frames = {}
        /\ turn.seat = NoSeat /\ ~clock.running /\ qualifies = {}

InTheEnd ==
    phase = "Concluded" =>
        /\ clock = Stopped /\ DOMAIN frames = {} /\ stack = <<>>
        /\ todo \notin Draining \cup ShowAhead

Seated == phase = "Setup" \/ (Playing /\ todo = Next1) \/ turn.seat # NoSeat

(* A frame without a window is one whose card is on its way to the table. *)
OnItsWay ==
    /\ \A f \in DOMAIN frames :
          ~frames[f].open => frames[f].restoring /\ todo \in ShowAhead
    /\ todo \in ShowAhead => Playing /\ \E f \in DOMAIN frames : frames[f].restoring

ClockHeld == clock.running => ~HasOpenFrames

(* A parked pipeline is parked on a frame that stands, or on the one that   *)
(* has settled and will wake it.                                            *)
Parked ==
    /\ \A i \in DOMAIN stack :
          stack[i].on # NoFrame => stack[i].on \in DOMAIN frames \cup {resolved}
    /\ resolved # NoFrame => todo \in WakeAhead
    /\ MayRun => todo \in TasksAhead

(* What a draw sets off begins with a question, so no card is on its way    *)
(* before the points that were spent are looked at.                         *)
AsksFirst ==
    todo = D3 => stack = <<>> \/ (Top.asks /\ Top.steps > 0 /\ MayRun)

TurnEnds ==
    Playing /\ todo = Next1 =>
        /\ queue = <<>> /\ DOMAIN frames = {} /\ stack = <<>>
        /\ turn.seat = NoSeat \/ turn.points = 0

InAction ==
    Playing /\ todo # Next1 => turn.phase = "Action" /\ clock.timed = Timed

(* The clock of a timed turn stands still only while a window is open, or   *)
(* something will start it, or the turn is over.                            *)
ClockGoesOn ==
    Playing /\ Timed /\ ~clock.running /\ ~HasOpenFrames =>
        \/ todo \in ClockAhead \cup {Next1, Sync1}
        \/ todo = D1 /\ queue = <<>> /\ turn.points = 0 /\ stack = <<>>

Idle ==
    /\ Playing /\ todo = None /\ ~HasOpenFrames =>
          stack = <<>> /\ queue = <<>> /\ turn.points > 0
    /\ Playing /\ todo = Sync1 =>
          /\ DOMAIN frames = {} /\ stack = <<>> /\ queue = <<>>
          /\ turn.points > 0

(* The engine has heard of every seat that meets the conditions, or is      *)
(* about to.                                                                *)
Heard ==
    Playing /\ qualifies # {} /\ todo \notin Unheard => HasPendingOutcome(frames)

Inv ==
    /\ Types /\ InSetup /\ InTheEnd /\ Seated /\ OnItsWay /\ ClockHeld /\ Parked
    /\ AsksFirst /\ TurnEnds /\ InAction /\ ClockGoesOn /\ Idle /\ Heard

-----------------------------------------------------------------------------
(* What is left to do *)

(* An agenda that begins with `step`, ends with `last` and is n steps long. *)
Row(agenda, n, step, last, rest) ==
    /\ Len(agenda) = n /\ agenda # <<>>
    /\ Head(agenda) = step /\ agenda[n] = last /\ Tail(agenda) = rest

LEMMA Table ==
  /\ Row(D1, 1, "drain", "drain", None)
  /\ Row(D2, 2, "hear", "drain", D1)
  /\ Row(D3, 3, "tasks", "drain", D2)
  /\ Row(PD, 3, "land", "drain", SD)
  /\ Row(SD, 2, "show", "drain", D1)
  /\ Row(R1, 1, "resume", "resume", None)
  /\ Row(R2, 2, "hear", "resume", R1)
  /\ Row(R3, 3, "tasks", "resume", R2)
  /\ Row(R4, 4, "wake", "resume", R3)
  /\ Row(R5, 5, "clock", "resume", R4)
  /\ Row(R6, 6, "hear", "resume", R5)
  /\ Row(R7, 7, "tasks", "resume", R6)
  /\ Row(R8, 8, "push", "resume", R7)
  /\ Row(R9, 9, "hear", "resume", R8)
  /\ Row(S2, 3, "show", "resume", R2)
  /\ Row(P2, 4, "land", "resume", S2)
  /\ Row(S6, 7, "show", "resume", R6)
  /\ Row(P6, 8, "land", "resume", S6)
  /\ Row(Next1, 1, "next", "next", None)
  /\ Row(Sync1, 1, "sync", "sync", None)
<1>D1. Row(D1, 1, "drain", "drain", None)
  BY DEF Row, D1, None
<1>D2. Row(D2, 2, "hear", "drain", D1)
  BY DEF Row, D2, D1
<1>D3. Row(D3, 3, "tasks", "drain", D2)
  BY DEF Row, D3, D2
<1>PD. Row(PD, 3, "land", "drain", SD)
  BY DEF Row, PD, SD
<1>SD. Row(SD, 2, "show", "drain", D1)
  BY DEF Row, SD, D1
<1>R1. Row(R1, 1, "resume", "resume", None)
  BY DEF Row, R1, None
<1>R2. Row(R2, 2, "hear", "resume", R1)
  BY DEF Row, R2, R1
<1>R3. Row(R3, 3, "tasks", "resume", R2)
  BY DEF Row, R3, R2
<1>R4. Row(R4, 4, "wake", "resume", R3)
  BY DEF Row, R4, R3
<1>R5. Row(R5, 5, "clock", "resume", R4)
  BY DEF Row, R5, R4
<1>R6. Row(R6, 6, "hear", "resume", R5)
  BY DEF Row, R6, R5
<1>R7. Row(R7, 7, "tasks", "resume", R6)
  BY DEF Row, R7, R6
<1>R8. Row(R8, 8, "push", "resume", R7)
  BY DEF Row, R8, R7
<1>R9. Row(R9, 9, "hear", "resume", R8)
  BY DEF Row, R9, R8
<1>S2. Row(S2, 3, "show", "resume", R2)
  BY DEF Row, S2, R2
<1>P2. Row(P2, 4, "land", "resume", S2)
  BY DEF Row, P2, S2
<1>S6. Row(S6, 7, "show", "resume", R6)
  BY DEF Row, S6, R6
<1>P6. Row(P6, 8, "land", "resume", S6)
  BY DEF Row, P6, S6
<1>Next1. Row(Next1, 1, "next", "next", None)
  BY DEF Row, Next1, None
<1>Sync1. Row(Sync1, 1, "sync", "sync", None)
  BY DEF Row, Sync1, None
<1> QED  BY <1>D1, <1>D2, <1>D3, <1>PD, <1>SD, <1>R1, <1>R2, <1>R3, <1>R4, <1>R5, <1>R6, <1>R7, <1>R8, <1>R9, <1>S2, <1>P2, <1>S6, <1>P6, <1>Next1, <1>Sync1

LEMMA NoneIsEmpty == None = <<>> /\ Len(None) = 0
BY DEF None

LEMMA At ==
  ASSUME NEW step, Does(step), todo \in Agenda
  PROVE  /\ step = "hear" => \/ (todo = D2 /\ Tail(todo) = D1)
                             \/ (todo = R2 /\ Tail(todo) = R1)
                             \/ (todo = R6 /\ Tail(todo) = R5)
                             \/ (todo = R9 /\ Tail(todo) = R8)
         /\ step = "tasks" => \/ (todo = D3 /\ Tail(todo) = D2)
                              \/ (todo = R3 /\ Tail(todo) = R2)
                              \/ (todo = R7 /\ Tail(todo) = R6)
         /\ step = "land" => \/ (todo = PD /\ Tail(todo) = SD)
                             \/ (todo = P2 /\ Tail(todo) = S2)
                             \/ (todo = P6 /\ Tail(todo) = S6)
         /\ step = "show" => \/ (todo = SD /\ Tail(todo) = D1)
                             \/ (todo = S2 /\ Tail(todo) = R2)
                             \/ (todo = S6 /\ Tail(todo) = R6)
         /\ step = "clock" => todo = R5 /\ Tail(todo) = R4
         /\ step = "wake" => todo = R4 /\ Tail(todo) = R3
         /\ step = "push" => todo = R8 /\ Tail(todo) = R7
         /\ step = "resume" => todo = R1 /\ Tail(todo) = None
         /\ step = "sync" => todo = Sync1 /\ Tail(todo) = None
         /\ step = "next" => todo = Next1 /\ Tail(todo) = None
         /\ step = "drain" => todo = D1 /\ Tail(todo) = None
<1>1. todo # <<>> /\ Head(todo) = step
  BY DEF Does
<1>2. todo # None
  BY <1>1 DEF None
<1>D1. CASE todo = D1
  <2>1. step = "drain" /\ Tail(todo) = None
    BY <1>1, <1>D1, Table DEF Row
  <2> QED  BY <2>1, <1>D1
<1>D2. CASE todo = D2
  <2>1. step = "hear" /\ Tail(todo) = D1
    BY <1>1, <1>D2, Table DEF Row
  <2> QED  BY <2>1, <1>D2
<1>D3. CASE todo = D3
  <2>1. step = "tasks" /\ Tail(todo) = D2
    BY <1>1, <1>D3, Table DEF Row
  <2> QED  BY <2>1, <1>D3
<1>PD. CASE todo = PD
  <2>1. step = "land" /\ Tail(todo) = SD
    BY <1>1, <1>PD, Table DEF Row
  <2> QED  BY <2>1, <1>PD
<1>SD. CASE todo = SD
  <2>1. step = "show" /\ Tail(todo) = D1
    BY <1>1, <1>SD, Table DEF Row
  <2> QED  BY <2>1, <1>SD
<1>R1. CASE todo = R1
  <2>1. step = "resume" /\ Tail(todo) = None
    BY <1>1, <1>R1, Table DEF Row
  <2> QED  BY <2>1, <1>R1
<1>R2. CASE todo = R2
  <2>1. step = "hear" /\ Tail(todo) = R1
    BY <1>1, <1>R2, Table DEF Row
  <2> QED  BY <2>1, <1>R2
<1>R3. CASE todo = R3
  <2>1. step = "tasks" /\ Tail(todo) = R2
    BY <1>1, <1>R3, Table DEF Row
  <2> QED  BY <2>1, <1>R3
<1>R4. CASE todo = R4
  <2>1. step = "wake" /\ Tail(todo) = R3
    BY <1>1, <1>R4, Table DEF Row
  <2> QED  BY <2>1, <1>R4
<1>R5. CASE todo = R5
  <2>1. step = "clock" /\ Tail(todo) = R4
    BY <1>1, <1>R5, Table DEF Row
  <2> QED  BY <2>1, <1>R5
<1>R6. CASE todo = R6
  <2>1. step = "hear" /\ Tail(todo) = R5
    BY <1>1, <1>R6, Table DEF Row
  <2> QED  BY <2>1, <1>R6
<1>R7. CASE todo = R7
  <2>1. step = "tasks" /\ Tail(todo) = R6
    BY <1>1, <1>R7, Table DEF Row
  <2> QED  BY <2>1, <1>R7
<1>R8. CASE todo = R8
  <2>1. step = "push" /\ Tail(todo) = R7
    BY <1>1, <1>R8, Table DEF Row
  <2> QED  BY <2>1, <1>R8
<1>R9. CASE todo = R9
  <2>1. step = "hear" /\ Tail(todo) = R8
    BY <1>1, <1>R9, Table DEF Row
  <2> QED  BY <2>1, <1>R9
<1>S2. CASE todo = S2
  <2>1. step = "show" /\ Tail(todo) = R2
    BY <1>1, <1>S2, Table DEF Row
  <2> QED  BY <2>1, <1>S2
<1>P2. CASE todo = P2
  <2>1. step = "land" /\ Tail(todo) = S2
    BY <1>1, <1>P2, Table DEF Row
  <2> QED  BY <2>1, <1>P2
<1>S6. CASE todo = S6
  <2>1. step = "show" /\ Tail(todo) = R6
    BY <1>1, <1>S6, Table DEF Row
  <2> QED  BY <2>1, <1>S6
<1>P6. CASE todo = P6
  <2>1. step = "land" /\ Tail(todo) = S6
    BY <1>1, <1>P6, Table DEF Row
  <2> QED  BY <2>1, <1>P6
<1>Next1. CASE todo = Next1
  <2>1. step = "next" /\ Tail(todo) = None
    BY <1>1, <1>Next1, Table DEF Row
  <2> QED  BY <2>1, <1>Next1
<1>Sync1. CASE todo = Sync1
  <2>1. step = "sync" /\ Tail(todo) = None
    BY <1>1, <1>Sync1, Table DEF Row
  <2> QED  BY <2>1, <1>Sync1
<1> QED  BY <1>2, <1>D1, <1>D2, <1>D3, <1>PD, <1>SD, <1>R1, <1>R2, <1>R3, <1>R4, <1>R5, <1>R6, <1>R7, <1>R8, <1>R9, <1>S2, <1>P2, <1>S6, <1>P6, <1>Next1, <1>Sync1 DEF Agenda, Draining, Unheard, WakeAhead

LEMMA Distinct ==
  /\ D1 \notin {D2, D3, PD, SD, R1, R2, R3, R4, R5, R6, R7, R8, R9, S2, P2, S6, P6, Next1, Sync1, None}
  /\ D2 \notin {D3, PD, SD, R1, R2, R3, R4, R5, R6, R7, R8, R9, S2, P2, S6, P6, Next1, Sync1, None}
  /\ D3 \notin {PD, SD, R1, R2, R3, R4, R5, R6, R7, R8, R9, S2, P2, S6, P6, Next1, Sync1, None}
  /\ PD \notin {SD, R1, R2, R3, R4, R5, R6, R7, R8, R9, S2, P2, S6, P6, Next1, Sync1, None}
  /\ SD \notin {R1, R2, R3, R4, R5, R6, R7, R8, R9, S2, P2, S6, P6, Next1, Sync1, None}
  /\ R1 \notin {R2, R3, R4, R5, R6, R7, R8, R9, S2, P2, S6, P6, Next1, Sync1, None}
  /\ R2 \notin {R3, R4, R5, R6, R7, R8, R9, S2, P2, S6, P6, Next1, Sync1, None}
  /\ R3 \notin {R4, R5, R6, R7, R8, R9, S2, P2, S6, P6, Next1, Sync1, None}
  /\ R4 \notin {R5, R6, R7, R8, R9, S2, P2, S6, P6, Next1, Sync1, None}
  /\ R5 \notin {R6, R7, R8, R9, S2, P2, S6, P6, Next1, Sync1, None}
  /\ R6 \notin {R7, R8, R9, S2, P2, S6, P6, Next1, Sync1, None}
  /\ R7 \notin {R8, R9, S2, P2, S6, P6, Next1, Sync1, None}
  /\ R8 \notin {R9, S2, P2, S6, P6, Next1, Sync1, None}
  /\ R9 \notin {S2, P2, S6, P6, Next1, Sync1, None}
  /\ S2 \notin {P2, S6, P6, Next1, Sync1, None}
  /\ P2 \notin {S6, P6, Next1, Sync1, None}
  /\ S6 \notin {P6, Next1, Sync1, None}
  /\ P6 \notin {Next1, Sync1, None}
  /\ Next1 \notin {Sync1, None}
  /\ Sync1 \notin {None}
<1> DEFINE Length(agenda) == Len(agenda)
           First(agenda) == Head(agenda)
           Last(agenda) == agenda[Len(agenda)]
<1>1. Length(None) = 0
  BY DEF None
<1>D1. Length(D1) = 1 /\ First(D1) = "drain" /\ Last(D1) = "drain"
  BY Table DEF Row
<1>D2. Length(D2) = 2 /\ First(D2) = "hear" /\ Last(D2) = "drain"
  BY Table DEF Row
<1>D3. Length(D3) = 3 /\ First(D3) = "tasks" /\ Last(D3) = "drain"
  BY Table DEF Row
<1>PD. Length(PD) = 3 /\ First(PD) = "land" /\ Last(PD) = "drain"
  BY Table DEF Row
<1>SD. Length(SD) = 2 /\ First(SD) = "show" /\ Last(SD) = "drain"
  BY Table DEF Row
<1>R1. Length(R1) = 1 /\ First(R1) = "resume" /\ Last(R1) = "resume"
  BY Table DEF Row
<1>R2. Length(R2) = 2 /\ First(R2) = "hear" /\ Last(R2) = "resume"
  BY Table DEF Row
<1>R3. Length(R3) = 3 /\ First(R3) = "tasks" /\ Last(R3) = "resume"
  BY Table DEF Row
<1>R4. Length(R4) = 4 /\ First(R4) = "wake" /\ Last(R4) = "resume"
  BY Table DEF Row
<1>R5. Length(R5) = 5 /\ First(R5) = "clock" /\ Last(R5) = "resume"
  BY Table DEF Row
<1>R6. Length(R6) = 6 /\ First(R6) = "hear" /\ Last(R6) = "resume"
  BY Table DEF Row
<1>R7. Length(R7) = 7 /\ First(R7) = "tasks" /\ Last(R7) = "resume"
  BY Table DEF Row
<1>R8. Length(R8) = 8 /\ First(R8) = "push" /\ Last(R8) = "resume"
  BY Table DEF Row
<1>R9. Length(R9) = 9 /\ First(R9) = "hear" /\ Last(R9) = "resume"
  BY Table DEF Row
<1>S2. Length(S2) = 3 /\ First(S2) = "show" /\ Last(S2) = "resume"
  BY Table DEF Row
<1>P2. Length(P2) = 4 /\ First(P2) = "land" /\ Last(P2) = "resume"
  BY Table DEF Row
<1>S6. Length(S6) = 7 /\ First(S6) = "show" /\ Last(S6) = "resume"
  BY Table DEF Row
<1>P6. Length(P6) = 8 /\ First(P6) = "land" /\ Last(P6) = "resume"
  BY Table DEF Row
<1>Next1. Length(Next1) = 1 /\ First(Next1) = "next" /\ Last(Next1) = "next"
  BY Table DEF Row
<1>Sync1. Length(Sync1) = 1 /\ First(Sync1) = "sync" /\ Last(Sync1) = "sync"
  BY Table DEF Row
<1> HIDE DEF Length, First, Last
<1> QED  BY <1>1, <1>D1, <1>D2, <1>D3, <1>PD, <1>SD, <1>R1, <1>R2, <1>R3, <1>R4, <1>R5, <1>R6, <1>R7, <1>R8, <1>R9, <1>S2, <1>P2, <1>S6, <1>P6, <1>Next1, <1>Sync1

LEMMA Prepend1 ==
  ASSUME NEW S, NEW a \in S, NEW p \in Seq(S), p # <<>>, Head(p) = a
  PROVE  <<a>> \o Tail(p) = p
OBVIOUS

LEMMA Prepend2 ==
  ASSUME NEW S, NEW a \in S, NEW b \in S, NEW p \in Seq(S),
         p # <<>>, Head(p) = a, Tail(p) # <<>>, Head(Tail(p)) = b
  PROVE  <<a, b>> \o Tail(Tail(p)) = p
OBVIOUS

LEMMA Prepend3 ==
  ASSUME NEW S, NEW a \in S, NEW b \in S, NEW c \in S,
         NEW q \in Seq(S), NEW p \in Seq(S), Len(p) = Len(q) + 3,
         p[1] = a, p[2] = b, p[3] = c, \A i \in 1..Len(q) : p[i + 3] = q[i]
  PROVE  <<a, b, c>> \o q = p
<1> DEFINE both == <<a, b, c>> \o q
<1>1. both \in Seq(S) /\ Len(both) = Len(p)
  OBVIOUS
<1>2. ASSUME NEW i \in 1..Len(p) PROVE both[i] = p[i]
  <2>1. CASE i <= 3
    <3>1. both[1] = a /\ both[2] = b /\ both[3] = c
      OBVIOUS
    <3>2. i = 1 \/ i = 2 \/ i = 3
      BY <2>1
    <3> QED  BY <3>1, <3>2
  <2>2. CASE i > 3
    <3>1. i - 3 \in 1..Len(q) /\ (i - 3) + 3 = i
      BY <2>2
    <3>2. both[i] = q[i - 3]
      BY <2>2, <3>1
    <3>3. p[(i - 3) + 3] = q[i - 3]
      BY <3>1
    <3> QED  BY <3>1, <3>2, <3>3
  <2> QED  BY <2>1, <2>2
<1> HIDE DEF both
<1>3. both = p
  BY <1>1, <1>2
<1> QED  BY <1>3 DEF both

LEMMA Steps == Agenda \subseteq Seq(Step)
BY DEF Step, Agenda, Draining, Unheard, WakeAhead, D1, D2, D3, PD, SD, R1, R2, R3, R4, R5,
       R6, R7, R8, R9, S2, P2, S6, P6, Next1, Sync1, None

LEMMA TakeOff ==
  ASSUME NEW step, Does(step), Then(<<>>), todo \in Agenda
  PROVE  /\ step = "hear" => \/ (todo = D2 /\ todo' = D1)
                             \/ (todo = R2 /\ todo' = R1)
                             \/ (todo = R6 /\ todo' = R5)
                             \/ (todo = R9 /\ todo' = R8)
         /\ step = "tasks" => \/ (todo = D3 /\ todo' = D2)
                              \/ (todo = R3 /\ todo' = R2)
                              \/ (todo = R7 /\ todo' = R6)
         /\ step = "land" => \/ (todo = PD /\ todo' = SD)
                             \/ (todo = P2 /\ todo' = S2)
                             \/ (todo = P6 /\ todo' = S6)
         /\ step = "show" => \/ (todo = SD /\ todo' = D1)
                             \/ (todo = S2 /\ todo' = R2)
                             \/ (todo = S6 /\ todo' = R6)
         /\ step = "clock" => todo = R5 /\ todo' = R4
         /\ step = "wake" => todo = R4 /\ todo' = R3
         /\ step = "push" => todo = R8 /\ todo' = R7
         /\ step = "resume" => todo = R1 /\ todo' = None
         /\ step = "sync" => todo = Sync1 /\ todo' = None
         /\ step = "next" => todo = Next1 /\ todo' = None
         /\ step = "drain" => todo = D1 /\ todo' = None
<1>1. todo' = <<>> \o Tail(todo)
  BY DEF Then
<1>2. \A agenda \in Agenda : <<>> \o agenda = agenda
  BY Steps
<1>3. {D1, D2, R1, R2, R3, R4, R5, R6, R7, R8, SD, S2, S6, None} \subseteq Agenda
  BY DEF Agenda, Draining, Unheard, WakeAhead
<1>4. Tail(todo) \in {D1, D2, R1, R2, R3, R4, R5, R6, R7, R8, SD, S2, S6, None} => todo' = Tail(todo)
  BY <1>1, <1>2, <1>3
<1> QED  BY <1>4, At

LEMMA Agendas ==
  /\ FrameResolved = R5
  /\ <<"hear">> \o FrameResolved = R6
  /\ Announced = R8
  /\ <<"hear">> \o Announced = R9
  /\ <<"tasks", "hear">> \o D1 = D3
  /\ <<"land", "show">> \o D1 = PD
  /\ <<"land", "show">> \o R2 = P2
  /\ <<"land", "show">> \o R6 = P6
  /\ <<"sync">> \o None = Sync1
  /\ <<"drain">> \o None = D1
  /\ <<"next">> \o None = Next1
<1>1. FrameResolved = R5
  BY DEF FrameResolved, R5
<1>2. <<"hear">> \o R5 = R6
  <2>1. R6 # <<>> /\ Head(R6) = "hear" /\ Tail(R6) = R5
    BY Table DEF Row
  <2> QED  BY <2>1, Steps, Prepend1 DEF Step, Agenda, Draining, Unheard, WakeAhead
<1>3. <<"hear">> \o R8 = R9
  <2>1. R9 # <<>> /\ Head(R9) = "hear" /\ Tail(R9) = R8
    BY Table DEF Row
  <2> QED  BY <2>1, Steps, Prepend1 DEF Step, Agenda, Draining, Unheard, WakeAhead
<1>4. <<"tasks", "hear">> \o D1 = D3
  <2>1. /\ D3 # <<>> /\ Head(D3) = "tasks" /\ Tail(D3) = D2
        /\ D2 # <<>> /\ Head(D2) = "hear" /\ Tail(D2) = D1
    BY Table DEF Row
  <2>2. "tasks" \in Step /\ "hear" \in Step /\ D3 \in Seq(Step)
    BY Steps DEF Step, Agenda, Draining
  <2>3. <<"tasks", "hear">> \o Tail(Tail(D3)) = D3
    BY <2>1, <2>2, Prepend2
  <2> QED  BY <2>1, <2>3
<1>5. <<"land", "show">> \o D1 = PD
  <2>1. /\ PD # <<>> /\ Head(PD) = "land" /\ Tail(PD) = SD
        /\ SD # <<>> /\ Head(SD) = "show" /\ Tail(SD) = D1
    BY Table DEF Row
  <2>2. "land" \in Step /\ "show" \in Step /\ PD \in Seq(Step)
    BY Steps DEF Step, Agenda, Draining, Unheard, WakeAhead
  <2>3. <<"land", "show">> \o Tail(Tail(PD)) = PD
    BY <2>1, <2>2, Prepend2
  <2> QED  BY <2>1, <2>3
<1>6. <<"land", "show">> \o R2 = P2
  <2>1. /\ P2 # <<>> /\ Head(P2) = "land" /\ Tail(P2) = S2
        /\ S2 # <<>> /\ Head(S2) = "show" /\ Tail(S2) = R2
    BY Table DEF Row
  <2>2. "land" \in Step /\ "show" \in Step /\ P2 \in Seq(Step)
    BY Steps DEF Step, Agenda, Draining, Unheard, WakeAhead
  <2>3. <<"land", "show">> \o Tail(Tail(P2)) = P2
    BY <2>1, <2>2, Prepend2
  <2> QED  BY <2>1, <2>3
<1>7. <<"land", "show">> \o R6 = P6
  <2>1. /\ P6 # <<>> /\ Head(P6) = "land" /\ Tail(P6) = S6
        /\ S6 # <<>> /\ Head(S6) = "show" /\ Tail(S6) = R6
    BY Table DEF Row
  <2>2. "land" \in Step /\ "show" \in Step /\ P6 \in Seq(Step)
    BY Steps DEF Step, Agenda, Draining, Unheard, WakeAhead
  <2>3. <<"land", "show">> \o Tail(Tail(P6)) = P6
    BY <2>1, <2>2, Prepend2
  <2> QED  BY <2>1, <2>3
<1>8. <<"push", "tasks", "hear">> \o R5 = R8
  <2>1. /\ R5 \in Seq(Step) /\ R8 \in Seq(Step) /\ Len(R8) = Len(R5) + 3
        /\ R8[1] = "push" /\ R8[2] = "tasks" /\ R8[3] = "hear"
        /\ \A i \in 1..Len(R5) : R8[i + 3] = R5[i]
    BY DEF R5, R8, Step
  <2>2. {"push", "tasks", "hear"} \subseteq Step
    BY DEF Step
  <2> QED  BY <2>1, <2>2, Prepend3
<1>9. /\ <<"sync">> \o None = Sync1
      /\ <<"drain">> \o None = D1
      /\ <<"next">> \o None = Next1
  BY DEF None, Sync1, D1, Next1
<1> QED  BY <1>1, <1>2, <1>3, <1>4, <1>5, <1>6, <1>7, <1>8, <1>9 DEF Announced

-----------------------------------------------------------------------------
(* The stack *)

(* What is left of the stack is what was on it, without what was parked.   *)
LEMMA UnparkedLeaves ==
  ASSUME NEW P, NEW Q, NEW st \in Seq(P), NEW f,
         \A i \in 1..Len(st) : st[i].on # f => st[i] \in Q
  PROVE  Unparked(st, f) \in Seq(Q)
<1> DEFINE Rest(g, n) == IF n = 0 THEN <<>>
                         ELSE IF st[n].on = f THEN g[n - 1]
                         ELSE Append(g[n - 1], st[n])
           Built == {n \in Nat : \E g : g = [i \in 0..n |-> Rest(g, i)]}
<1>1. 0 \in Built
  <2> DEFINE g == [i \in 0..0 |-> <<>>]
  <2>1. g = [i \in 0..0 |-> Rest(g, i)]
    OBVIOUS
  <2> QED  BY <2>1
<1>2. ASSUME NEW n \in Nat, n \in Built PROVE n + 1 \in Built
  <2>1. PICK g : g = [i \in 0..n |-> Rest(g, i)]
    BY <1>2
  <2> DEFINE h == [i \in 0..n + 1 |-> IF i = n + 1 THEN Rest(g, n + 1) ELSE g[i]]
  <2>2. ASSUME NEW i \in 0..n + 1 PROVE h[i] = Rest(h, i)
    <3>1. CASE i = n + 1
      <4>1. n + 1 # 0 /\ (n + 1) - 1 = n /\ n \in 0..n + 1 /\ n # n + 1
        OBVIOUS
      <4>2. h[i] = Rest(g, n + 1) /\ h[n] = g[n]
        BY <3>1, <4>1
      <4> QED  BY <3>1, <4>1, <4>2
    <3>2. CASE i # n + 1
      <4>1. i \in 0..n
        BY <3>2
      <4>2. h[i] = g[i]
        BY <3>2
      <4>3. g[i] = Rest(g, i)
        <5> HIDE DEF Rest
        <5> QED  BY <2>1, <4>1
      <4>4. i # 0 => i - 1 \in 0..n + 1 /\ i - 1 # n + 1
        OBVIOUS
      <4>5. i # 0 => h[i - 1] = g[i - 1]
        BY <4>4
      <4> QED  BY <4>2, <4>3, <4>5
    <3> QED  BY <3>1, <3>2
  <2>3. h = [i \in 0..n + 1 |-> Rest(h, i)]
    <3> HIDE DEF Rest
    <3> QED  BY <2>2
  <2> HIDE DEF h, Rest
  <2> QED  BY <2>3
<1> DEFINE left == CHOOSE g : g = [i \in 0..Len(st) |-> Rest(g, i)]
<1>3. left = [i \in 0..Len(st) |-> Rest(left, i)]
  <2>1. Nat \subseteq Built
    <3> HIDE DEF Built
    <3> QED  BY <1>1, <1>2, Inductive
  <2>2. Len(st) \in Built
    <3> HIDE DEF Built
    <3> QED  BY <2>1
  <2> QED  BY <2>2
<1>4. Unparked(st, f) = left[Len(st)]
  BY DEF Unparked
<1> HIDE DEF left
<1> DEFINE Good == {n \in Nat : n <= Len(st) => left[n] \in Seq(Q)}
<1>5. 0 \in Good
  BY <1>3
<1>6. ASSUME NEW n \in Nat, n \in Good PROVE n + 1 \in Good
  <2>1. SUFFICES ASSUME n + 1 <= Len(st) PROVE left[n + 1] \in Seq(Q)
    OBVIOUS
  <2>2. n + 1 \in 1..Len(st) /\ n + 1 \in 0..Len(st) /\ n + 1 # 0 /\ (n + 1) - 1 = n
    BY <2>1
  <2>3. left[n + 1] = IF st[n + 1].on = f THEN left[n] ELSE Append(left[n], st[n + 1])
    BY <1>3, <2>2
  <2>4. left[n] \in Seq(Q)
    BY <1>6, <2>1
  <2> QED  BY <2>2, <2>3, <2>4
<1>7. Nat \subseteq Good
  <2> HIDE DEF Good
  <2> QED  BY <1>5, <1>6, Inductive
<1>8. Len(st) \in Good
  <2> HIDE DEF Good
  <2> QED  BY <1>7
<1> QED  BY <1>4, <1>8

-----------------------------------------------------------------------------
(* Where the invariant leaves the board *)

LEMMA AllOpen ==
  ASSUME Inv, todo \notin ShowAhead
  PROVE  \A f \in DOMAIN frames : frames[f].open
BY DEF Inv, OnItsWay

LEMMA TopTyped ==
  ASSUME Inv, stack # <<>>
  PROVE  Top \in Pipeline /\ Len(stack) \in DOMAIN stack /\ Len(stack) \in Nat \ {0}
BY DEF Inv, Types, Top

(* Between two tasks nothing half done lies below a window that is gone. *)
LEMMA NoneHalfDone ==
  ASSUME Inv, todo \in {D1, None}, ~HasOpenFrames
  PROVE  stack = <<>> /\ DOMAIN frames = {}
<1>1. todo \notin ShowAhead /\ todo \notin TasksAhead /\ todo \notin WakeAhead
  BY Distinct DEF ShowAhead, TasksAhead, WakeAhead
<1>2. DOMAIN frames = {}
  BY <1>1, AllOpen DEF HasOpenFrames
<1>3. ASSUME stack # <<>> PROVE FALSE
  <2>1. Top.on # NoFrame
    BY <1>1, <1>3 DEF Inv, Parked, MayRun
  <2>2. Top.on \in DOMAIN frames \cup {resolved}
    BY <1>3, <2>1, TopTyped DEF Inv, Parked, Top
  <2> QED  BY <1>1, <1>2, <2>1, <2>2 DEF Inv, Parked
<1> QED  BY <1>2, <1>3

LEMMA HearsOutcome ==
  ASSUME NEW fr, NEW st, NEW meet, NEW clk, Hears(fr, st, meet, clk)
  PROVE  /\ qualifies' = meet
         /\ \/ /\ Playing /\ ~HasPendingOutcome(fr) /\ meet # {}
               /\ phase' = "Concluded" /\ winner' \in meet
               /\ clock' = Stopped /\ DOMAIN frames' = {} /\ frames' \in [{} -> Frame]
               /\ stack' = <<>>
            \/ /\ phase' = phase /\ winner' = winner
               /\ clock' = clk /\ frames' = fr /\ stack' = st
               /\ Playing /\ meet # {} => HasPendingOutcome(fr)
BY DEF Hears

(* The game ends: nothing of it is left, whatever the cascade still holds. *)
LEMMA Ended ==
  ASSUME Inv, phase' = "Concluded", winner' \in 0..Seats, clock' = Stopped,
         DOMAIN frames' = {}, frames' \in [{} -> Frame], stack' = <<>>, qualifies' \subseteq Seat,
         turn' \in [phase : {"Start", "Action", "End"}, seat : 0..Seats, points : Nat],
         turn'.seat # NoSeat, queue' \in Seq(Kind), resolved' \in Nat, runs' \in Int,
         todo' \in Agenda \ (Draining \cup ShowAhead),
         resolved' # NoFrame => todo' \in WakeAhead
  PROVE  Inv'
<1> USE DEF Stopped
<1>1. Types'
  BY DEF Types
<1>2. InSetup' /\ InTheEnd' /\ Seated'
  BY DEF InSetup, InTheEnd, Seated, Playing
<1>3. OnItsWay'
  BY DEF OnItsWay
<1>4. ClockHeld' /\ Parked'
  BY DEF ClockHeld, Parked, MayRun
<1>5. AsksFirst'
  BY DEF AsksFirst
<1>6. TurnEnds' /\ InAction' /\ ClockGoesOn' /\ Idle' /\ Heard'
  BY DEF TurnEnds, InAction, ClockGoesOn, Idle, Heard, Playing
<1> QED  BY <1>1, <1>2, <1>3, <1>4, <1>5, <1>6 DEF Inv

-----------------------------------------------------------------------------
(* The invariant, step by step *)

LEMMA InitInv == ASSUME Init PROVE Inv
<1> USE ConstantsAssumption DEF Init
<1>1. Types
  BY DEF Types, Stopped, Agenda, None, Frame, NoSeat, NoFrame
<1>2. todo = None /\ DOMAIN frames = {} /\ stack = <<>>
  BY DEF None
<1>3. InSetup /\ InTheEnd /\ Seated
  BY <1>2 DEF InSetup, InTheEnd, Seated, Playing, Stopped
<1>4. OnItsWay
  BY <1>2, Distinct DEF OnItsWay, ShowAhead
<1>5. ClockHeld /\ Parked
  BY <1>2 DEF ClockHeld, Parked, MayRun, Stopped
<1>6. AsksFirst /\ TurnEnds /\ InAction /\ ClockGoesOn /\ Idle /\ Heard
  BY <1>2, Distinct DEF AsksFirst, TurnEnds, InAction, ClockGoesOn, Idle, Heard, Playing
<1> QED  BY <1>1, <1>3, <1>4, <1>5, <1>6 DEF Inv

LEMMA DrainStopsInv == ASSUME Inv, DrainStops PROVE Inv'
<1>1. todo = D1 /\ todo' = None /\ UNCHANGED <<board, turn, queue, clock, resolved, runs>>
  BY TakeOff DEF DrainStops, Inv, Types
<1> USE <1>1, Distinct DEF Inv, board
<1>2. Types'
  BY DEF Types, Agenda
<1>3. (InSetup /\ InTheEnd /\ Seated)'
  BY DEF InSetup, InTheEnd, Seated, Playing, Draining
<1>4. OnItsWay'
  BY DEF OnItsWay, ShowAhead
<1>5. (ClockHeld /\ Parked)'
  BY DEF ClockHeld, Parked, MayRun, Top, WakeAhead, TasksAhead, HasOpenFrames
<1>6. (AsksFirst /\ TurnEnds /\ InAction /\ Heard)'
  BY DEF AsksFirst, TurnEnds, InAction, Heard, Playing, HasPendingOutcome, Unheard, WakeAhead
<1>7. (ClockGoesOn /\ Idle)'
  BY NoneHalfDone DEF ClockGoesOn, Idle, Playing, HasOpenFrames, DrainStops, IsBusy, ClockAhead
<1> QED  BY <1>2, <1>3, <1>4, <1>5, <1>6, <1>7

LEMMA StartInv == ASSUME Inv, Start PROVE Inv'
<1> USE Distinct DEF Inv, Start
<1>1. todo' = Next1
  BY DEF Next1
<1>2. todo = None /\ queue = <<>> /\ stack = <<>> /\ DOMAIN frames = {} /\ turn.seat = NoSeat
      /\ ~clock.running /\ qualifies = {}
  BY DEF InSetup
<1> USE <1>1, <1>2
<1>3. Types'
  BY DEF Types, Agenda
<1>4. (InSetup /\ InTheEnd /\ Seated)'
  BY DEF InSetup, InTheEnd, Seated, Playing
<1>5. OnItsWay'
  BY DEF OnItsWay, ShowAhead
<1>6. (ClockHeld /\ Parked)'
  BY DEF ClockHeld, Parked, MayRun, WakeAhead
<1>7. (AsksFirst /\ TurnEnds /\ InAction /\ ClockGoesOn /\ Idle /\ Heard)'
  BY DEF AsksFirst, TurnEnds, InAction, ClockGoesOn, Idle, Heard, Playing
<1> QED  BY <1>3, <1>4, <1>5, <1>6, <1>7

LEMMA NextSeatIsASeat == \A s \in 0..Seats : NextSeat(s) \in Seat
BY ConstantsAssumption DEF NextSeat, Seat

LEMMA StartTurnInv == ASSUME Inv, StartTurn PROVE Inv'
<1> USE Distinct DEF Inv
<1>1. todo = Next1 /\ Tail(todo) = None
  BY At DEF StartTurn, Types
<1>2. phase # "Setup"
  BY <1>1 DEF InSetup
<1>3. CASE phase = "Concluded"
  <2>1. todo' = None
    BY <1>1, <1>3 DEF StartTurn, Then, None
  <2> QED  BY <1>1, <1>3, <2>1, Ended DEF StartTurn, board, Types, InTheEnd, Seated, Playing, Parked, Agenda, Draining, ShowAhead, WakeAhead
<1>4. CASE Playing
  <2>1. /\ todo' = Sync1
        /\ turn' = [phase |-> "Action", seat |-> NextSeat(turn.seat), points |-> Budget]
        /\ runs' = MaxRuns
        /\ Hears(frames, stack, qualifies, [timed |-> Timed, running |-> FALSE])
        /\ UNCHANGED <<queue, resolved>>
    BY <1>1, <1>4, Agendas DEF StartTurn, Then, Playing
  <2>2. queue = <<>> /\ DOMAIN frames = {} /\ stack = <<>>
    BY <1>1, <1>4 DEF TurnEnds
  <2>3. qualifies = {}
    BY <1>1, <1>4, <2>2 DEF Heard, HasPendingOutcome, Unheard, WakeAhead
  <2>4. /\ phase' = phase /\ winner' = winner /\ frames' = frames /\ stack' = stack
        /\ clock' = [timed |-> Timed, running |-> FALSE] /\ qualifies' = qualifies
    BY <2>1, <2>3, HearsOutcome
  <2>5. NextSeat(turn.seat) \in Seat
    BY NextSeatIsASeat DEF Types
  <2> USE <1>1, <1>4, <2>1, <2>2, <2>3, <2>4, <2>5, ConstantsAssumption
  <2>6. Types'
    BY DEF Types, Agenda, Seat
  <2>7. (InSetup /\ InTheEnd /\ Seated)'
    BY DEF InSetup, InTheEnd, Seated, Playing, Seat, NoSeat
  <2>8. OnItsWay'
    BY DEF OnItsWay, ShowAhead
  <2>9. (ClockHeld /\ Parked)'
    BY DEF ClockHeld, Parked, MayRun, WakeAhead
  <2>10. (AsksFirst /\ TurnEnds /\ InAction /\ ClockGoesOn /\ Idle /\ Heard)'
    BY DEF AsksFirst, TurnEnds, InAction, ClockGoesOn, Idle, Heard, Playing
  <2> QED  BY <2>6, <2>7, <2>8, <2>9, <2>10
<1> QED  BY <1>2, <1>3, <1>4 DEF Types, Playing

LEMMA SyncClockInv == ASSUME Inv, SyncClock PROVE Inv'
<1> USE Distinct DEF Inv, board
<1>1. \/ (todo = Sync1 /\ todo' = None)
      \/ (todo = R5 /\ todo' = R4)
  BY TakeOff DEF SyncClock, Types
<1>2. /\ clock' \in [timed : BOOLEAN, running : BOOLEAN] /\ clock'.timed = clock.timed
      /\ clock'.running = (~HasOpenFrames /\ (clock.running \/ (clock.timed /\ turn.phase = "Action")))
  BY DEF SyncClock, Types, Synced
<1>3. UNCHANGED <<board, turn, queue, resolved, runs>>
  BY DEF SyncClock
<1> USE <1>1, <1>2, <1>3
<1>4. Types'
  BY DEF Types, Agenda, Unheard, WakeAhead
<1>5. (InSetup /\ Seated)'
  BY DEF InSetup, Seated, Playing
<1>6. InTheEnd'
  BY DEF InTheEnd, Draining, ShowAhead, Stopped, Types
<1>7. OnItsWay'
  BY DEF OnItsWay, ShowAhead
<1>8. (ClockHeld /\ Parked)'
  BY DEF ClockHeld, Parked, MayRun, Top, WakeAhead, TasksAhead, HasOpenFrames
<1>9. (AsksFirst /\ TurnEnds /\ InAction /\ Heard)'
  BY DEF AsksFirst, TurnEnds, InAction, Heard, Playing, HasPendingOutcome, Unheard, WakeAhead
<1>10. (ClockGoesOn /\ Idle)'
  BY DEF ClockGoesOn, Idle, Playing, HasOpenFrames, ClockAhead, InAction
<1> QED  BY <1>4, <1>5, <1>6, <1>7, <1>8, <1>9, <1>10

LEMMA ResumeInv == ASSUME Inv, Resume PROVE Inv'
<1> USE Distinct DEF Inv, board
<1>1. todo = R1 /\ todo' = IF phase = "Concluded" THEN None ELSE D1
  <2>1. todo = R1 /\ Tail(todo) = None
    BY At DEF Resume, Types
  <2>3. <<>> \o None = None
    BY DEF None
  <2> QED  BY <2>1, <2>3, Agendas DEF Resume, Then
<1>2. UNCHANGED <<board, turn, queue, clock, resolved, runs>>
  BY DEF Resume
<1> USE <1>1, <1>2
<1>3. Types'
  BY DEF Types, Agenda, Draining
<1>4. (InSetup /\ Seated)'
  BY DEF InSetup, Seated, Playing
<1>5. InTheEnd'
  BY DEF InTheEnd, Draining, ShowAhead
<1>6. OnItsWay'
  BY DEF OnItsWay, ShowAhead
<1>7. (ClockHeld /\ Parked)'
  BY DEF ClockHeld, Parked, MayRun, Top, WakeAhead, TasksAhead, HasOpenFrames
<1>8. (AsksFirst /\ TurnEnds /\ InAction /\ Heard)'
  BY DEF AsksFirst, TurnEnds, InAction, Heard, Playing, HasPendingOutcome, Unheard, WakeAhead
<1>9. (ClockGoesOn /\ Idle)'
  BY DEF ClockGoesOn, Idle, Playing, HasOpenFrames, ClockAhead
<1> QED  BY <1>3, <1>4, <1>5, <1>6, <1>7, <1>8, <1>9

LEMMA HearInv == ASSUME Inv, Hear PROVE Inv'
<1> USE Distinct DEF Inv
<1>1. \/ (todo = D2 /\ todo' = D1)
      \/ (todo = R2 /\ todo' = R1)
      \/ (todo = R6 /\ todo' = R5)
      \/ (todo = R9 /\ todo' = R8)
  BY TakeOff DEF Hear, Types
<1>2. Hears(frames, stack, qualifies, clock) /\ UNCHANGED <<turn, queue, resolved, runs>>
  BY DEF Hear
<1>3. phase # "Setup"
  BY <1>1 DEF InSetup
<1>4. CASE /\ Playing /\ ~HasPendingOutcome(frames) /\ qualifies # {}
           /\ phase' = "Concluded" /\ winner' \in qualifies
           /\ clock' = Stopped /\ DOMAIN frames' = {} /\ frames' \in [{} -> Frame]
           /\ stack' = <<>>
  <2>1. todo # D2
    BY <1>4 DEF Heard, Unheard, WakeAhead
  <2>2. todo' \in Agenda \ (Draining \cup ShowAhead)
    BY <1>1, <2>1 DEF Agenda, Draining, ShowAhead, Unheard, WakeAhead
  <2>3. resolved # NoFrame => todo' \in WakeAhead
    BY <1>1 DEF Parked, WakeAhead
  <2> QED  BY <1>1, <1>2, <1>3, <1>4, <2>2, <2>3, HearsOutcome, Ended DEF Types, Seated, Seat
<1>5. CASE /\ phase' = phase /\ winner' = winner
           /\ clock' = clock /\ frames' = frames /\ stack' = stack
           /\ Playing /\ qualifies # {} => HasPendingOutcome(frames)
  <2> USE <1>1, <1>2, <1>3, <1>5, HearsOutcome
  <2>1. Types'
    BY DEF Types, Agenda, Draining, Unheard, WakeAhead
  <2>2. (InSetup /\ InTheEnd /\ Seated)'
    BY DEF InSetup, InTheEnd, Seated, Playing, Draining, ShowAhead
  <2>3. OnItsWay'
    BY DEF OnItsWay, ShowAhead
  <2>4. (ClockHeld /\ Parked)'
    BY DEF ClockHeld, Parked, MayRun, Top, WakeAhead, TasksAhead, HasOpenFrames
  <2>5. (AsksFirst /\ TurnEnds /\ InAction /\ Heard)'
    BY DEF AsksFirst, TurnEnds, InAction, Heard, Playing, HasPendingOutcome
  <2>6. (ClockGoesOn /\ Idle)'
    BY DEF ClockGoesOn, Idle, Playing, HasOpenFrames, ClockAhead
  <2> QED  BY <2>1, <2>2, <2>3, <2>4, <2>5, <2>6
<1> QED  BY <1>2, <1>4, <1>5, HearsOutcome

(* A pipeline that is set off goes on top of the others, and may run. *)
LEMMA PushedOnTop ==
  ASSUME NEW st \in Seq(Pipeline), NEW asks \in BOOLEAN, NEW st2 \in Pushed(st, asks)
  PROVE  /\ st2 \in Seq(Pipeline)
         /\ \A i \in DOMAIN st2 :
               st2[i].on # NoFrame => i \in DOMAIN st /\ st2[i].on = st[i].on
         /\ \/ st2 = st
            \/ /\ phase # "Concluded" /\ st2 # <<>>
               /\ st2[Len(st2)].on = NoFrame /\ st2[Len(st2)].steps > 0
               /\ st2[Len(st2)].asks = asks
<1>1. CASE st2 = st
  BY <1>1
<1>2. ASSUME phase # "Concluded", NEW n \in 1..MaxSteps,
             st2 = Append(st, [steps |-> n, on |-> NoFrame, asks |-> asks])
      PROVE  /\ st2 \in Seq(Pipeline) /\ st2 # <<>>
             /\ \A i \in DOMAIN st2 :
                   st2[i].on # NoFrame => i \in DOMAIN st /\ st2[i].on = st[i].on
             /\ st2[Len(st2)].on = NoFrame /\ st2[Len(st2)].steps > 0
             /\ st2[Len(st2)].asks = asks
  <2> DEFINE new == [steps |-> n, on |-> NoFrame, asks |-> asks]
  <2>1. new \in Pipeline /\ new.on = NoFrame /\ new.steps > 0 /\ new.asks = asks
    BY ConstantsAssumption DEF Pipeline, NoFrame
  <2>2. st2 = Append(st, new)
    BY <1>2
  <2> HIDE DEF new
  <2>3. /\ st2 \in Seq(Pipeline) /\ st2 # <<>> /\ Len(st2) = Len(st) + 1
        /\ st2[Len(st2)] = new /\ \A i \in DOMAIN st2 : i = Len(st2) \/ (i \in DOMAIN st /\ st2[i] = st[i])
    BY <2>1, <2>2
  <2> QED  BY <2>1, <2>3
<1>3. st2 = st \/ (phase # "Concluded" /\ \E n \in 1..MaxSteps :
                     st2 = Append(st, [steps |-> n, on |-> NoFrame, asks |-> asks]))
  BY DEF Pushed
<1> QED  BY <1>1, <1>2, <1>3

LEMMA PushInv == ASSUME Inv, Push PROVE Inv'
<1>0. stack \in Seq(Pipeline)
  BY DEF Inv, Types
<1>2. /\ stack' \in Pushed(stack, FALSE) /\ runs' = runs - (Len(stack') - Len(stack))
      /\ UNCHANGED <<phase, winner, frames, qualifies, turn, queue, clock, resolved>>
  BY DEF Push
<1>3. /\ stack' \in Seq(Pipeline)
      /\ \A i \in DOMAIN stack' :
            stack'[i].on # NoFrame => i \in DOMAIN stack /\ stack'[i].on = stack[i].on
      /\ stack' = stack \/ phase # "Concluded"
  <2> DEFINE st2 == stack'
  <2>1. st2 \in Pushed(stack, FALSE)
    BY <1>2
  <2> HIDE DEF st2
  <2>2. /\ st2 \in Seq(Pipeline)
        /\ \A i \in DOMAIN st2 :
              st2[i].on # NoFrame => i \in DOMAIN stack /\ st2[i].on = stack[i].on
        /\ st2 = stack \/ phase # "Concluded"
    BY <1>0, <2>1, PushedOnTop
  <2> QED  BY <2>2 DEF st2
<1> USE Distinct DEF Inv
<1>1. todo = R8 /\ todo' = R7
  BY TakeOff DEF Push, Types
<1>4. runs' \in Int
  BY <1>2, <1>3 DEF Types
<1> USE <1>1, <1>2, <1>3, <1>4
<1>5. Types'
  BY DEF Types, Agenda, Unheard, WakeAhead
<1>6. (InSetup /\ InTheEnd /\ Seated)'
  BY DEF InSetup, InTheEnd, Seated, Playing, Draining, ShowAhead
<1>7. OnItsWay'
  BY DEF OnItsWay, ShowAhead
<1>8. (ClockHeld /\ Parked)'
  BY DEF ClockHeld, Parked, WakeAhead, TasksAhead, HasOpenFrames
<1>9. (AsksFirst /\ TurnEnds /\ InAction /\ Heard)'
  BY DEF AsksFirst, TurnEnds, InAction, Heard, Playing, Unheard, WakeAhead
<1>10. (ClockGoesOn /\ Idle)'
  BY DEF ClockGoesOn, Idle, Playing, HasOpenFrames, ClockAhead
<1> QED  BY <1>5, <1>6, <1>7, <1>8, <1>9, <1>10

LEMMA WakeInv == ASSUME Inv, Wake PROVE Inv'
<1>0. stack \in Seq(Pipeline)
  BY DEF Inv, Types
<1> DEFINE woken == [i \in DOMAIN stack |->
                        [stack[i] EXCEPT !.on = IF @ = resolved THEN NoFrame ELSE @]]
<1>2. /\ stack' \in Pushed(woken, FALSE) /\ runs' = runs - (Len(stack') - Len(stack))
      /\ resolved' = NoFrame
      /\ UNCHANGED <<phase, winner, frames, qualifies, turn, queue, clock>>
  BY DEF Wake
<1>3. /\ woken \in Seq(Pipeline) /\ Len(woken) = Len(stack) /\ DOMAIN woken = DOMAIN stack
      /\ \A i \in DOMAIN woken : woken[i].on # NoFrame =>
            stack[i].on = woken[i].on /\ stack[i].on # resolved
  <2>1. ASSUME NEW i \in DOMAIN stack
        PROVE  /\ woken[i] \in Pipeline
               /\ woken[i].on # NoFrame =>
                     stack[i].on = woken[i].on /\ stack[i].on # resolved
    <3>1. stack[i] \in Pipeline
      BY <1>0
    <3>2. woken[i] = [stack[i] EXCEPT !.on = IF @ = resolved THEN NoFrame ELSE @]
      OBVIOUS
    <3> QED  BY <3>1, <3>2 DEF Pipeline, NoFrame
  <2>2. DOMAIN woken = 1..Len(stack) /\ Len(stack) \in Nat /\ DOMAIN stack = 1..Len(stack)
    BY <1>0
  <2>3. woken = [i \in 1..Len(stack) |-> woken[i]]
    BY <2>2
  <2> HIDE DEF woken
  <2> QED  BY <2>1, <2>2, <2>3
<1> HIDE DEF woken
<1>4. /\ stack' \in Seq(Pipeline)
      /\ \A i \in DOMAIN stack' :
            stack'[i].on # NoFrame => i \in DOMAIN woken /\ stack'[i].on = woken[i].on
      /\ stack' = woken \/ phase # "Concluded"
  <2> DEFINE st2 == stack'
  <2>1. st2 \in Pushed(woken, FALSE) /\ woken \in Seq(Pipeline)
    BY <1>2, <1>3
  <2> HIDE DEF st2
  <2>2. /\ st2 \in Seq(Pipeline)
        /\ \A i \in DOMAIN st2 :
              st2[i].on # NoFrame => i \in DOMAIN woken /\ st2[i].on = woken[i].on
        /\ st2 = woken \/ phase # "Concluded"
    BY <2>1, PushedOnTop
  <2> QED  BY <2>2 DEF st2
<1> USE Distinct DEF Inv
<1>1. todo = R4 /\ todo' = R3
  BY TakeOff DEF Wake, Types
<1>5. runs' \in Int /\ (phase = "Concluded" => stack' = <<>>)
  BY <1>2, <1>3, <1>4 DEF Types, InTheEnd
<1>6. \A i \in DOMAIN stack' : stack'[i].on # NoFrame => stack'[i].on \in DOMAIN frames
  BY <1>3, <1>4 DEF Parked
<1> USE <1>1, <1>2, <1>4, <1>5
<1>7. Types'
  BY DEF Types, Agenda, Unheard, WakeAhead, NoFrame
<1>8. (InSetup /\ InTheEnd /\ Seated)'
  BY DEF InSetup, InTheEnd, Seated, Playing, Draining, ShowAhead
<1>9. OnItsWay'
  BY DEF OnItsWay, ShowAhead
<1>10. (ClockHeld /\ Parked)'
  BY <1>6 DEF ClockHeld, Parked, WakeAhead, TasksAhead, HasOpenFrames
<1>11. (AsksFirst /\ TurnEnds /\ InAction /\ Heard)'
  BY DEF AsksFirst, TurnEnds, InAction, Heard, Playing, Unheard, WakeAhead
<1>12. (ClockGoesOn /\ Idle)'
  BY DEF ClockGoesOn, Idle, Playing, HasOpenFrames, ClockAhead
<1> QED  BY <1>7, <1>8, <1>9, <1>10, <1>11, <1>12

LEMMA StopRunningInv == ASSUME Inv, StopRunning PROVE Inv'
<1> USE Distinct DEF Inv, board
<1>1. \/ (todo = D3 /\ todo' = D2)
      \/ (todo = R3 /\ todo' = R2)
      \/ (todo = R7 /\ todo' = R6)
  BY TakeOff DEF StopRunning, Types
<1>2. ~MayRun /\ UNCHANGED <<board, turn, queue, clock, resolved, runs>>
  BY DEF StopRunning
<1> USE <1>1, <1>2
<1>3. Types'
  BY DEF Types, Agenda, Draining, Unheard, WakeAhead
<1>4. (InSetup /\ InTheEnd /\ Seated)'
  BY DEF InSetup, InTheEnd, Seated, Playing, Draining, ShowAhead
<1>5. OnItsWay'
  BY DEF OnItsWay, ShowAhead
<1>6. (ClockHeld /\ Parked)'
  BY DEF ClockHeld, Parked, MayRun, Top, WakeAhead, TasksAhead, HasOpenFrames
<1>7. (AsksFirst /\ TurnEnds /\ InAction /\ Heard)'
  BY DEF AsksFirst, TurnEnds, InAction, Heard, Playing, HasPendingOutcome, Unheard, WakeAhead
<1>8. (ClockGoesOn /\ Idle)'
  BY DEF ClockGoesOn, Idle, Playing, HasOpenFrames, ClockAhead
<1> QED  BY <1>3, <1>4, <1>5, <1>6, <1>7, <1>8

LEMMA NotBegun ==
  ASSUME Inv, Does("tasks"), MayRun, Top.steps = 0 \/ ~Top.asks
  PROVE  (todo = R3 \/ todo = R7) /\ phase # "Setup"
<1>1. todo = D3 \/ todo = R3 \/ todo = R7
  BY At DEF Inv, Types
<1>2. todo # D3
  BY TopTyped DEF Inv, AsksFirst, MayRun, Pipeline
<1> QED  BY <1>1, <1>2, Distinct DEF Inv, InSetup

(* What the runner does between two windows: the stack changes, and the     *)
(* engine hears of the party as it now is.                                  *)
LEMMA RunnerHears ==
  ASSUME Inv, todo = R3 \/ todo = R7, todo' = todo, phase # "Setup",
         NEW st \in Seq(Pipeline), NEW meet \in SUBSET Seat,
         Hears(frames, st, meet, clock) \/
            (stack' = st /\ meet = qualifies /\ UNCHANGED <<phase, winner, frames, qualifies, clock>>),
         \A i \in DOMAIN st : st[i].on # NoFrame => st[i].on \in DOMAIN frames \cup {resolved},
         phase = "Concluded" => st = <<>>,
         UNCHANGED <<turn, queue, resolved>>, runs' \in Int
  PROVE  Inv'
<1> USE Distinct DEF Inv
<1>1. CASE /\ Playing /\ ~HasPendingOutcome(frames) /\ meet # {}
           /\ phase' = "Concluded" /\ winner' \in meet
           /\ clock' = Stopped /\ DOMAIN frames' = {} /\ frames' \in [{} -> Frame]
           /\ stack' = <<>> /\ qualifies' = meet
  <2>1. todo' \in Agenda \ (Draining \cup ShowAhead)
    BY DEF Agenda, Draining, ShowAhead, Unheard, WakeAhead
  <2>2. resolved # NoFrame => todo' \in WakeAhead
    BY DEF Parked
  <2> QED  BY <1>1, <2>1, <2>2, Ended DEF Types, Seated, Seat
<1>2. CASE /\ phase' = phase /\ winner' = winner
           /\ clock' = clock /\ frames' = frames /\ stack' = st /\ qualifies' = meet
  <2> USE <1>2
  <2>1. Types'
    BY DEF Types
  <2>2. (InSetup /\ InTheEnd /\ Seated)'
    BY DEF InSetup, InTheEnd, Seated, Playing
  <2>3. OnItsWay'
    BY DEF OnItsWay, Playing
  <2>4. (ClockHeld /\ Parked)'
    BY DEF ClockHeld, Parked, TasksAhead, HasOpenFrames
  <2>5. (AsksFirst /\ TurnEnds /\ InAction /\ Heard)'
    BY DEF AsksFirst, TurnEnds, InAction, Heard, Playing, Unheard, WakeAhead
  <2>6. (ClockGoesOn /\ Idle)'
    BY DEF ClockGoesOn, Idle, Playing, HasOpenFrames
  <2> QED  BY <2>1, <2>2, <2>3, <2>4, <2>5, <2>6
<1> QED  BY <1>1, <1>2, HearsOutcome

LEMMA PopSpentInv == ASSUME Inv, PopSpent PROVE Inv'
<1> DEFINE rest == SubSeq(stack, 1, Len(stack) - 1)
<1>1. (todo = R3 \/ todo = R7) /\ phase # "Setup"
  BY NotBegun DEF PopSpent
<1>2. /\ rest \in Seq(Pipeline)
      /\ \A i \in DOMAIN rest : i \in DOMAIN stack /\ rest[i] = stack[i]
  BY TopTyped DEF PopSpent, MayRun, Inv, Types
<1>3. /\ Hears(frames, rest, qualifies, clock) \/
            (stack' = rest /\ UNCHANGED <<phase, winner, frames, qualifies, clock>>)
      /\ UNCHANGED <<turn, queue, resolved, runs, todo>> /\ stack # <<>>
  BY DEF PopSpent, MayRun
<1>4. phase # "Concluded"
  BY <1>3 DEF Inv, InTheEnd
<1> HIDE DEF rest
<1>5. \A i \in DOMAIN rest : rest[i].on # NoFrame => rest[i].on \in DOMAIN frames \cup {resolved}
  BY <1>2 DEF Inv, Parked
<1> QED  BY <1>1, <1>2, <1>3, <1>4, <1>5, RunnerHears DEF Inv, Types

LEMMA OnTopTyped ==
  ASSUME Inv, stack # <<>>, NEW new \in Pipeline
  PROVE  /\ OnTop(new) \in Seq(Pipeline) /\ Len(OnTop(new)) = Len(stack)
         /\ OnTop(new) # <<>> /\ OnTop(new)[Len(stack)] = new
         /\ \A i \in DOMAIN OnTop(new) :
               i \in DOMAIN stack /\ (OnTop(new)[i] = new \/ OnTop(new)[i] = stack[i])
BY TopTyped DEF Inv, Types, OnTop

LEMMA DoStepInv == ASSUME Inv, DoStep PROVE Inv'
<1> DEFINE new == [Top EXCEPT !.steps = @ - 1]
           st == OnTop(new)
<1>1. /\ (todo = R3 \/ todo = R7) /\ phase # "Setup" /\ stack # <<>>
      /\ Top.on = NoFrame /\ Top.steps > 0
  BY NotBegun DEF DoStep, MayRun
<1>2. new \in Pipeline /\ new.on = NoFrame
  BY <1>1, TopTyped DEF Pipeline
<1>3. PICK meet \in Changes, st2 \in Pushed(st, FALSE) :
         /\ Hears(frames, st2, meet, clock)
         /\ runs' = runs - (Len(st2) - Len(st))
  BY DEF DoStep
<1>4. UNCHANGED <<turn, queue, resolved, todo>>
  BY DEF DoStep
<1> HIDE DEF new
<1>5. /\ st \in Seq(Pipeline)
      /\ \A i \in DOMAIN st : i \in DOMAIN stack /\ (st[i] = new \/ st[i] = stack[i])
  BY <1>1, <1>2, OnTopTyped
<1> HIDE DEF st
<1>6. /\ st2 \in Seq(Pipeline)
      /\ \A i \in DOMAIN st2 : st2[i].on # NoFrame => i \in DOMAIN st /\ st2[i].on = st[i].on
  BY <1>5, PushedOnTop
<1>7. \A i \in DOMAIN st2 : st2[i].on # NoFrame => st2[i].on \in DOMAIN frames \cup {resolved}
  BY <1>2, <1>5, <1>6 DEF Inv, Parked
<1>8. meet \in SUBSET Seat /\ runs' \in Int /\ phase # "Concluded"
  BY <1>1, <1>3, <1>5, <1>6 DEF Changes, Inv, Types, InTheEnd
<1> QED  BY <1>1, <1>3, <1>4, <1>6, <1>7, <1>8, RunnerHears

LEMMA FreshIsNew ==
  ASSUME Inv, NEW f \in Fresh
  PROVE  f \in Nat \ {0} /\ f \notin DOMAIN frames /\ f # resolved
BY DEF Fresh, IsNewest, Inv, Types

LEMMA OpenedAlso ==
  ASSUME Inv, NEW f \in Nat \ {0}, f \notin DOMAIN frames,
         NEW restoring \in BOOLEAN, NEW open \in BOOLEAN
  PROVE  LET fr == Opened(f, restoring, open) IN
         /\ DOMAIN fr = DOMAIN frames \cup {f}
         /\ fr \in [DOMAIN fr -> Frame]
         /\ fr[f].restoring = restoring /\ fr[f].open = open
         /\ \A g \in DOMAIN frames : fr[g] = frames[g]
<1> DEFINE fr == Opened(f, restoring, open)
           record == [restoring |-> restoring, open |-> open, before |-> qualifies]
<1>1. frames \in [DOMAIN frames -> Frame] /\ record \in Frame
  BY DEF Inv, Types, Frame
<1>2. record.restoring = restoring /\ record.open = open
  OBVIOUS
<1>3. fr = [g \in DOMAIN frames \cup {f} |-> IF g = f THEN record ELSE frames[g]]
  BY DEF Opened
<1> HIDE DEF fr, record
<1>4. DOMAIN fr = DOMAIN frames \cup {f}
  BY <1>3
<1>5. fr[f] = record /\ \A g \in DOMAIN frames : fr[g] = frames[g]
  BY <1>3
<1>6. fr \in [DOMAIN fr -> Frame]
  BY <1>1, <1>3, <1>4
<1> QED  BY <1>2, <1>4, <1>5, <1>6 DEF fr

LEMMA AskStepInv == ASSUME Inv, AskStep PROVE Inv'
<1> USE Distinct DEF Inv
<1>1. \/ (todo = D3 /\ todo' = D2)
      \/ (todo = R3 /\ todo' = R2)
      \/ (todo = R7 /\ todo' = R6)
  BY TakeOff DEF AskStep, Types
<1>2. PICK f \in Fresh :
         /\ frames' = Opened(f, FALSE, TRUE)
         /\ stack' = OnTop([steps |-> Top.steps - 1, on |-> f, asks |-> FALSE])
  BY DEF AskStep
<1>3. /\ stack # <<>> /\ Top.on = NoFrame /\ Top.steps > 0
      /\ clock' = Paused(clock)
      /\ UNCHANGED <<phase, winner, qualifies, turn, queue, resolved, runs>>
  BY DEF AskStep, MayRun
<1> DEFINE new == [steps |-> Top.steps - 1, on |-> f, asks |-> FALSE]
<1>4. new \in Pipeline /\ new.on = f
  BY <1>3, TopTyped, FreshIsNew DEF Pipeline
<1>5. stack' = OnTop(new)
  BY <1>2
<1> HIDE DEF new
<1>6. /\ stack' \in Seq(Pipeline) /\ stack' # <<>> /\ stack'[Len(stack')] = new
      /\ \A i \in DOMAIN stack' : i \in DOMAIN stack /\ (stack'[i] = new \/ stack'[i] = stack[i])
  BY <1>3, <1>4, <1>5, OnTopTyped
<1>7. /\ DOMAIN frames' = DOMAIN frames \cup {f} /\ f \in Nat \ {0}
      /\ frames' \in [DOMAIN frames' -> Frame]
      /\ ~frames'[f].restoring /\ frames'[f].open
      /\ \A g \in DOMAIN frames : frames'[g] = frames[g]
  <2>1. f \in Nat \ {0} /\ f \notin DOMAIN frames
    BY FreshIsNew
  <2> DEFINE fr == Opened(f, FALSE, TRUE)
  <2>2. /\ DOMAIN fr = DOMAIN frames \cup {f} /\ fr \in [DOMAIN fr -> Frame]
        /\ fr[f].restoring = FALSE /\ fr[f].open = TRUE
        /\ \A g \in DOMAIN frames : fr[g] = frames[g]
    <3> FALSE \in BOOLEAN /\ TRUE \in BOOLEAN
      OBVIOUS
    <3> QED
      BY <2>1, OpenedAlso
  <2>3. frames' = fr
    BY <1>2
  <2> HIDE DEF fr
  <2> QED
    BY <2>1, <2>2, <2>3
<1>8. phase # "Concluded" /\ phase # "Setup"
  BY <1>1, <1>3 DEF InTheEnd, InSetup
<1>9. clock' \in [timed : BOOLEAN, running : BOOLEAN] /\ ~clock'.running /\ clock'.timed = clock.timed
  BY <1>3 DEF Paused, Types
<1> USE <1>1, <1>3, <1>6, <1>7, <1>8, <1>9
<1>10. Types'
  BY DEF Types, Agenda, Draining, Unheard, WakeAhead
<1>11. (InSetup /\ InTheEnd /\ Seated)'
  BY DEF InSetup, InTheEnd, Seated, Playing
<1>12. OnItsWay'
  BY DEF OnItsWay, ShowAhead
<1>13. ClockHeld'
  BY DEF ClockHeld
<1>14. Parked'
  BY <1>4 DEF Parked, WakeAhead, TasksAhead, MayRun, Top, NoFrame
<1>15. (AsksFirst /\ TurnEnds /\ InAction)'
  BY DEF AsksFirst, TurnEnds, InAction, Playing
<1>16. Heard'
  BY DEF Heard, Playing, Unheard, WakeAhead, HasPendingOutcome
<1>17. (ClockGoesOn /\ Idle)'
  BY DEF ClockGoesOn, Idle, HasOpenFrames
<1> QED  BY <1>10, <1>11, <1>12, <1>13, <1>14, <1>15, <1>16, <1>17

LEMMA PlayStepInv == ASSUME Inv, PlayStep PROVE Inv'
<1> USE Distinct DEF Inv
<1>1. /\ (todo = R3 /\ Tail(todo) = R2) \/ (todo = R7 /\ Tail(todo) = R6)
      /\ phase # "Setup"
  BY NotBegun, At DEF PlayStep, Types
<1>2. (todo = R3 /\ todo' = P2) \/ (todo = R7 /\ todo' = P6)
  BY <1>1, Agendas DEF PlayStep, Then
<1>3. PICK f \in Fresh :
         /\ frames' = Opened(f, TRUE, FALSE)
         /\ stack' = OnTop([steps |-> Top.steps - 1, on |-> f, asks |-> FALSE])
  BY DEF PlayStep
<1>4. /\ stack # <<>> /\ Top.on = NoFrame /\ Top.steps > 0
      /\ UNCHANGED <<phase, winner, qualifies, turn, queue, clock, resolved, runs>>
  BY DEF PlayStep, MayRun
<1> DEFINE new == [steps |-> Top.steps - 1, on |-> f, asks |-> FALSE]
<1>5. new \in Pipeline /\ new.on = f
  BY <1>4, TopTyped, FreshIsNew DEF Pipeline
<1>6. stack' = OnTop(new)
  BY <1>3
<1> HIDE DEF new
<1>7. /\ stack' \in Seq(Pipeline) /\ stack' # <<>> /\ stack'[Len(stack')] = new
      /\ \A i \in DOMAIN stack' : i \in DOMAIN stack /\ (stack'[i] = new \/ stack'[i] = stack[i])
  BY <1>4, <1>5, <1>6, OnTopTyped
<1>8. /\ DOMAIN frames' = DOMAIN frames \cup {f} /\ f \in Nat \ {0}
      /\ frames' \in [DOMAIN frames' -> Frame]
      /\ frames'[f].restoring /\ ~frames'[f].open
      /\ \A g \in DOMAIN frames : frames'[g] = frames[g]
  <2>1. f \in Nat \ {0} /\ f \notin DOMAIN frames
    BY FreshIsNew
  <2>2. /\ DOMAIN frames' = DOMAIN frames \cup {f}
        /\ frames' \in [DOMAIN frames' -> Frame]
        /\ frames'[f].restoring = TRUE /\ frames'[f].open = FALSE
        /\ \A g \in DOMAIN frames : frames'[g] = frames[g]
    BY <1>3, <2>1, OpenedAlso
  <2> QED  BY <2>1, <2>2
<1>9. Playing
  BY <1>1, <1>4 DEF InTheEnd, Playing, Types
<1>10. HasOpenFrames' = HasOpenFrames
  BY <1>8, FreshIsNew DEF HasOpenFrames
<1> USE <1>2, <1>4, <1>7, <1>8, <1>9
<1>11. Types'
  BY DEF Types, Agenda, Draining, Unheard, WakeAhead
<1>12. (InSetup /\ InTheEnd /\ Seated)'
  BY DEF InSetup, InTheEnd, Seated, Playing
<1>13. OnItsWay'
  BY DEF OnItsWay, ShowAhead, Playing
<1>14. ClockHeld'
  BY <1>10 DEF ClockHeld
<1>15. Parked'
  BY <1>5 DEF Parked, WakeAhead, TasksAhead, MayRun, Top, NoFrame
<1>16. (AsksFirst /\ TurnEnds /\ InAction)'
  BY DEF AsksFirst, TurnEnds, InAction, Playing
<1>17. Heard'
  BY DEF Heard, HasPendingOutcome
<1>18. (ClockGoesOn /\ Idle)'
  BY <1>10 DEF ClockGoesOn, Idle, Playing, ClockAhead
<1> QED  BY <1>11, <1>12, <1>13, <1>14, <1>15, <1>16, <1>17, <1>18

LEMMA LandInv == ASSUME Inv, Land PROVE Inv'
<1> USE Distinct DEF Inv
<1>1. \/ (todo = PD /\ todo' = SD)
      \/ (todo = P2 /\ todo' = S2)
      \/ (todo = P6 /\ todo' = S6)
  BY TakeOff DEF Land, Types
<1>2. Playing /\ \E f \in DOMAIN frames : frames[f].restoring
  BY <1>1 DEF OnItsWay, ShowAhead
<1>3. PICK meet \in {qualifies, qualifies \cup {turn.seat}} :
         Hears(frames, stack, meet, clock)
  BY DEF Land
<1>4. UNCHANGED <<turn, queue, resolved, runs>>
  BY DEF Land
<1>5. turn.seat \in Seat
  BY <1>1, <1>2 DEF Types, Seated, Playing, Seat, NoSeat
<1>6. HasPendingOutcome(frames)
  BY <1>2 DEF HasPendingOutcome
<1>7. /\ phase' = phase /\ winner' = winner
      /\ clock' = clock /\ frames' = frames /\ stack' = stack
      /\ qualifies' \subseteq Seat
  BY <1>3, <1>5, <1>6, HearsOutcome DEF Types
<1> USE <1>1, <1>2, <1>4, <1>7
<1>8. Types'
  BY DEF Types, Agenda, Draining, Unheard, WakeAhead
<1>9. (InSetup /\ InTheEnd /\ Seated)'
  BY DEF InSetup, InTheEnd, Seated, Playing
<1>10. OnItsWay'
  BY DEF OnItsWay, ShowAhead, Playing
<1>11. (ClockHeld /\ Parked)'
  BY DEF ClockHeld, Parked, MayRun, Top, WakeAhead, TasksAhead, HasOpenFrames
<1>12. (AsksFirst /\ TurnEnds /\ InAction /\ Heard)'
  BY <1>6 DEF AsksFirst, TurnEnds, InAction, Heard, Playing, HasPendingOutcome
<1>13. (ClockGoesOn /\ Idle)'
  BY DEF ClockGoesOn, Idle, Playing, HasOpenFrames, ClockAhead
<1> QED  BY <1>8, <1>9, <1>10, <1>11, <1>12, <1>13

LEMMA ShowInv == ASSUME Inv, Show PROVE Inv'
<1> USE Distinct DEF Inv
<1>1. \/ (todo = SD /\ todo' = D1)
      \/ (todo = S2 /\ todo' = R2)
      \/ (todo = S6 /\ todo' = R6)
  BY TakeOff DEF Show, Types
<1>2. Playing /\ \E f \in DOMAIN frames : frames[f].restoring
  BY <1>1 DEF OnItsWay, ShowAhead
<1>3. /\ frames' = [f \in DOMAIN frames |-> [frames[f] EXCEPT !.open = TRUE]]
      /\ clock' = Paused(clock)
      /\ UNCHANGED <<phase, winner, stack, qualifies, turn, queue, resolved, runs>>
  BY DEF Show
<1>4. /\ DOMAIN frames' = DOMAIN frames /\ frames' \in [DOMAIN frames' -> Frame]
      /\ \A f \in DOMAIN frames : frames'[f].open /\ frames'[f].restoring = frames[f].restoring
  <2>1. ASSUME NEW f \in DOMAIN frames
        PROVE  /\ frames'[f] \in Frame /\ frames'[f].open
               /\ frames'[f].restoring = frames[f].restoring
    <3>1. frames[f] \in Frame /\ frames'[f] = [frames[f] EXCEPT !.open = TRUE]
      BY <1>3 DEF Types
    <3> QED  BY <3>1 DEF Frame
  <2>2. frames' = [f \in DOMAIN frames |-> frames'[f]] /\ DOMAIN frames' = DOMAIN frames
    BY <1>3
  <2> QED  BY <2>1, <2>2
<1>5. clock' \in [timed : BOOLEAN, running : BOOLEAN] /\ ~clock'.running /\ clock'.timed = clock.timed
  BY <1>3 DEF Paused, Types
<1>6. HasOpenFrames' /\ HasPendingOutcome(frames)'
  BY <1>2, <1>4 DEF HasOpenFrames, HasPendingOutcome
<1>7. UNCHANGED <<phase, winner, stack, qualifies, turn, queue, resolved, runs>>
  BY <1>3
<1> USE <1>1, <1>2, <1>4, <1>5, <1>6, <1>7
<1>8. Types'
  BY DEF Types, Agenda, Draining, Unheard, WakeAhead
<1>9. (InSetup /\ InTheEnd /\ Seated)'
  BY DEF InSetup, InTheEnd, Seated, Playing
<1>10. OnItsWay'
  BY DEF OnItsWay, ShowAhead, Playing
<1>11. (ClockHeld /\ Parked)'
  BY DEF ClockHeld, Parked, MayRun, Top, WakeAhead, TasksAhead
<1>12. (AsksFirst /\ TurnEnds /\ InAction /\ Heard)'
  BY DEF AsksFirst, TurnEnds, InAction, Heard, Playing
<1>13. (ClockGoesOn /\ Idle)'
  BY DEF ClockGoesOn, Idle, Playing
<1> QED  BY <1>8, <1>9, <1>10, <1>11, <1>12, <1>13

LEMMA DropRefusedInv == ASSUME Inv, DropRefused PROVE Inv'
<1> USE Distinct DEF Inv, board
<1>1. todo = D1 /\ todo' = todo /\ queue # <<>> /\ queue' = Tail(queue)
      /\ UNCHANGED <<board, turn, clock, resolved, runs>>
  BY At DEF DropRefused, Types
<1>2. phase # "Setup" /\ queue' \in Seq(Kind)
  BY <1>1 DEF InSetup, Types
<1> USE <1>1, <1>2
<1>3. Types'
  BY DEF Types
<1>4. (InSetup /\ InTheEnd /\ Seated)'
  BY DEF InSetup, InTheEnd, Seated, Playing
<1>5. OnItsWay'
  BY DEF OnItsWay, Playing
<1>6. (ClockHeld /\ Parked)'
  BY DEF ClockHeld, Parked, MayRun, Top, HasOpenFrames
<1>7. (AsksFirst /\ TurnEnds /\ InAction /\ Heard)'
  BY DEF AsksFirst, TurnEnds, InAction, Heard, Playing, HasPendingOutcome
<1>8. (ClockGoesOn /\ Idle)'
  BY DEF ClockGoesOn, Idle, Playing, HasOpenFrames, ClockAhead
<1> QED  BY <1>3, <1>4, <1>5, <1>6, <1>7, <1>8

LEMMA ForfeitInv == ASSUME Inv, Forfeit PROVE Inv'
<1> USE Distinct DEF Inv, board
<1>1. todo = D1 /\ todo' = todo /\ queue # <<>> /\ queue' = Tail(queue)
      /\ UNCHANGED <<board, clock, resolved, runs>>
  BY At DEF Forfeit, Types
<1>2. phase # "Setup" /\ queue' \in Seq(Kind)
  BY <1>1 DEF InSetup, Types
<1>3. /\ turn' \in [phase : {"Start", "Action", "End"}, seat : 0..Seats, points : Nat]
      /\ turn'.seat = turn.seat /\ turn'.phase = turn.phase
  BY DEF Forfeit, Types
<1> USE <1>1, <1>2, <1>3
<1>4. Types'
  BY DEF Types
<1>5. (InSetup /\ InTheEnd /\ Seated)'
  BY DEF InSetup, InTheEnd, Seated, Playing
<1>6. OnItsWay'
  BY DEF OnItsWay, Playing
<1>7. (ClockHeld /\ Parked)'
  BY DEF ClockHeld, Parked, MayRun, Top, HasOpenFrames
<1>8. (AsksFirst /\ TurnEnds /\ InAction /\ Heard)'
  BY DEF AsksFirst, TurnEnds, InAction, Heard, Playing, HasPendingOutcome
<1>9. (ClockGoesOn /\ Idle)'
  BY DEF ClockGoesOn, Idle, Playing, HasOpenFrames, ClockAhead
<1> QED  BY <1>4, <1>5, <1>6, <1>7, <1>8, <1>9

LEMMA Spends ==
  ASSUME Inv, CanExecute("draw"), turn' = [turn EXCEPT !.points = @ - 1]
  PROVE  /\ turn' \in [phase : {"Start", "Action", "End"}, seat : 0..Seats, points : Nat]
         /\ turn'.seat = turn.seat /\ turn'.phase = turn.phase
BY DEF Inv, Types, CanExecute

LEMMA DrawCardInv == ASSUME Inv, DrawCard PROVE Inv'
<1> USE Distinct DEF Inv
<1>1. /\ todo = D1 /\ queue # <<>> /\ queue' = Tail(queue)
      /\ stack' \in Pushed(stack, TRUE) /\ runs' = runs - (Len(stack') - Len(stack))
      /\ UNCHANGED <<phase, winner, frames, qualifies, clock, resolved>>
  BY At DEF DrawCard, Types
<1>2. todo' = D3
  BY <1>1, Agendas DEF DrawCard
<1>3. phase # "Setup" /\ queue' \in Seq(Kind)
  BY <1>1 DEF InSetup, Types
<1>4. /\ turn' \in [phase : {"Start", "Action", "End"}, seat : 0..Seats, points : Nat]
      /\ turn'.seat = turn.seat /\ turn'.phase = turn.phase
  BY Spends DEF DrawCard
<1>5. ~HasOpenFrames /\ DOMAIN frames = {} /\ stack = <<>>
  BY <1>1, NoneHalfDone DEF DrawCard, IsBusy
<1>6. /\ stack' \in Seq(Pipeline)
      /\ \A i \in DOMAIN stack' : stack'[i].on = NoFrame
      /\ stack' = <<>> \/ (/\ stack'[Len(stack')].on = NoFrame
                           /\ stack'[Len(stack')].steps > 0 /\ stack'[Len(stack')].asks)
  <2>1. /\ stack' \in Seq(Pipeline)
        /\ \A i \in DOMAIN stack' : stack'[i].on # NoFrame => i \in DOMAIN stack
        /\ \/ stack' = stack
           \/ /\ stack'[Len(stack')].on = NoFrame /\ stack'[Len(stack')].steps > 0
              /\ stack'[Len(stack')].asks
    <3> DEFINE yes == TRUE
    <3>1. stack' \in Pushed(stack, yes) /\ yes \in BOOLEAN /\ stack \in Seq(Pipeline)
      BY <1>1 DEF Types
    <3> HIDE DEF yes
    <3>2. /\ stack' \in Seq(Pipeline)
          /\ \A i \in DOMAIN stack' : stack'[i].on # NoFrame => i \in DOMAIN stack
          /\ \/ stack' = stack
             \/ /\ stack'[Len(stack')].on = NoFrame /\ stack'[Len(stack')].steps > 0
                /\ stack'[Len(stack')].asks = yes
      BY <3>1, PushedOnTop
    <3> QED  BY <3>2 DEF yes
  <2> QED  BY <1>5, <2>1
<1>7. runs' \in Int /\ phase # "Concluded"
  BY <1>1, <1>6 DEF Types, InTheEnd, Draining
<1> USE <1>1, <1>2, <1>3, <1>4, <1>5, <1>6, <1>7
<1>8. Types'
  BY DEF Types, Agenda, Draining
<1>9. (InSetup /\ InTheEnd /\ Seated)'
  BY DEF InSetup, InTheEnd, Seated, Playing
<1>10. OnItsWay'
  BY DEF OnItsWay, ShowAhead
<1>11. (ClockHeld /\ Parked)'
  BY DEF ClockHeld, Parked, MayRun, Top, WakeAhead, TasksAhead, HasOpenFrames
<1>12. AsksFirst'
  BY DEF AsksFirst, Top, MayRun
<1>13. (TurnEnds /\ InAction /\ Heard)'
  BY DEF TurnEnds, InAction, Heard, Playing, HasPendingOutcome, Unheard, WakeAhead
<1>14. (ClockGoesOn /\ Idle)'
  BY DEF ClockGoesOn, Idle, Playing, HasOpenFrames, ClockAhead
<1> QED  BY <1>8, <1>9, <1>10, <1>11, <1>12, <1>13, <1>14

LEMMA PlayInv == ASSUME Inv, Play PROVE Inv'
<1> USE Distinct DEF Inv
<1>1. /\ todo = D1 /\ queue # <<>> /\ queue' = Tail(queue)
      /\ UNCHANGED <<phase, winner, stack, qualifies, clock, resolved, runs>>
  BY At DEF Play, Types
<1>2. todo' = PD
  BY <1>1, Agendas DEF Play
<1>3. phase # "Setup" /\ phase # "Concluded" /\ queue' \in Seq(Kind)
  BY <1>1 DEF InSetup, InTheEnd, Draining, Types
<1>4. /\ turn' \in [phase : {"Start", "Action", "End"}, seat : 0..Seats, points : Nat]
      /\ turn'.seat = turn.seat /\ turn'.phase = turn.phase
  BY Spends DEF Play, CanExecute
<1>5. ~HasOpenFrames /\ DOMAIN frames = {} /\ stack = <<>>
  BY <1>1, NoneHalfDone DEF Play, IsBusy
<1>6. PICK f \in Fresh : frames' = Opened(f, TRUE, FALSE)
  BY DEF Play
<1>7. /\ DOMAIN frames' = {f} /\ f \in Nat \ {0}
      /\ frames' \in [DOMAIN frames' -> Frame]
      /\ frames'[f].restoring /\ ~frames'[f].open
  <2>1. f \in Nat \ {0} /\ f \notin DOMAIN frames
    BY FreshIsNew
  <2>2. /\ DOMAIN frames' = DOMAIN frames \cup {f}
        /\ frames' \in [DOMAIN frames' -> Frame]
        /\ frames'[f].restoring = TRUE /\ frames'[f].open = FALSE
    BY <1>6, <2>1, OpenedAlso
  <2> QED  BY <1>5, <2>1, <2>2
<1>8. ~HasOpenFrames' /\ Playing
  BY <1>3, <1>7 DEF HasOpenFrames, Playing, Types
<1> USE <1>1, <1>2, <1>3, <1>4, <1>5, <1>7, <1>8
<1>9. Types'
  BY DEF Types, Agenda, Draining
<1>10. (InSetup /\ InTheEnd /\ Seated)'
  BY DEF InSetup, InTheEnd, Seated, Playing
<1>11. OnItsWay'
  BY DEF OnItsWay, ShowAhead, Playing
<1>12. (ClockHeld /\ Parked)'
  BY DEF ClockHeld, Parked, MayRun, WakeAhead
<1>13. (AsksFirst /\ TurnEnds /\ InAction)'
  BY DEF AsksFirst, TurnEnds, InAction, Playing
<1>14. Heard'
  BY DEF Heard, HasPendingOutcome
<1>15. (ClockGoesOn /\ Idle)'
  BY DEF ClockGoesOn, Idle, Playing, ClockAhead
<1> QED  BY <1>9, <1>10, <1>11, <1>12, <1>13, <1>14, <1>15

LEMMA EndTurnInv == ASSUME Inv, EndTurn PROVE Inv'
<1> USE Distinct DEF Inv
<1>1. /\ todo = D1 /\ Tail(todo) = None /\ queue = <<>> /\ turn.points = 0
      /\ turn' = [turn EXCEPT !.phase = "End"]
      /\ Hears(frames, stack, qualifies, Stopped)
      /\ UNCHANGED <<queue, resolved, runs>>
  BY At DEF EndTurn, Types
<1>2. todo' = Next1
  BY <1>1, Agendas DEF EndTurn, Then
<1>3. phase # "Setup" /\ phase # "Concluded"
  BY <1>1 DEF InSetup, InTheEnd, Draining
<1>4. DOMAIN frames = {} /\ stack = <<>>
  BY <1>1, NoneHalfDone DEF EndTurn, IsBusy
<1>5. qualifies = {}
  BY <1>1, <1>3, <1>4 DEF Heard, HasPendingOutcome, Unheard, WakeAhead, Playing, Types
<1>6. /\ phase' = phase /\ winner' = winner /\ clock' = Stopped /\ frames' = frames
      /\ stack' = stack /\ qualifies' = qualifies
  BY <1>1, <1>5, HearsOutcome
<1>7. /\ turn' \in [phase : {"Start", "Action", "End"}, seat : 0..Seats, points : Nat]
      /\ turn'.seat = turn.seat /\ turn'.points = 0 /\ turn.seat # NoSeat
  BY <1>1, <1>3 DEF Types, Seated
<1>8. Stopped \in [timed : BOOLEAN, running : BOOLEAN] /\ ~Stopped.running
  BY DEF Stopped
<1> USE <1>1, <1>2, <1>3, <1>4, <1>5, <1>6, <1>7, <1>8
<1>9. Types'
  BY DEF Types, Agenda
<1>10. (InSetup /\ InTheEnd /\ Seated)'
  BY DEF InSetup, InTheEnd, Seated, Playing
<1>11. OnItsWay'
  BY DEF OnItsWay, ShowAhead
<1>12. (ClockHeld /\ Parked)'
  BY DEF ClockHeld, Parked, MayRun, WakeAhead
<1>13. (AsksFirst /\ TurnEnds /\ InAction)'
  BY DEF AsksFirst, TurnEnds, InAction, Playing
<1>14. (ClockGoesOn /\ Idle /\ Heard)'
  BY DEF ClockGoesOn, Idle, Heard, Playing
<1> QED  BY <1>9, <1>10, <1>11, <1>12, <1>13, <1>14

LEMMA EnqueueInv == ASSUME Inv, NEW kind \in Kind, Enqueue(kind) PROVE Inv'
<1> USE Distinct DEF Inv, board
<1>1. /\ todo = None /\ Playing /\ queue' = Append(queue, kind)
      /\ UNCHANGED <<board, turn, clock, resolved, runs>>
  BY DEF Enqueue, Quiet, None
<1>2. todo' = D1 /\ queue' \in Seq(Kind) /\ queue' # <<>>
  BY <1>1 DEF Enqueue, D1, Types
<1> USE <1>1, <1>2
<1>3. Types'
  BY DEF Types, Agenda, Draining
<1>4. (InSetup /\ InTheEnd /\ Seated)'
  BY DEF InSetup, InTheEnd, Seated, Playing
<1>5. OnItsWay'
  BY DEF OnItsWay, ShowAhead
<1>6. (ClockHeld /\ Parked)'
  BY DEF ClockHeld, Parked, MayRun, Top, WakeAhead, TasksAhead, HasOpenFrames
<1>7. (AsksFirst /\ TurnEnds /\ InAction /\ Heard)'
  BY DEF AsksFirst, TurnEnds, InAction, Heard, Playing, HasPendingOutcome, Unheard, WakeAhead
<1>8. (ClockGoesOn /\ Idle)'
  BY DEF ClockGoesOn, Idle, Playing, HasOpenFrames, ClockAhead
<1> QED  BY <1>3, <1>4, <1>5, <1>6, <1>7, <1>8

LEMMA TurnLapseInv == ASSUME Inv, TurnLapse PROVE Inv'
<1> USE Distinct DEF Inv, board
<1>1. /\ todo = None /\ Playing /\ clock' = Paused(clock)
      /\ turn' = [turn EXCEPT !.points = 0]
      /\ UNCHANGED <<board, queue, resolved, runs>>
  BY DEF TurnLapse, Quiet, None
<1>2. todo' = D1
  BY DEF TurnLapse, D1
<1>3. DOMAIN frames = {} /\ stack = <<>> /\ queue = <<>>
  BY <1>1, NoneHalfDone DEF TurnLapse, IsBusy, Idle
<1>4. /\ turn' \in [phase : {"Start", "Action", "End"}, seat : 0..Seats, points : Nat]
      /\ turn'.seat = turn.seat /\ turn'.phase = turn.phase /\ turn'.points = 0
      /\ clock' \in [timed : BOOLEAN, running : BOOLEAN] /\ clock'.timed = clock.timed
      /\ ~clock'.running
  BY <1>1 DEF Types, Paused
<1> USE <1>1, <1>2, <1>3, <1>4
<1>5. Types'
  BY DEF Types, Agenda, Draining
<1>6. (InSetup /\ InTheEnd /\ Seated)'
  BY DEF InSetup, InTheEnd, Seated, Playing
<1>7. OnItsWay'
  BY DEF OnItsWay, ShowAhead
<1>8. (ClockHeld /\ Parked)'
  BY DEF ClockHeld, Parked, MayRun, WakeAhead
<1>9. (AsksFirst /\ TurnEnds /\ InAction /\ Heard)'
  BY DEF AsksFirst, TurnEnds, InAction, Heard, Playing, HasPendingOutcome, Unheard, WakeAhead
<1>10. (ClockGoesOn /\ Idle)'
  BY DEF ClockGoesOn, Idle, Playing
<1> QED  BY <1>5, <1>6, <1>7, <1>8, <1>9, <1>10

(* A frame is gone, and the rest of the board is told. *)
LEMMA SettledInv ==
  ASSUME Inv, NEW f \in DOMAIN frames, todo = None,
         frames' = Without(frames, {f}), resolved' = f,
         todo' \in {R5, R6, R8, R9},
         stack' \in Seq(Pipeline),
         \A i \in DOMAIN stack' : stack'[i].on # NoFrame => stack'[i].on \in DOMAIN frames,
         phase = "Concluded" => stack' = <<>>,
         qualifies' \subseteq Seat,
         UNCHANGED <<phase, winner, turn, queue, clock, runs>>
  PROVE  Inv'
<1> USE Distinct DEF Inv
<1>1. /\ DOMAIN frames' = DOMAIN frames \ {f} /\ frames' \in [DOMAIN frames' -> Frame]
      /\ \A g \in DOMAIN frames' : frames'[g] = frames[g]
  BY DEF Without, Types
<1>2. phase # "Setup" /\ f \in Nat \ {0}
  BY DEF InSetup, Types
<1>3. HasOpenFrames' => HasOpenFrames
  BY <1>1 DEF HasOpenFrames
<1> USE <1>1, <1>2
<1>4. Types'
  BY DEF Types, Agenda, Unheard, WakeAhead
<1>5. (InSetup /\ InTheEnd /\ Seated)'
  BY DEF InSetup, InTheEnd, Seated, Playing
<1>6. OnItsWay'
  BY DEF OnItsWay, ShowAhead
<1>7. (ClockHeld /\ Parked)'
  BY <1>3 DEF ClockHeld, Parked, WakeAhead, TasksAhead
<1>8. (AsksFirst /\ TurnEnds /\ InAction /\ Heard)'
  BY DEF AsksFirst, TurnEnds, InAction, Heard, Playing, Unheard, WakeAhead
<1>9. (ClockGoesOn /\ Idle)'
  BY DEF ClockGoesOn, Idle, Playing, ClockAhead
<1> QED  BY <1>4, <1>5, <1>6, <1>7, <1>8, <1>9

LEMMA ParkedWhenQuiet ==
  ASSUME Inv, todo = None
  PROVE  /\ stack \in Seq(Pipeline)
         /\ \A i \in DOMAIN stack : stack[i].on # NoFrame => stack[i].on \in DOMAIN frames
<1>1. resolved = NoFrame
  BY Distinct DEF Inv, Parked, WakeAhead
<1> QED  BY <1>1 DEF Inv, Parked, Types

LEMMA SettleInv == ASSUME Inv, Settle PROVE Inv'
<1>1. PICK f \in DOMAIN frames : SettleQuestion(f) \/ SettleOutcome(f)
  BY DEF Settle
<1>2. /\ todo = None /\ frames' = Without(frames, {f}) /\ resolved' = f
      /\ todo' \in {R5, R6, R8, R9}
      /\ UNCHANGED <<phase, winner, turn, queue, clock, runs>>
  BY <1>1, Agendas DEF SettleQuestion, SettleOutcome, Quiet, None
<1>3. CASE UNCHANGED <<stack, qualifies>>
  BY <1>2, <1>3, ParkedWhenQuiet, SettledInv DEF Inv, InTheEnd, Types
<1>4. CASE UNCHANGED stack /\ qualifies' = qualifies \cup {turn.seat}
  <2>1. turn.seat \in Seat
    BY <1>2, Distinct DEF Inv, Types, Seated, InSetup, Seat, NoSeat
  <2> QED  BY <1>2, <1>4, <2>1, ParkedWhenQuiet, SettledInv DEF Inv, InTheEnd, Types
<1>5. CASE qualifies' = frames[f].before /\ stack' = Unparked(stack, f)
  <2> DEFINE Kept == {p \in Pipeline : p.on # NoFrame => p.on \in DOMAIN frames}
  <2>1. stack' \in Seq(Kept)
    <3>1. \A i \in 1..Len(stack) : stack[i].on # f => stack[i] \in Kept
      BY <1>2, ParkedWhenQuiet
    <3> HIDE DEF Kept
    <3> QED  BY <1>2, <1>5, <3>1, ParkedWhenQuiet, UnparkedLeaves
  <2>2. /\ stack' \in Seq(Pipeline)
        /\ \A i \in DOMAIN stack' : stack'[i].on # NoFrame => stack'[i].on \in DOMAIN frames
    BY <2>1
  <2>3. qualifies' \subseteq Seat
    BY <1>5 DEF Inv, Types, Frame
  <2>4. phase # "Concluded"
    BY DEF Inv, InTheEnd
  <2> QED  BY <1>2, <2>2, <2>3, <2>4, SettledInv
<1> QED  BY <1>1, <1>3, <1>4, <1>5 DEF SettleQuestion, SettleOutcome

LEMMA NextInv == ASSUME Inv, [Next]_vars PROVE Inv'
<1>1. CASE UNCHANGED vars
  BY <1>1 DEF vars, Inv, Types, InSetup, InTheEnd, Seated, OnItsWay, ClockHeld, Parked,
              AsksFirst, TurnEnds, InAction, ClockGoesOn, Idle, Heard, Playing,
              HasOpenFrames, HasPendingOutcome, MayRun, Top
<1>2. CASE Cascade
  BY <1>2, StartTurnInv, SyncClockInv, ResumeInv, HearInv, PushInv, WakeInv, StopRunningInv,
     PopSpentInv, DoStepInv, AskStepInv, PlayStepInv, LandInv, ShowInv, DropRefusedInv,
     ForfeitInv, DrawCardInv, PlayInv, DrainStopsInv, EndTurnInv DEF Cascade
<1>3. CASE Start \/ Settle \/ TurnLapse \/ \E kind \in Kind : Enqueue(kind)
  BY <1>3, StartInv, SettleInv, TurnLapseInv, EnqueueInv
<1> QED  BY <1>1, <1>2, <1>3 DEF Next

-----------------------------------------------------------------------------
(* The theorems *)

(* The board is well formed, and wherever the cascade stands, it has left   *)
(* the board as the steps that are still to come need to find it.           *)
THEOREM Invariant == Spec => []Inv
BY InitInv, NextInv, PTL DEF Spec

(* The turn clock never runs out over an open window or a pipeline half way *)
(* through: the throw in TurnManager.lapse is unreachable.                  *)
THEOREM LapseFindsIdleBoardHolds == Spec => []LapseFindsIdleBoard
<1>1. Inv => LapseFindsIdleBoard
  BY NoneHalfDone DEF LapseFindsIdleBoard, Inv, ClockHeld, IsBusy, Quiet, None
<1> QED  BY <1>1, Invariant, PTL

(* Between commands a game that is on waits for a window, or for a seat     *)
(* with points to spend, nothing queued, and a clock that runs.             *)
THEOREM TurnGoesOnHolds == Spec => []TurnGoesOn
<1>1. Inv => TurnGoesOn
  <2> SUFFICES ASSUME Inv, todo = None, Playing
               PROVE  /\ turn.phase = "Action"
                      /\ \/ HasOpenFrames
                         \/ /\ stack = <<>> /\ queue = <<>> /\ turn.points > 0
                            /\ Timed => clock.running
    BY DEF TurnGoesOn, Quiet, None
  <2> QED  BY Distinct DEF Inv, InAction, Idle, ClockGoesOn, ClockAhead
<1> QED  BY <1>1, Invariant, PTL

(* No command is taken before the engine has noticed a seat that meets the  *)
(* win conditions, unless what brought it there may still be rolled back.   *)
THEOREM WinIsNoticedHolds == Spec => []WinIsNoticed
<1>1. Inv => WinIsNoticed
  <2> SUFFICES ASSUME Inv, todo = None, Playing, qualifies # {}
               PROVE  \E f \in DOMAIN frames : frames[f].restoring
    BY DEF WinIsNoticed, Quiet, None
  <2>1. todo \notin Unheard /\ todo \notin ShowAhead
    BY Distinct DEF Unheard, ShowAhead, WakeAhead
  <2> QED  BY <2>1, AllOpen DEF Inv, Heard, HasPendingOutcome
<1> QED  BY <1>1, Invariant, PTL

(* Only the engine ends the game, on an event it hears when no frame pends. *)
LEMMA OnlyHearsConclude ==
  ASSUME Inv, Next, phase' = "Concluded", phase # "Concluded"
  PROVE  winner' \in qualifies' /\ ~HasPendingOutcome(frames)
<1> DEFINE Heard1 == \E st, meet, clk : Hears(frames, st, meet, clk)
<1>1. ASSUME Heard1 PROVE winner' \in qualifies' /\ ~HasPendingOutcome(frames)
  <2>1. PICK st, meet, clk : Hears(frames, st, meet, clk)
    BY <1>1
  <2> QED  BY <2>1, HearsOutcome
<1>2. CASE StartTurn \/ Hear \/ PopSpent \/ DoStep \/ Land \/ EndTurn
  <2>1. StartTurn => Heard1
    BY DEF StartTurn
  <2>2. Hear => Heard1
    BY DEF Hear
  <2>3. PopSpent => Heard1
    BY DEF PopSpent
  <2>4. DoStep => Heard1
    BY DEF DoStep
  <2>5. Land => Heard1
    BY DEF Land
  <2>6. EndTurn => Heard1
    BY DEF EndTurn
  <2> HIDE DEF Heard1
  <2> QED  BY <1>1, <1>2, <2>1, <2>2, <2>3, <2>4, <2>5, <2>6
<1>3. CASE \/ SyncClock \/ Resume \/ Push \/ Wake \/ StopRunning \/ AskStep \/ PlayStep
           \/ Show \/ DropRefused \/ Forfeit \/ DrawCard \/ Play \/ DrainStops
  <2>1. phase' = phase
    BY <1>3 DEF SyncClock, Resume, Push, Wake, StopRunning, AskStep, PlayStep, Show,
       DropRefused, Forfeit, DrawCard, Play, DrainStops, board
  <2> QED  BY <2>1
<1>4. CASE Start \/ Settle \/ TurnLapse \/ \E kind \in Kind : Enqueue(kind)
  BY <1>4 DEF Start, Settle, SettleQuestion, SettleOutcome, TurnLapse, Enqueue, board
<1> QED  BY <1>2, <1>3, <1>4 DEF Next, Cascade

(* The game ends only when nothing that brought the winner there can still  *)
(* be rolled back.                                                          *)
THEOREM WinIsFinalHolds == Spec => WinIsFinal
<1>1. Inv /\ [Next]_vars =>
        [phase' = "Concluded" /\ phase # "Concluded" =>
            /\ winner' \in qualifies'
            /\ \A f \in DOMAIN frames :
                  frames[f].restoring => winner' \in frames[f].before]_vars
  BY OnlyHearsConclude DEF HasPendingOutcome, vars
<1> QED  BY <1>1, Invariant, PTL DEF Spec, WinIsFinal

(* The next seat begins with an idle board and a fresh budget.              *)
THEOREM TurnBeginsCleanHolds == Spec => TurnBeginsClean
<1>1. ASSUME Inv, Next, turn'.seat # turn.seat
      PROVE  /\ queue = <<>> /\ frames = [f \in {} |-> {}] /\ stack = <<>>
             /\ turn.seat = NoSeat \/ turn.points = 0
  <2>1. CASE StartTurn
    <3>1. todo = Next1 /\ phase # "Concluded" /\ phase # "Setup"
      BY <1>1, <2>1, At, Distinct DEF StartTurn, Inv, Types, InSetup
    <3>2. queue = <<>> /\ DOMAIN frames = {} /\ stack = <<>> /\ (turn.seat = NoSeat \/ turn.points = 0)
      BY <1>1, <3>1 DEF Inv, TurnEnds, Playing, Types
    <3>3. frames = [f \in {} |-> {}]
      BY <1>1, <3>2 DEF Inv, Types
    <3> QED  BY <3>2, <3>3
  <2>2. CASE Cascade /\ ~StartTurn
    <3>1. turn'.seat = turn.seat
      BY <1>1, <2>2 DEF Cascade, SyncClock, Resume, Hear, Push, Wake, StopRunning, PopSpent,
         DoStep, AskStep, PlayStep, Land, Show, DropRefused, Forfeit, DrawCard, Play,
         DrainStops, EndTurn, Inv, Types
    <3> QED  BY <1>1, <3>1
  <2>3. CASE Start \/ Settle \/ TurnLapse \/ \E kind \in Kind : Enqueue(kind)
    BY <1>1, <2>3 DEF Start, Settle, SettleQuestion, SettleOutcome, TurnLapse, Enqueue, Inv, Types
  <2> QED  BY <1>1, <2>1, <2>2, <2>3 DEF Next
<1>2. Inv /\ [Next]_vars =>
        [turn'.seat # turn.seat =>
            /\ queue = <<>> /\ frames = [f \in {} |-> {}] /\ stack = <<>>
            /\ turn.seat = NoSeat \/ turn.points = 0]_vars
  BY <1>1
<1> QED  BY <1>2, Invariant, PTL DEF Spec, TurnBeginsClean

(* Whatever the cascade still had to do when the game ended, it does to     *)
(* nothing.                                                                 *)
THEOREM NothingAfterTheEndHolds == Spec => NothingAfterTheEnd
<1>1. ASSUME Inv, Next, phase = "Concluded"
      PROVE  UNCHANGED <<phase, winner, turn, clock, frames, stack, qualifies, runs>>
  <2>1. /\ clock = Stopped /\ DOMAIN frames = {} /\ stack = <<>>
        /\ todo \notin Draining /\ todo \notin ShowAhead /\ runs \in Int /\ todo \in Agenda
    BY <1>1 DEF Inv, InTheEnd, Types
  <2>2. CASE StartTurn \/ Resume \/ StopRunning
    BY <1>1, <2>2 DEF StartTurn, Resume, StopRunning, board
  <2>3. CASE SyncClock
    <3>1. clock' = clock
      <4>1. clock.timed = FALSE /\ clock.running = FALSE
        BY <2>1 DEF Stopped
      <4>2. (~HasOpenFrames /\ (clock.running \/ (clock.timed /\ turn.phase = "Action"))) = FALSE
        BY <4>1
      <4>3. clock' = [clock EXCEPT !.running = FALSE]
        BY <2>3, <4>2 DEF SyncClock, Synced
      <4>4. clock \in [timed : BOOLEAN, running : BOOLEAN]
        BY <2>1 DEF Stopped
      <4>5. [clock EXCEPT !.running = clock.running] = clock
        BY <4>4
      <4> QED  BY <4>1, <4>3, <4>5
    <3> QED  BY <2>3, <3>1 DEF SyncClock, board
  <2>4. CASE Hear
    BY <1>1, <2>4, HearsOutcome DEF Hear, Playing
  <2>5. CASE Push
    <3>1. stack' = stack
      BY <1>1, <2>5 DEF Push, Pushed
    <3> QED  BY <2>1, <2>5, <3>1 DEF Push
  <2>6. CASE Wake
    <3>1. [i \in DOMAIN stack |-> [stack[i] EXCEPT !.on = IF @ = resolved THEN NoFrame ELSE @]] = stack
      BY <2>1
    <3>2. stack' = stack
      BY <1>1, <2>6, <3>1 DEF Wake, Pushed
    <3> QED  BY <2>1, <2>6, <3>2 DEF Wake
  <2>7. CASE PopSpent \/ DoStep \/ AskStep \/ PlayStep
    BY <2>1, <2>7 DEF PopSpent, DoStep, AskStep, PlayStep, MayRun
  <2>8. CASE Land \/ Show
    BY <2>1, <2>8, At DEF Land, Show, ShowAhead
  <2>9. CASE DropRefused \/ Forfeit \/ DrawCard \/ Play \/ DrainStops \/ EndTurn
    BY <2>1, <2>9, At DEF DropRefused, Forfeit, DrawCard, Play, DrainStops, EndTurn, Draining
  <2>10. CASE Start \/ Settle \/ TurnLapse \/ \E kind \in Kind : Enqueue(kind)
    BY <1>1, <2>1, <2>10 DEF Start, Settle, TurnLapse, Enqueue, Playing
  <2> QED  BY <1>1, <2>2, <2>3, <2>4, <2>5, <2>6, <2>7, <2>8, <2>9, <2>10 DEF Next, Cascade
<1>2. Inv /\ [Next]_vars =>
        [phase = "Concluded" =>
            UNCHANGED <<phase, winner, turn, clock, frames, stack, qualifies, runs>>]_vars
  BY <1>1
<1> QED  BY <1>2, Invariant, PTL DEF Spec, NothingAfterTheEnd

-----------------------------------------------------------------------------
(* The game behind the machine *)

Rules == INSTANCE GameRules WITH seat <- turn.seat, points <- turn.points

(* Before the first turn there is nothing to spend. *)
NoSeatNoPoints == turn.seat = NoSeat => turn.points = 0

RulesStep == Rules!RulesNext \/ UNCHANGED <<phase, winner, turn.seat, turn.points>>

(* An event the engine hears ends the game for a seat that wins, or changes *)
(* nothing the rules know of.                                               *)
LEMMA HeardByTheRules ==
  ASSUME Inv, NEW fr, NEW st, NEW meet \in SUBSET Seat, NEW clk, Hears(fr, st, meet, clk),
         turn'.seat = turn.seat, turn'.points = turn.points,
         Playing => turn.seat # NoSeat
  PROVE  RulesStep
<1>1. CASE UNCHANGED <<phase, winner>>
  BY <1>1 DEF RulesStep
<1>2. CASE Playing /\ phase' = "Concluded" /\ winner' \in meet
  <2>1. winner' \in 1..Seats
    BY <1>2 DEF Seat
  <2>2. Rules!Win
    BY <1>2, <2>1 DEF Rules!Win, Playing, NoSeat
  <2> QED  BY <2>2 DEF RulesStep, Rules!RulesNext
<1> QED  BY <1>1, <1>2 DEF Hears

(* Where the engine hears an event it has a seat to hear it for. *)
LEMMA SeatedButNext ==
  ASSUME Inv, Playing, todo # Next1
  PROVE  turn.seat # NoSeat
BY DEF Inv, Seated, Playing

LEMMA ChangesTyped == ASSUME Inv, NEW meet \in Changes PROVE meet \in SUBSET Seat
BY DEF Inv, Types, Changes

LEMMA StartTurnByTheRules ==
  ASSUME Inv, NoSeatNoPoints, StartTurn PROVE RulesStep /\ NoSeatNoPoints'
<1>1. todo = Next1 /\ phase # "Setup"
  BY At, Distinct DEF StartTurn, Inv, Types, InSetup
<1>2. CASE phase = "Concluded"
  BY <1>2 DEF StartTurn, RulesStep, board, NoSeatNoPoints
<1>3. CASE phase # "Concluded"
  <2>1. Playing
    BY <1>1, <1>3 DEF Inv, Types, Playing
  <2>2. /\ turn' = [phase |-> "Action", seat |-> NextSeat(turn.seat), points |-> Budget]
        /\ Hears(frames, stack, qualifies, [timed |-> Timed, running |-> FALSE])
    BY <1>3 DEF StartTurn
  <2>3. turn.points = 0 /\ qualifies = {}
    <3>1. DOMAIN frames = {} /\ (turn.seat = NoSeat \/ turn.points = 0)
      BY <1>1, <2>1 DEF Inv, TurnEnds
    <3>2. todo \notin Unheard
      BY <1>1, Distinct DEF Unheard, WakeAhead
    <3> QED  BY <2>1, <3>1, <3>2 DEF NoSeatNoPoints, Inv, Heard, HasPendingOutcome
  <2>4. UNCHANGED <<phase, winner>>
    BY <2>2, <2>3 DEF Hears
  <2>5. turn'.seat = (turn.seat % Seats) + 1 /\ turn'.points = Budget
    BY <2>2 DEF NextSeat
  <2>6. Rules!TakeTurn
    BY <2>1, <2>3, <2>4, <2>5 DEF Rules!TakeTurn, Playing
  <2>7. turn'.seat # NoSeat
    BY <2>5, ConstantsAssumption DEF NoSeat, Inv, Types
  <2> QED  BY <2>6, <2>7 DEF RulesStep, Rules!RulesNext, NoSeatNoPoints
<1> QED  BY <1>2, <1>3

(* What the drain takes off the points. *)
LEMMA DrainByTheRules ==
  ASSUME Inv, NoSeatNoPoints, Forfeit \/ DrawCard \/ Play
  PROVE  RulesStep /\ NoSeatNoPoints'
<1>1. todo = D1
  BY At DEF Forfeit, DrawCard, Play, Inv, Types
<1>2. Playing
  BY <1>1, Distinct DEF Draining, Inv, InTheEnd, InSetup, Types, Playing
<1>3. UNCHANGED <<phase, winner>>
  BY DEF Forfeit, DrawCard, Play, board
<1>4. turn.points \in Nat /\ turn.seat \in 0..Seats
  BY DEF Inv, Types
<1>5. CASE Forfeit
  <2>1. turn'.seat = turn.seat /\ turn'.points = 0
    BY <1>5 DEF Forfeit, Inv, Types
  <2>2. CASE turn.points = 0
    BY <1>3, <2>1, <2>2 DEF RulesStep, NoSeatNoPoints
  <2>3. CASE turn.points > 0
    <3>1. Rules!LetGo
      BY <1>2, <1>3, <2>1, <2>3 DEF Rules!LetGo, Playing
    <3> QED  BY <2>1, <3>1 DEF RulesStep, Rules!RulesNext, NoSeatNoPoints
  <2> QED  BY <1>4, <2>2, <2>3
<1>6. CASE DrawCard \/ Play
  <2>1. turn.points > 0
    BY <1>6 DEF DrawCard, Play, CanExecute
  <2>2. turn'.seat = turn.seat /\ turn'.points = turn.points - 1
    BY <1>6 DEF DrawCard, Play, Inv, Types
  <2>3. Rules!Spend
    BY <1>2, <1>3, <2>1, <2>2 DEF Rules!Spend, Playing
  <2> QED  BY <2>1, <2>2, <2>3 DEF RulesStep, Rules!RulesNext, NoSeatNoPoints
<1> QED  BY <1>5, <1>6

(* Events that end the game, or change nothing of it. *)
LEMMA EventsByTheRules ==
  ASSUME Inv, NoSeatNoPoints, Hear \/ PopSpent \/ DoStep \/ Land \/ EndTurn
  PROVE  RulesStep /\ NoSeatNoPoints'
<1>1. todo # Next1
  <2>1. ASSUME NEW step \in {"hear", "tasks", "land", "drain"}, Does(step)
        PROVE  todo # Next1
    BY <2>1, At, Distinct DEF Inv, Types
  <2> QED  BY <2>1 DEF Hear, PopSpent, DoStep, Land, EndTurn
<1>2. Playing => turn.seat # NoSeat
  BY <1>1, SeatedButNext
<1>3. turn'.seat = turn.seat /\ turn'.points = turn.points
  BY DEF Hear, PopSpent, DoStep, Land, EndTurn, Inv, Types
<1>4. NoSeatNoPoints'
  BY <1>3 DEF NoSeatNoPoints
<1>5. CASE UNCHANGED <<phase, winner>>
  BY <1>3, <1>4, <1>5 DEF RulesStep
<1>6. CASE \E fr, st, clk : \E meet \in SUBSET Seat : Hears(fr, st, meet, clk)
  <2>1. PICK fr, st, clk : \E meet \in SUBSET Seat : Hears(fr, st, meet, clk)
    BY <1>6
  <2>2. PICK meet \in SUBSET Seat : Hears(fr, st, meet, clk)
    BY <2>1
  <2> QED  BY <1>2, <1>3, <1>4, <2>2, HeardByTheRules
<1>7. qualifies \in SUBSET Seat
  BY DEF Inv, Types
<1>8. CASE Hear
  BY <1>6, <1>7, <1>8 DEF Hear
<1>9. CASE PopSpent
  BY <1>5, <1>6, <1>7, <1>9 DEF PopSpent
<1>10. CASE DoStep
  <2>1. PICK meet \in Changes : \E st : Hears(frames, st, meet, clock)
    BY <1>10 DEF DoStep
  <2> QED  BY <1>6, <2>1, ChangesTyped
<1>11. CASE Land
  <2>1. PICK meet \in {qualifies, qualifies \cup {turn.seat}} :
          Hears(frames, stack, meet, clock)
    BY <1>11 DEF Land
  <2>2. todo \in ShowAhead
    BY <1>11, At DEF Land, ShowAhead, Inv, Types
  <2>3. turn.seat \in Seat
    BY <1>2, <2>2 DEF Inv, OnItsWay, Types, Seat, NoSeat
  <2> QED  BY <1>6, <1>7, <2>1, <2>3
<1>12. CASE EndTurn
  BY <1>6, <1>7, <1>12 DEF EndTurn
<1> QED  BY <1>4, <1>8, <1>9, <1>10, <1>11, <1>12

LEMMA NextByTheRules ==
  ASSUME Inv, NoSeatNoPoints, [Next]_vars PROVE RulesStep /\ NoSeatNoPoints'
<1>1. CASE StartTurn
  BY <1>1, StartTurnByTheRules
<1>2. CASE Forfeit \/ DrawCard \/ Play
  BY <1>2, DrainByTheRules
<1>3. CASE Hear \/ PopSpent \/ DoStep \/ Land \/ EndTurn
  BY <1>3, EventsByTheRules
<1>4. CASE \/ SyncClock \/ Resume \/ Push \/ Wake \/ StopRunning \/ AskStep \/ PlayStep
           \/ Show \/ DropRefused \/ DrainStops \/ Settle
           \/ \E kind \in Kind : Enqueue(kind)
  <2>1. UNCHANGED <<phase, winner, turn>>
    BY <1>4 DEF SyncClock, Resume, Push, Wake, StopRunning, AskStep, PlayStep, Show,
       DropRefused, DrainStops, Settle, SettleQuestion, SettleOutcome, Enqueue, board
  <2> QED  BY <2>1 DEF RulesStep, NoSeatNoPoints
<1>5. CASE Start
  <2>1. Rules!Begin
    BY <1>5 DEF Start, Rules!Begin
  <2>2. turn' = turn
    BY <1>5 DEF Start
  <2> QED  BY <2>1, <2>2 DEF RulesStep, Rules!RulesNext, NoSeatNoPoints
<1>6. CASE TurnLapse
  <2>1. /\ Playing /\ turn'.seat = turn.seat /\ turn'.points = 0
        /\ UNCHANGED <<phase, winner>> /\ turn.points \in Nat
    BY <1>6 DEF TurnLapse, board, Inv, Types
  <2>2. CASE turn.points = 0
    BY <2>1, <2>2 DEF RulesStep, NoSeatNoPoints
  <2>3. CASE turn.points > 0
    <3>1. Rules!LetGo
      BY <2>1, <2>3 DEF Rules!LetGo, Playing
    <3> QED  BY <2>1, <3>1 DEF RulesStep, Rules!RulesNext, NoSeatNoPoints
  <2> QED  BY <2>1, <2>2, <2>3
<1>7. CASE UNCHANGED vars
  BY <1>7 DEF vars, RulesStep, NoSeatNoPoints
<1> QED  BY <1>1, <1>2, <1>3, <1>4, <1>5, <1>6, <1>7 DEF Next, Cascade

(* The turn manager and the engine play the game of GameRules: a budget is  *)
(* spent point by point and never handed back, a seat has its turn when the *)
(* one before it has nothing left, none is skipped, and one seat wins, once *)
(* (startNextTurn, spendPoints and endTurn of turn-manager.ts, conclude of  *)
(* game-engine.ts).                                                         *)
THEOREM KeepsTheRules == Spec => Rules!RulesSpec
<1>1. Init => Rules!RulesInit /\ NoSeatNoPoints
  BY DEF Init, Rules!RulesInit, NoSeat, NoSeatNoPoints
<1>2. Inv /\ NoSeatNoPoints /\ [Next]_vars =>
        NoSeatNoPoints' /\ [Rules!RulesNext]_(Rules!rulesVars)
  BY NextByTheRules DEF RulesStep, Rules!rulesVars
<1> QED  BY <1>1, <1>2, Invariant, PTL DEF Spec, Rules!RulesSpec

=============================================================================
