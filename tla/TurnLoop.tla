------------------------------- MODULE TurnLoop -------------------------------
(***************************************************************************)
(* Turns, their clock and the end of the game: TurnManager, GameEngine and  *)
(* the order in which the listeners of one event act                        *)
(* (server/src/game/pipelines/turn-manager.ts, server/src/game/             *)
(* game-engine.ts, the wiring in server/src/game/setup/create-game.ts).     *)
(*                                                                         *)
(* The reaction core is held to what these two read of it: which frames     *)
(* stand, whether a frame could still be rolled back, what is on the stack  *)
(* of pipelines, and which seats meet a win condition.  Module Reactions    *)
(* models the core itself.                                                  *)
(*                                                                         *)
(* Everything one command sets off runs to its end before the next command  *)
(* or timer.  `todo` is that cascade: what is still to be done, innermost   *)
(* call first.  A command, a settling window or the turn clock may only     *)
(* act when it is empty.                                                    *)
(***************************************************************************)
EXTENDS Integers, Sequences, FiniteSets

CONSTANTS
    Seats,      \* how many; they play in the order 1, 2, ...
    Budget,     \* action points of a turn
    Timed,      \* whether the table has a turn clock
    MaxQueue,   \* bound: actions waiting in the queue
    MaxRuns,    \* bound: ability pipelines one turn sets off
    MaxSteps    \* bound: steps of a pipeline

Seat == 1..Seats
NoSeat == 0
NoFrame == 0

ASSUME ConstantsAssumption ==
    /\ Seats \in Nat \ {0}
    /\ Budget \in Nat \ {0}
    /\ Timed \in BOOLEAN
    /\ MaxQueue \in Nat /\ MaxRuns \in Nat
    /\ MaxSteps \in Nat \ {0}

VARIABLES
    phase,      \* GamePhase of the board
    winner,
    turn,       \* TurnPhase, whose turn it is, the points that seat has left
    queue,      \* actionQueue: non-reactable actions waiting for an idle board
    clock,      \* whether the turn has time left to count, and is counting it
    frames,     \* open frames, numbered in the order they opened
    stack,      \* ability pipelines, the last on top
    qualifies,  \* seats whose party meets the win conditions
    resolved,   \* the frame FrameResolved is being announced for
    runs,       \* pipelines this turn may still set off
    todo

board == <<phase, winner, frames, stack, qualifies>>
vars == <<phase, winner, turn, queue, clock, frames, stack, qualifies,
          resolved, runs, todo>>

Kind == {"play", "draw", "endTurn"}    \* "play" is the reactable one
Step == {"next", "sync", "drain", "resume", "push", "tasks", "hear", "wake",
         "clock", "land", "show"}

(* FrameResolved, heard in the order the listeners were registered:         *)
(* TurnManager, TaskManager, GameEngine.  Slip: the engine is registered    *)
(* before the task manager.                                                 *)
SlipFrameResolved == <<"clock", "hear", "resume", "wake", "tasks">>

FrameResolved == <<"clock", "wake", "tasks", "hear", "resume">>

NextSeat(s) == (s % Seats) + 1
IsNewest(n, S) == n \in S \cup {0} /\ \A m \in S : m <= n
Without(f, S) == [x \in DOMAIN f \ S |-> f[x]]

-----------------------------------------------------------------------------
(* What the turn manager and the engine read of the board *)

HasOpenFrames == \E f \in DOMAIN frames : frames[f].open

(* Slip: the windows are not read, only the stack. *)
SlipIsBusy == stack # <<>>

IsBusy == HasOpenFrames \/ stack # <<>>

(* Slip: a frame that has no window yet holds nothing back. *)
SlipHasPendingOutcome(fr) ==
    \E f \in DOMAIN fr : fr[f].open /\ fr[f].restoring

(* Slip: a question holds the end of the game back as well. *)
SlipHasPendingQuestion(fr) == DOMAIN fr # {}

(* A frame that may still be rolled back, or that has nothing open yet. *)
HasPendingOutcome(fr) ==
    \E f \in DOMAIN fr : fr[f].restoring \/ ~fr[f].open

Quiet == todo = <<>>
Playing == phase = "Turns"

Stopped == [timed |-> FALSE, running |-> FALSE]

(* Slip: the opening of a window is not heard. *)
SlipPaused(clk) == clk

Paused(clk) == [clk EXCEPT !.running = FALSE]

(* Slip: a clock that was paused is left paused. *)
SlipSynced(open) == IF open THEN Paused(clock) ELSE clock

Synced(open) ==
    [clock EXCEPT !.running =
        ~open /\ (@ \/ (clock.timed /\ turn.phase = "Action"))]

(* GameEngine hears an event with the board in this state: the first seat   *)
(* that meets the win conditions ends the game, unless an outcome pends.    *)
(* Concluding closes every window and drops the pipelines.                  *)
Hears(fr, st, meet, clk) ==
    /\ qualifies' = meet
    /\ IF Playing /\ ~HasPendingOutcome(fr) /\ meet # {}
       THEN /\ phase' = "Concluded"
            /\ winner' \in {s \in meet : \A r \in meet : s <= r}
            /\ clock' = Stopped
            /\ frames' = [f \in {} |-> {}]
            /\ stack' = <<>>
       ELSE /\ UNCHANGED <<phase, winner>>
            /\ clock' = clk /\ frames' = fr /\ stack' = st

-----------------------------------------------------------------------------
(* The cascade.  Does(step) takes the step off `todo`. *)

Does(step) == todo # <<>> /\ Head(todo) = step
Then(steps) == todo' = steps \o Tail(todo)

(* startNextTurn, heard on TurnEnded; the clock is set, not yet running. *)
StartTurn ==
    /\ Does("next")
    /\ IF phase = "Concluded"
       THEN Then(<<>>) /\ UNCHANGED <<board, turn, clock, runs>>
       ELSE /\ turn' = [phase |-> "Action", seat |-> NextSeat(turn.seat),
                        points |-> Budget]
            /\ runs' = MaxRuns
            /\ Then(<<"sync">>)
            /\ Hears(frames, stack, qualifies,
                     [timed |-> Timed, running |-> FALSE])
    /\ UNCHANGED <<queue, resolved>>

SyncClock ==
    /\ Does("sync") \/ Does("clock")
    /\ clock' = Synced(HasOpenFrames)
    /\ Then(<<>>)
    /\ UNCHANGED <<board, turn, queue, resolved, runs>>

(* Slip: the drain is resumed although the game has just ended. *)
SlipResume ==
    /\ Does("resume")
    /\ Then(<<"drain">>)
    /\ UNCHANGED <<board, turn, queue, clock, resolved, runs>>

(* GameEngine calls resumeDrain on FrameResolved, unless the game is over. *)
Resume ==
    /\ Does("resume")
    /\ Then(IF phase = "Concluded" THEN <<>> ELSE <<"drain">>)
    /\ UNCHANGED <<board, turn, queue, clock, resolved, runs>>

Hear ==
    /\ Does("hear")
    /\ Then(<<>>)
    /\ Hears(frames, stack, qualifies, clock)
    /\ UNCHANGED <<turn, queue, resolved, runs>>

(* A pipeline an event sets off; none once the game is over.  `asks` is a   *)
(* pipeline that starts with a question.                                    *)
Pushed(st, asks) ==
    {st} \cup
    (IF runs > 0 /\ phase # "Concluded"
     THEN {Append(st, [steps |-> n, on |-> NoFrame, asks |-> asks]) :
              n \in 1..MaxSteps}
     ELSE {})

Push ==
    /\ Does("push")
    /\ Then(<<>>)
    /\ stack' \in Pushed(stack, FALSE)
    /\ runs' = runs - (Len(stack') - Len(stack))
    /\ UNCHANGED <<phase, winner, frames, qualifies, turn, queue, clock,
                   resolved>>

(* FrameResolved in TaskManager: what was parked on the frame wakes, and    *)
(* what the event matches goes on top of it.                                *)
Wake ==
    /\ Does("wake")
    /\ Then(<<>>)
    /\ LET woken == [i \in DOMAIN stack |->
                        [stack[i] EXCEPT !.on =
                            IF @ = resolved THEN NoFrame ELSE @]]
       IN stack' \in Pushed(woken, FALSE)
    /\ runs' = runs - (Len(stack') - Len(stack))
    /\ resolved' = NoFrame
    /\ UNCHANGED <<phase, winner, frames, qualifies, turn, queue, clock>>

-----------------------------------------------------------------------------
(* Steps of the pipeline on top *)

Top == stack[Len(stack)]
OnTop(pipeline) == [stack EXCEPT ![Len(stack)] = pipeline]
MayRun == stack # <<>> /\ Top.on = NoFrame

Fresh == {n + 1 : n \in {m \in DOMAIN frames \cup {0, resolved} :
                            IsNewest(m, DOMAIN frames \cup {resolved})}}

Opened(f, restoring, open) ==
    [g \in DOMAIN frames \cup {f} |->
        IF g = f THEN [restoring |-> restoring, open |-> open,
                       before |-> qualifies]
        ELSE frames[g]]

(* What was parked on a frame that went back goes with it. *)
Unparked(st, f) ==
    LET left[n \in 0..Len(st)] ==
            IF n = 0 THEN <<>>
            ELSE IF st[n].on = f THEN left[n - 1]
            ELSE Append(left[n - 1], st[n])
    IN left[Len(st)]

(* A step may bring a seat to, or take it from, what the conditions ask. *)
Changes ==
    {qualifies} \cup {qualifies \cup {s} : s \in Seat}
                \cup {qualifies \ {s} : s \in Seat}

(* The top pipeline is parked, or there is none: the runner stops. *)
StopRunning ==
    /\ Does("tasks") /\ ~MayRun
    /\ Then(<<>>)
    /\ UNCHANGED <<board, turn, queue, clock, resolved, runs>>

(* Its AbilityDone goes out if nothing else runs for the card. *)
PopSpent ==
    /\ Does("tasks") /\ MayRun /\ Top.steps = 0
    /\ LET rest == SubSeq(stack, 1, Len(stack) - 1) IN
       \/ Hears(frames, rest, qualifies, clock)
       \/ stack' = rest /\ UNCHANGED <<phase, winner, frames, qualifies, clock>>
    /\ UNCHANGED <<turn, queue, resolved, runs, todo>>

(* A step that changes the board and announces it; the event may set off    *)
(* another pipeline, which the loop already running will reach.             *)
DoStep ==
    /\ Does("tasks") /\ MayRun /\ Top.steps > 0 /\ ~Top.asks
    /\ LET st == OnTop([Top EXCEPT !.steps = @ - 1]) IN
       \E meet \in Changes, st2 \in Pushed(st, FALSE) :
          /\ Hears(frames, st2, meet, clock)
          /\ runs' = runs - (Len(st2) - Len(st))
    /\ UNCHANGED <<turn, queue, resolved, todo>>

(* The window announces itself before its frame holds it: the engine finds  *)
(* an outcome pending then and asks nothing.                                *)
AskStep ==
    /\ Does("tasks") /\ MayRun /\ Top.steps > 0
    /\ \E f \in Fresh :
          /\ frames' = Opened(f, FALSE, TRUE)
          /\ stack' = OnTop([steps |-> Top.steps - 1, on |-> f, asks |-> FALSE])
    /\ clock' = Paused(clock)
    /\ Then(<<>>)
    /\ UNCHANGED <<phase, winner, qualifies, turn, queue, resolved, runs>>

(* A step that plays a card or rolls: a frame that may be rolled back. *)
PlayStep ==
    /\ Does("tasks") /\ MayRun /\ Top.steps > 0 /\ ~Top.asks
    /\ \E f \in Fresh :
          /\ frames' = Opened(f, TRUE, FALSE)
          /\ stack' = OnTop([steps |-> Top.steps - 1, on |-> f, asks |-> FALSE])
    /\ Then(<<"land", "show">>)
    /\ UNCHANGED <<phase, winner, qualifies, turn, queue, clock, resolved, runs>>

(* playHero: the card stands in the party before the window is asked for. *)
Land ==
    /\ Does("land")
    /\ Then(<<>>)
    /\ \E meet \in {qualifies, qualifies \cup {turn.seat}} :
          Hears(frames, stack, meet, clock)
    /\ UNCHANGED <<turn, queue, resolved, runs>>

Show ==
    /\ Does("show")
    /\ Then(<<>>)
    /\ frames' = [f \in DOMAIN frames |-> [frames[f] EXCEPT !.open = TRUE]]
    /\ clock' = Paused(clock)
    /\ UNCHANGED <<phase, winner, stack, qualifies, turn, queue, resolved, runs>>

-----------------------------------------------------------------------------
(* The drain *)

CanExecute(kind) == kind = "endTurn" \/ turn.points > 0

DropRefused ==
    /\ Does("drain") /\ queue # <<>> /\ ~IsBusy /\ ~CanExecute(Head(queue))
    /\ queue' = Tail(queue)
    /\ UNCHANGED <<board, turn, clock, resolved, runs, todo>>

(* A pass forfeits the budget. *)
Forfeit ==
    /\ Does("drain") /\ queue # <<>> /\ ~IsBusy /\ Head(queue) = "endTurn"
    /\ queue' = Tail(queue)
    /\ turn' = [turn EXCEPT !.points = 0]
    /\ UNCHANGED <<board, clock, resolved, runs, todo>>

(* Whatever a draw sets off starts with a question. *)
DrawCard ==
    /\ Does("drain") /\ queue # <<>> /\ ~IsBusy /\ Head(queue) = "draw"
    /\ CanExecute("draw")
    /\ queue' = Tail(queue)
    /\ turn' = [turn EXCEPT !.points = @ - 1]
    /\ stack' \in Pushed(stack, TRUE)
    /\ runs' = runs - (Len(stack') - Len(stack))
    /\ todo' = <<"tasks", "hear">> \o todo
    /\ UNCHANGED <<phase, winner, frames, qualifies, clock, resolved>>

Play ==
    /\ Does("drain") /\ queue # <<>> /\ ~IsBusy /\ Head(queue) = "play"
    /\ CanExecute("play")
    /\ queue' = Tail(queue)
    /\ turn' = [turn EXCEPT !.points = @ - 1]
    /\ \E f \in Fresh : frames' = Opened(f, TRUE, FALSE)
    /\ todo' = <<"land", "show">> \o todo
    /\ UNCHANGED <<phase, winner, stack, qualifies, clock, resolved, runs>>

(* Nothing more to do now: the turn goes on, unless its budget is spent. *)
DrainStops ==
    /\ Does("drain")
    /\ IsBusy \/ (queue = <<>> /\ turn.points > 0)
    /\ Then(<<>>)
    /\ UNCHANGED <<board, turn, queue, clock, resolved, runs>>

EndTurn ==
    /\ Does("drain") /\ queue = <<>> /\ turn.points = 0 /\ ~IsBusy
    /\ turn' = [turn EXCEPT !.phase = "End"]
    /\ Hears(frames, stack, qualifies, Stopped)
    /\ Then(<<"next">>)
    /\ UNCHANGED <<queue, resolved, runs>>

-----------------------------------------------------------------------------
(* Commands and timers *)

(* GameEngine.start *)
Start ==
    /\ phase = "Setup"
    /\ phase' = "Turns"
    /\ todo' = <<"next">>
    /\ UNCHANGED <<winner, frames, stack, qualifies, turn, queue, clock,
                   resolved, runs>>

(* Only a reactable action is refused on a busy board; the rest queue. *)
Enqueue(kind) ==
    /\ Quiet /\ Playing /\ turn.phase = "Action"
    /\ kind = "play" => ~IsBusy
    /\ CanExecute(kind)
    /\ Len(queue) < MaxQueue
    /\ queue' = Append(queue, kind)
    /\ todo' = <<"drain">>
    /\ UNCHANGED <<board, turn, clock, resolved, runs>>

Announced == <<"push", "tasks", "hear">> \o FrameResolved

(* A question is answered or lapses: its frame goes, its close is heard, a  *)
(* yes is announced, and only then the frame.                               *)
SettleQuestion(f) ==
    /\ Quiet /\ f \in DOMAIN frames /\ ~frames[f].restoring
    /\ frames' = Without(frames, {f})
    /\ resolved' = f
    /\ todo' \in {<<"hear">> \o FrameResolved, <<"hear">> \o Announced}
    /\ UNCHANGED <<phase, winner, stack, qualifies, turn, queue, clock, runs>>

(* A contest, roll or attack: the outcome holds, and may slay a monster, or *)
(* the board goes back and what was parked on the frame goes with it.       *)
SettleOutcome(f) ==
    /\ Quiet /\ f \in DOMAIN frames /\ frames[f].restoring
    /\ \A g \in DOMAIN frames : g <= f
    /\ frames' = Without(frames, {f})
    /\ resolved' = f
    /\ \/ /\ UNCHANGED <<stack, qualifies>>
          /\ todo' \in {FrameResolved, Announced}
       \/ /\ qualifies' = qualifies \cup {turn.seat}
          /\ UNCHANGED stack
          /\ todo' = Announced
       \/ /\ qualifies' = frames[f].before
          /\ stack' = Unparked(stack, f)
          /\ todo' \in {FrameResolved, Announced}
    /\ UNCHANGED <<phase, winner, turn, queue, clock, runs>>

(* The turn clock runs out: the rest of the budget is forfeited.  On a busy *)
(* board the code throws.                                                   *)
TurnLapse ==
    /\ Quiet /\ clock.running /\ turn.phase = "Action" /\ Playing
    /\ ~IsBusy
    /\ clock' = Paused(clock)
    /\ turn' = [turn EXCEPT !.points = 0]
    /\ todo' = <<"drain">>
    /\ UNCHANGED <<board, queue, resolved, runs>>

-----------------------------------------------------------------------------
Init ==
    /\ phase = "Setup" /\ winner = NoSeat
    /\ turn = [phase |-> "Start", seat |-> NoSeat, points |-> 0]
    /\ queue = <<>> /\ clock = Stopped
    /\ frames = [f \in {} |-> {}] /\ stack = <<>> /\ qualifies = {}
    /\ resolved = NoFrame /\ runs = 0 /\ todo = <<>>

Cascade ==
    \/ StartTurn \/ SyncClock \/ Resume \/ Hear \/ Push \/ Wake
    \/ StopRunning \/ PopSpent \/ DoStep \/ AskStep \/ PlayStep
    \/ Land \/ Show
    \/ DropRefused \/ Forfeit \/ DrawCard \/ Play \/ DrainStops \/ EndTurn

Settle == \E f \in DOMAIN frames : SettleQuestion(f) \/ SettleOutcome(f)

Next ==
    \/ Cascade \/ Start \/ Settle \/ TurnLapse
    \/ \E kind \in Kind : Enqueue(kind)

(* The code goes on by itself, every window's clock runs out, and so does   *)
(* the turn's.                                                              *)
Fairness == WF_vars(Start) /\ WF_vars(Cascade) /\ WF_vars(Settle)
                /\ WF_vars(TurnLapse)

Spec == Init /\ [][Next]_vars
FairSpec == Spec /\ Fairness

-----------------------------------------------------------------------------
(* The throw in lapse() is never reached: when the turn clock can run out   *)
(* no window is open and no ability is half way through.                    *)
LapseFindsIdleBoard == Quiet /\ clock.running => ~IsBusy

(* Between commands a game that is on is waiting for somebody: for a window *)
(* to settle, or for the seat whose turn it is, who then has points to      *)
(* spend, nothing left in the queue, and a clock that runs if there is one. *)
TurnGoesOn ==
    Quiet /\ Playing =>
        /\ turn.phase = "Action"
        /\ \/ HasOpenFrames
           \/ /\ stack = <<>> /\ queue = <<>> /\ turn.points > 0
              /\ Timed => clock.running

(* A seat that meets the conditions when nothing can be rolled back any     *)
(* more has won: no command is taken before the engine noticed.             *)
WinIsNoticed ==
    Quiet /\ Playing /\ qualifies # {} =>
        \E f \in DOMAIN frames : frames[f].restoring

(* The game never ends on a board that could still have been rolled back to *)
(* one where the winner had not won.                                        *)
WinIsFinal ==
    [][phase' = "Concluded" /\ phase # "Concluded" =>
        /\ winner' \in qualifies'
        /\ \A f \in DOMAIN frames :
              frames[f].restoring => winner' \in frames[f].before]_vars

(* An action that waits in the queue is run or dropped in the turn that     *)
(* asked for it: the next seat begins with an idle board and a fresh budget.*)
TurnBeginsClean ==
    [][turn'.seat # turn.seat =>
        /\ queue = <<>> /\ frames = [f \in {} |-> {}] /\ stack = <<>>
        /\ turn.seat = NoSeat \/ turn.points = 0]_vars

(* Whatever the cascade still had to do, nothing moves on a finished table. *)
NothingAfterTheEnd ==
    [][phase = "Concluded" =>
        UNCHANGED <<phase, winner, turn, clock, frames, stack, qualifies,
                    runs>>]_vars

(* At a table with a turn clock nobody can hold up the game: every turn     *)
(* comes to its end, or the game does.                                      *)
TurnPasses ==
    \A s \in Seat : Playing /\ turn.seat = s ~>
                        (phase = "Concluded" \/ turn.seat # s)

=============================================================================
