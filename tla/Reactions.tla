------------------------------ MODULE Reactions ------------------------------
(***************************************************************************)
(* The reaction core of the game engine: frames, the windows standing in    *)
(* them, the stack of ability pipelines, and the board they act on          *)
(* (server/src/game/pipelines/game-state.ts, reaction-manager.ts,           *)
(* task-manager.ts, and the windows, tasks and actions that drive them).    *)
(*                                                                         *)
(* The engine runs on one thread.  A command, or a timer, is one external   *)
(* step taken while the engine is Quiet; what it sets off synchronously is  *)
(* a run of internal steps (RunStep, Announce) that nothing external can    *)
(* interrupt.  Windows stay open between external steps, so what            *)
(* interleaves is the players and the clocks, over several open windows.    *)
(*                                                                         *)
(* A roll is held as its MARGIN: the standing total minus what it needs     *)
(* (the hero's or monster's requirement, or the challenger's total).  The   *)
(* order of cards inside a pile is left out: a draw takes any card.         *)
(***************************************************************************)
EXTENDS Integers, Sequences, FiniteSets

CONSTANTS
    Player,             \* seats
    Hero, TargetHero,   \* hero cards; those whose effect destroys a target
    Magic, Modifier, Challenge,  \* the other cards of the main deck
    Monster,            \* monster cards
    Serpent, Bloodwing, \* the two monsters with an ability on reactions
    Horn, HornSeat,     \* the Protecting Horn, a leader; the seats it leads
    ModifierValue,      \* what a modifier can be worth
    Margin,             \* what the dice can make of a roll, against its need
    FightBack,          \* a monster strikes back this far below its need
    PartyNeed,          \* heroes a party fields to attack a monster
    Budget, HandLimit,  \* action points of a turn; cards a hand holds
    NextSeat,           \* playerOrder, as a function
    InitBoards          \* the boards a run starts from

Card == Hero \cup Magic \cup Modifier \cup Challenge
Source == Card \cup Monster \cup {Serpent, Bloodwing, Horn}
HornValue == {1, -1}
StepName == {"Apply", "Start", "AskValue", "AskDraw", "Draw", "AskHand",
             "Discard", "AskAnyHero", "AskOwnHero", "Land", "Destroy",
             "Sacrifice", "AskRoll", "Roll", "Dispose"}

(* What a rollback restores. `discard` counts copies: a card put away twice *)
(* is visible in it.                                                        *)
Board == [hand : [Player -> SUBSET Card], instance : [Player -> SUBSET Card],
          heroes : [Player -> SUBSET Card], slain : [Player -> SUBSET Monster],
          deck : SUBSET Card, discard : [Card -> Nat],
          row : SUBSET Monster, monsterDeck : SUBSET Monster,
          points : [Player -> Nat], current : Player,
          used : SUBSET Card, challenged : SUBSET Card]

Standing == {"roll", "attack", "challenge"}   \* windows a modifier can enter
Question == {"value", "card", "confirm"}      \* windows one seat answers

WindowType == [kind : Standing \cup Question, by : Player, about : Source,
               margin : Int, rival : SUBSET Player, passes : SUBSET Player,
               asked : BOOLEAN, aimed : BOOLEAN, target : SUBSET Card,
               offers : SUBSET Card, silent : Int]

PipelineType == [card : Source, owner : Player, steps : Seq(StepName),
                 on : Nat, system : BOOLEAN, seat : Player, value : Int,
                 fed : BOOLEAN, pick : SUBSET Card]

AnswerType == [slot : {"none", "value", "pick"}, value : Int,
               pick : SUBSET Card]

ASSUME ConstantsAssumption ==
    /\ TargetHero \subseteq Hero
    /\ HornSeat \subseteq Player
    /\ ModifierValue \subseteq Int
    /\ Margin \subseteq Int
    /\ FightBack \in Nat \ {0}
    /\ Budget \in Nat
    /\ NextSeat \in [Player -> Player]
    /\ \A p \in Player : NextSeat[p] # p
    /\ InitBoards \subseteq Board

VARIABLES
    board,      \* the GameState, without the two maps below
    frames,     \* open frames, numbered in the order they opened
    stack,      \* ability pipelines, the highest number on top
    settled     \* the frame whose FrameResolved has still to be announced

vars == <<board, frames, stack, settled>>

NoFrame == 0
NoAnswer == [slot |-> "none", value |-> 0, pick |-> {}]
Nothing == [frame |-> NoFrame, cards |-> {}, answer |-> NoAnswer]

(* n is the newest number of S, or 0 when S is empty. *)
IsNewest(n, S) == n \in S \cup {0} /\ \A m \in S : m <= n

-----------------------------------------------------------------------------
(* Windows and pipelines *)

Window(kind, by, about) ==
    [kind |-> kind, by |-> by, about |-> about, margin |-> 0, rival |-> {},
     passes |-> {}, asked |-> FALSE, aimed |-> FALSE, target |-> {},
     offers |-> {}, silent |-> 0]

(* ctx.ownerId is `owner`; `seat` is the other player a context may name,   *)
(* a modifier's target or the chosen player; `value` and `pick` are the     *)
(* slots choices are written to, `fed` whether `pick` was ever written.     *)
Pipeline(card, owner, steps) ==
    [card |-> card, owner |-> owner, steps |-> steps, on |-> NoFrame,
     system |-> FALSE, seat |-> owner, value |-> 0, fed |-> FALSE,
     pick |-> {}]

(* The stack `st` with the pipelines `run` on top of number t, the first of *)
(* them topmost.                                                            *)
Pushed(st, t, run) ==
    [i \in DOMAIN st \cup (t + 1)..(t + Len(run)) |->
        IF i > t THEN run[t + Len(run) + 1 - i] ELSE st[i]]

Without(f, S) == [x \in DOMAIN f \ S |-> f[x]]

Opened(f, win) ==
    [g \in DOMAIN frames \cup {f} |->
        IF g = f THEN [snap |-> board, win |-> win] ELSE frames[g]]

-----------------------------------------------------------------------------
(* The board *)

PutAway(b, cards) ==
    [b EXCEPT !.discard =
        [c \in Card |-> b.discard[c] + IF c \in cards THEN 1 ELSE 0]]

(* drawFromMainDeck: the last card out runs the discard pile back in. *)
Refilled(b) ==
    IF b.deck = {}
    THEN [b EXCEPT !.deck = {c \in Card : b.discard[c] > 0},
                   !.discard = [c \in Card |-> 0]]
    ELSE b

Drawn(b, p) ==
    IF b.deck = {}
    THEN {Refilled(b)}
    ELSE {Refilled([b EXCEPT !.deck = @ \ {c},
                             !.hand[p] = @ \cup {c}]) : c \in b.deck}

Discarded(b, p, cards) ==
    PutAway([b EXCEPT !.hand[p] = @ \ cards], cards \cap b.hand[p])

RemovedHeroes(b, cards) ==
    PutAway([b EXCEPT !.heroes = [p \in Player |-> b.heroes[p] \ cards]],
            cards \cap UNION {b.heroes[p] : p \in Player})

(* Everything that entered an instance pile inside the frame, except the    *)
(* card the frame is about.                                                 *)
SubjectOf(win) == IF win.kind = "challenge" THEN {win.about} ELSE {}

Spent(f) ==
    [p \in Player |-> (board.instance[p] \ frames[f].snap.instance[p])
                         \ SubjectOf(frames[f].win)]

AllSpent(f) == UNION {Spent(f)[p] : p \in Player}

Released(f) ==
    PutAway([board EXCEPT !.instance =
                [p \in Player |-> board.instance[p] \ Spent(f)[p]]],
            AllSpent(f))

Restored(f) ==
    LET snap == frames[f].snap
    IN  PutAway([snap EXCEPT !.hand =
                    [p \in Player |-> snap.hand[p] \ Spent(f)[p]]],
                AllSpent(f))

(* Slip: a card is disposed of when its ability ends, frame or no frame. *)
SlipIsSpentInOpenFrame(c) == FALSE

IsSpentInOpenFrame(c) == \E f \in DOMAIN frames : c \in AllSpent(f)

-----------------------------------------------------------------------------
(* When the engine may do what *)

IsTop(t) == t \in DOMAIN stack /\ IsNewest(t, DOMAIN stack)
IsRunnable(t) == IsTop(t) /\ stack[t].on = NoFrame
Running == \E t \in DOMAIN stack : IsRunnable(t)

(* Nothing is left to run until a player or a clock acts. *)
Quiet == ~Running /\ settled = Nothing

IsBusy == DOMAIN frames # {} \/ DOMAIN stack # {}
Idle == Quiet /\ ~IsBusy

IsStanding(f) == f \in DOMAIN frames /\ frames[f].win.kind \in Standing
IsQuestion(f) == f \in DOMAIN frames /\ frames[f].win.kind \in Question

(* Slip: a roll settles without looking at the questions over it. *)
SlipHasOpenFramesAfter(f) == FALSE

(* Slip: only a question about a card keeps the roll under it open. *)
SlipCardQuestionsAfter(f) ==
    \E g \in DOMAIN frames : g > f /\ frames[g].win.kind = "card"

(* Slip: the frame counts itself among those opened after it. *)
SlipCountsItself(f) == \E g \in DOMAIN frames : g >= f

HasOpenFramesAfter(f) == \E g \in DOMAIN frames : g > f

AcceptsModifierFor(f, seat) ==
    LET win == frames[f].win IN
    IF win.kind = "challenge"
    THEN win.rival # {} /\ seat \in {win.by} \cup win.rival
    ELSE seat = win.by

CanPass(win, p) ==
    \/ win.kind \in {"roll", "attack"}
    \/ win.kind = "challenge" /\ (win.rival # {} \/ p # win.by)

ValueBias(f, owner, seat) ==
    LET win == frames[f].win
        high == IF win.kind = "challenge" THEN seat # win.by ELSE seat = owner
    IN  IF high THEN 1 ELSE -1

-----------------------------------------------------------------------------
(* Which abilities an event sets off: the entries of the cards in play *)

(* RollPassing: a hero with a target asks for it while its roll stands. *)
RollPassingRuns(b, h) ==
    IF h \in TargetHero /\ \E p \in Player : h \in b.heroes[p]
    THEN {<<Pipeline(h, p, <<"AskAnyHero", "Land">>)>> :
              p \in {q \in Player : h \in b.heroes[q]}}
    ELSE {<<>>}

(* RollSuccess: the effect itself, its context seeded with the target. *)
RollSuccessRuns(b, win) ==
    IF win.about \in TargetHero /\ \E p \in Player : win.about \in b.heroes[p]
    THEN {<<[Pipeline(win.about, p, <<"Destroy">>)
              EXCEPT !.fed = win.aimed, !.pick = win.target]>> :
              p \in {q \in Player : win.about \in b.heroes[q]}}
    ELSE {<<>>}

(* ModifierPlayed: the card's own entry first, then whoever watches it.     *)
(* Seats are not ordered here, so the watchers may come either way round.   *)
ModifierPlayedRuns(p, c, v, seat) ==
    LET own  == <<[Pipeline(c, p, <<"Apply">>)
                     EXCEPT !.seat = seat, !.value = v]>>
        blown == IF p \in HornSeat
                 THEN <<[Pipeline(Horn, p, <<"AskValue", "Apply">>)
                           EXCEPT !.seat = seat, !.value = v]>>
                 ELSE <<>>
        holders == {q \in Player : Serpent \in board.slain[q]}
        serpents == IF holders = {} THEN {<<>>}
                    ELSE {<<Pipeline(Serpent, q, <<"AskDraw">>)>> : q \in holders}
    IN  UNION {{own \o blown \o s, own \o s \o blown} : s \in serpents}

(* ChallengePlayed: the contest starts, then Bloodwing makes the challenger *)
(* discard.                                                                 *)
ChallengePlayedRuns(p, c, defender) ==
    <<Pipeline(c, p, <<"Start">>)>> \o
    IF Bloodwing \in board.slain[defender]
    THEN <<[Pipeline(Bloodwing, defender, <<"AskHand", "Discard">>)
              EXCEPT !.seat = p]>>
    ELSE <<>>

(* FrameResolved naming a card that is in play: a magic card's effect, or   *)
(* the offer to roll on a hero just played (heroRules, a system rule).      *)
FrameResolvedRuns(b, cards) ==
    LET effects == UNION {{<<Pipeline(c, p, <<"AskHand", "Discard",
                                              "AskAnyHero", "Destroy">>)>> :
                     c \in cards \cap b.instance[p] \cap Magic} : p \in Player}
        offers == UNION {{<<[Pipeline(c, p, <<"AskRoll">>)
                               EXCEPT !.system = TRUE]>> :
                     c \in cards \cap b.heroes[p] \cap Hero} : p \in Player}
    IN  IF effects \cup offers = {} THEN {<<>>} ELSE effects \cup offers

-----------------------------------------------------------------------------
(* Settling: what each window does when it resolves.  Every one of them     *)
(* leaves the frame's FrameResolved to be announced.                        *)

Parked(st, f) == {t \in DOMAIN st : st[t].on = f}

SettleUncontested(f) ==
    /\ board' = Released(f)
    /\ stack' = stack
    /\ settled' = [Nothing EXCEPT !.frame = f, !.cards = {frames[f].win.about}]

SettleContest(f) ==
    LET win == frames[f].win IN
    /\ IF win.margin > 0
       THEN /\ board' = [Released(f) EXCEPT !.challenged = @ \cup {win.about}]
            /\ stack' = stack
       ELSE /\ board' = PutAway(Restored(f), {win.about})
            /\ stack' = Without(stack, Parked(stack, f))
    /\ settled' = [Nothing EXCEPT !.frame = f, !.cards = {win.about}]

SettleRoll(f) ==
    LET win == frames[f].win IN
    /\ IF win.margin >= 0
       THEN /\ board' = Released(f)
            /\ \E t \in DOMAIN stack \cup {0} :
                   /\ IsNewest(t, DOMAIN stack)
                   /\ \E run \in RollSuccessRuns(Released(f), win) :
                          stack' = Pushed(stack, t, run)
       ELSE /\ board' = Restored(f)
            /\ stack' = Without(stack, Parked(stack, f))
    /\ settled' = [Nothing EXCEPT !.frame = f]

(* Slip: the row is replenished but the slain monster stays in it. *)
SlipSlain(b, m, p) ==
    {[b EXCEPT !.slain[p] = @ \cup {m}, !.row = @ \cup {n},
               !.monsterDeck = @ \ {n}] : n \in b.monsterDeck}

(* The row is refilled from the monster deck when a monster is slain. *)
Slain(b, m, p) ==
    LET won == [b EXCEPT !.row = @ \ {m}, !.slain[p] = @ \cup {m}] IN
    IF b.monsterDeck = {} THEN {won}
    ELSE {[won EXCEPT !.row = @ \cup {n}, !.monsterDeck = @ \ {n}] :
              n \in b.monsterDeck}

SettleAttack(f) ==
    LET win == frames[f].win
        left == Without(stack, Parked(stack, f))
    IN
    /\ IF win.margin >= 0
       THEN board' \in Slain(Released(f), win.about, win.by) /\ stack' = stack
       ELSE /\ board' = Restored(f)
            /\ IF win.margin <= -FightBack
               THEN \E t \in DOMAIN left \cup {0} :
                      /\ IsNewest(t, DOMAIN left)
                      /\ stack' = Pushed(left, t,
                            <<Pipeline(win.about, win.by,
                                       <<"AskOwnHero", "Sacrifice">>)>>)
               ELSE stack' = left
    /\ settled' = [Nothing EXCEPT !.frame = f]

(* resolve() of a roll, an attack or a challenge: not while a question      *)
(* stands over it.                                                          *)
ResolveStanding(f) ==
    /\ ~HasOpenFramesAfter(f)
    /\ \/ frames[f].win.kind = "roll" /\ SettleRoll(f)
       \/ frames[f].win.kind = "attack" /\ SettleAttack(f)
       \/ /\ frames[f].win.kind = "challenge"
          /\ IF frames[f].win.rival = {}
             THEN SettleUncontested(f) ELSE SettleContest(f)
    /\ frames' = Without(frames, {f})

(* TaskConfirmed, which a confirm's yes announces before FrameResolved.     *)
TaskConfirmedRun(b, win) ==
    IF win.about = Serpent
    THEN <<Pipeline(Serpent, win.by, <<"Draw">>)>>
    ELSE <<[Pipeline(win.about, win.by, <<"Roll">>) EXCEPT !.system = TRUE]>>

InPlay(b, card, p) == card \in b.slain[p] \cup b.heroes[p]

(* resolve() of a choice with the answer `answer`; `yes` for a confirm.     *)
ResolveQuestion(f, answer, yes) ==
    LET win == frames[f].win IN
    /\ frames' = Without(frames, {f})
    /\ board' = Released(f)
    /\ IF yes /\ InPlay(Released(f), win.about, win.by)
       THEN \E t \in DOMAIN stack \cup {0} :
              /\ IsNewest(t, DOMAIN stack)
              /\ stack' = Pushed(stack, t, TaskConfirmedRun(Released(f), win))
       ELSE stack' = stack
    /\ settled' = [frame |-> f, cards |-> {}, answer |-> answer]

ValueAnswer(v) == [NoAnswer EXCEPT !.slot = "value", !.value = v]
CardAnswer(cards) == [NoAnswer EXCEPT !.slot = "pick", !.pick = cards]

-----------------------------------------------------------------------------
(* The step runner: one step of the topmost pipeline, unless it is parked.  *)

Advanced(t) == [stack EXCEPT ![t].steps = Tail(@)]

Takes(t, step) ==
    /\ IsRunnable(t)
    /\ stack[t].steps # <<>>
    /\ Head(stack[t].steps) = step

(* A step that asks something opens a frame and parks its pipeline on it.   *)
(* A number is not used again while its FrameResolved is still to come.     *)
Ask(t, win) ==
    \E n \in DOMAIN frames \cup {0, settled.frame} :
        /\ IsNewest(n, DOMAIN frames \cup {settled.frame})
        /\ frames' = Opened(n + 1, win)
        /\ stack' = [Advanced(t) EXCEPT ![t].on = n + 1]
        /\ UNCHANGED <<board, settled>>

AskHand(t) ==
    /\ Takes(t, "AskHand")
    /\ LET p == stack[t].seat IN
       Ask(t, [Window("card", p, stack[t].card)
                 EXCEPT !.offers = board.hand[p]])

AskAnyHero(t) ==
    /\ Takes(t, "AskAnyHero")
    /\ Ask(t, [Window("card", stack[t].owner, stack[t].card)
                 EXCEPT !.offers = UNION {board.heroes[p] : p \in Player}])

AskOwnHero(t) ==
    /\ Takes(t, "AskOwnHero")
    /\ LET p == stack[t].owner IN
       Ask(t, [Window("card", p, stack[t].card)
                 EXCEPT !.offers = board.heroes[p]])

(* Silence falls the way the open roll says; "highest" when none is open.   *)
AskValue(t) ==
    /\ Takes(t, "AskValue")
    /\ LET run == stack[t] IN
       \E v \in IF \E f \in DOMAIN frames : IsStanding(f)
                THEN {ValueBias(f, run.owner, run.seat) :
                          f \in {g \in DOMAIN frames : IsStanding(g)}}
                ELSE {1} :
           Ask(t, [Window("value", run.owner, run.card) EXCEPT !.silent = v])

Confirm(t) == Ask(t, Window("confirm", stack[t].owner, stack[t].card))
AskDraw(t) == Takes(t, "AskDraw") /\ Confirm(t)
AskRoll(t) == Takes(t, "AskRoll") /\ Confirm(t)

(* A step that changes the board alone. *)
Do(t, step, boards) ==
    /\ Takes(t, step)
    /\ board' \in boards
    /\ stack' = Advanced(t)
    /\ UNCHANGED <<frames, settled>>

Draw(t) == Do(t, "Draw", Drawn(board, stack[t].owner))

(* The three steps below throw when no step ahead of them filled the slot.  *)
Discard(t) ==
    stack[t].fed /\ Do(t, "Discard",
                       {Discarded(board, stack[t].seat, stack[t].pick)})

Destroy(t) ==
    stack[t].fed /\ Do(t, "Destroy", {RemovedHeroes(board, stack[t].pick)})

Sacrifice(t) ==
    stack[t].fed /\ Do(t, "Sacrifice",
       {RemovedHeroes(board, stack[t].pick \cap board.heroes[stack[t].owner])})

(* DisposeInstanceCardTask: a card still committed to an open frame stays.  *)
Dispose(t) ==
    LET run == stack[t]
        gone == {run.card} \cap board.instance[run.owner]
    IN  Do(t, "Dispose",
           {IF gone = {} \/ IsSpentInOpenFrame(run.card) THEN board
            ELSE PutAway([board EXCEPT !.instance[run.owner] = @ \ gone], gone)})

(* StartChallengeTask: both sides roll, unless a contest already began.     *)
Start(t) ==
    /\ Takes(t, "Start")
    /\ \/ \E f \in DOMAIN frames, m \in Margin :
             /\ frames[f].win.kind = "challenge" /\ frames[f].win.rival = {}
             /\ frames' = [frames EXCEPT ![f].win.rival = {stack[t].owner},
                                         ![f].win.margin = m,
                                         ![f].win.passes = {}]
       \/ /\ \A f \in DOMAIN frames :
                 frames[f].win.kind = "challenge" => frames[f].win.rival # {}
          /\ frames' = frames
    /\ stack' = Advanced(t)
    /\ UNCHANGED <<board, settled>>

(* ApplyModifierTask: the bonus lands, everyone gets another look, and a    *)
(* hero roll that stands as a pass for the first time says so.              *)
Apply(t) ==
    LET run == stack[t] IN
    /\ Takes(t, "Apply")
    /\ \/ \E f \in DOMAIN frames :
             /\ IsStanding(f) /\ AcceptsModifierFor(f, run.seat)
             /\ LET win == frames[f].win
                    worth == IF win.kind = "challenge" /\ run.seat # win.by
                             THEN -run.value ELSE run.value
                    passing == /\ win.kind = "roll" /\ ~win.asked
                               /\ win.margin + worth >= 0
                IN  /\ frames' = [frames EXCEPT
                          ![f].win.margin = @ + worth,
                          ![f].win.passes = {},
                          ![f].win.asked = @ \/ passing]
                    /\ \E run2 \in IF passing
                                   THEN RollPassingRuns(board, win.about)
                                   ELSE {<<>>} :
                           stack' = Pushed(Advanced(t), t, run2)
       \/ /\ \A f \in DOMAIN frames :
                 IsStanding(f) => ~AcceptsModifierFor(f, run.seat)
          /\ UNCHANGED frames
          /\ stack' = Advanced(t)
    /\ UNCHANGED <<board, settled>>

(* TargetRollTask: the target is handed to the roll still open, if any. *)
Land(t) ==
    /\ Takes(t, "Land")
    /\ \/ \E f \in DOMAIN frames :
             /\ frames[f].win.kind \in {"roll", "attack"}
             /\ frames' = [frames EXCEPT ![f].win.aimed = TRUE,
                                         ![f].win.target = stack[t].pick,
                                         ![f].win.passes = {}]
       \/ /\ \A f \in DOMAIN frames :
                 frames[f].win.kind \notin {"roll", "attack"}
          /\ UNCHANGED frames
    /\ stack' = Advanced(t)
    /\ UNCHANGED <<board, settled>>

(* A hero roll opens: the mark goes on BEFORE the snapshot.  `st` is the    *)
(* stack under it, `f` the frame's number.                                  *)
RollWindow(p, h, m) ==
    [Window("roll", p, h) EXCEPT !.margin = m, !.asked = m >= 0]

(* Slip: the snapshot is taken before the mark. *)
SlipOpenRoll(b, st, t, f, p, h) ==
    \E m \in Margin :
        /\ board' = [b EXCEPT !.used = @ \cup {h}]
        /\ frames' = [g \in DOMAIN frames \cup {f} |->
                         IF g = f THEN [snap |-> b, win |-> RollWindow(p, h, m)]
                         ELSE frames[g]]
        /\ \E run \in IF m >= 0 THEN RollPassingRuns(b, h) ELSE {<<>>} :
               stack' = Pushed(st, t, run)

OpenRoll(b, st, t, f, p, h) ==
    \E m \in Margin :
        /\ board' = [b EXCEPT !.used = @ \cup {h}]
        /\ frames' = [g \in DOMAIN frames \cup {f} |->
                         IF g = f THEN [snap |-> board', win |-> RollWindow(p, h, m)]
                         ELSE frames[g]]
        /\ \E run \in IF m >= 0 THEN RollPassingRuns(b, h) ELSE {<<>>} :
               stack' = Pushed(st, t, run)

Roll(t) ==
    /\ Takes(t, "Roll")
    /\ \E n \in DOMAIN frames \cup {0, settled.frame} :
         /\ IsNewest(n, DOMAIN frames \cup {settled.frame})
         /\ OpenRoll(board, [Advanced(t) EXCEPT ![t].on = n + 1], t, n + 1,
                     stack[t].owner, stack[t].card)
    /\ UNCHANGED settled

(* A spent pipeline is popped; the last printed one of its card announces   *)
(* AbilityDone, which puts a card of an instance pile up for disposal.      *)
Finish(t) ==
    LET run == stack[t]
        rest == Without(stack, {t})
        done == /\ ~run.system
                /\ \A i \in DOMAIN rest : rest[i].card = run.card => rest[i].system
        holders == {p \in Player : run.card \in board.instance[p]}
    IN
    /\ IsRunnable(t) /\ run.steps = <<>>
    /\ IF done /\ holders # {}
       THEN \E p \in holders :
              stack' = [stack EXCEPT ![t] =
                  [Pipeline(run.card, p, <<"Dispose">>) EXCEPT !.system = TRUE]]
       ELSE stack' = rest
    /\ UNCHANGED <<board, frames, settled>>

RunStep ==
    \E t \in DOMAIN stack :
        \/ AskHand(t) \/ AskAnyHero(t) \/ AskOwnHero(t) \/ AskValue(t)
        \/ AskDraw(t) \/ AskRoll(t) \/ Draw(t) \/ Discard(t) \/ Destroy(t)
        \/ Sacrifice(t) \/ Dispose(t) \/ Start(t) \/ Apply(t) \/ Land(t)
        \/ Roll(t) \/ Finish(t)

(* Slip: only an answer with a value in it wakes what waited for it. *)
SlipWoken(run) ==
    LET answer == settled.answer IN
    IF run.on # settled.frame \/ answer = NoAnswer THEN run
    ELSE [run EXCEPT !.on = NoFrame, !.value = answer.value,
                     !.fed = @ \/ answer.slot = "pick", !.pick = answer.pick]

(* FrameResolved: the pipelines parked on the frame wake with the answer    *)
(* written to their slot, and whatever the event matches goes on top.       *)
Woken(run) ==
    LET answer == settled.answer IN
    IF run.on # settled.frame THEN run
    ELSE [run EXCEPT !.on = NoFrame,
                     !.value = IF answer.slot = "value" THEN answer.value ELSE @,
                     !.fed = @ \/ answer.slot = "pick",
                     !.pick = IF answer.slot = "pick" THEN answer.pick ELSE @]

Announce ==
    /\ settled # Nothing /\ ~Running
    /\ \E t \in DOMAIN stack \cup {0} :
         /\ IsNewest(t, DOMAIN stack)
         /\ \E run \in FrameResolvedRuns(board, settled.cards) :
              stack' = Pushed([i \in DOMAIN stack |-> Woken(stack[i])], t, run)
    /\ settled' = Nothing
    /\ UNCHANGED <<board, frames>>

-----------------------------------------------------------------------------
(* Actions: what the seat whose turn it is may do on an idle board.  The    *)
(* cost is paid, and a played card is out of the hand, BEFORE the snapshot. *)

(* Slip: nobody counts the points. *)
SlipCanSpend(p, cost) == Idle /\ p = board.current

CanSpend(p, cost) == Idle /\ p = board.current /\ board.points[p] >= cost

Paid(p, cost) == [board EXCEPT !.points[p] = @ - cost]

OpenOver(b, win) == frames' = [f \in {1} |-> [snap |-> b, win |-> win]]

(* Slip: the roll is offered when the hero is played, not when the play has *)
(* survived.                                                                *)
SlipPlayHero(p, c) ==
    /\ CanSpend(p, 1) /\ c \in board.hand[p] \cap Hero
    /\ LET paid == [Paid(p, 1) EXCEPT !.hand[p] = @ \ {c}] IN
       /\ board' = [paid EXCEPT !.heroes[p] = @ \cup {c}]
       /\ OpenOver(paid, Window("challenge", p, c))
    /\ stack' = Pushed(stack, 0, <<[Pipeline(c, p, <<"AskRoll">>)
                                      EXCEPT !.system = TRUE]>>)
    /\ UNCHANGED settled

PlayHero(p, c) ==
    /\ CanSpend(p, 1) /\ c \in board.hand[p] \cap Hero
    /\ LET paid == [Paid(p, 1) EXCEPT !.hand[p] = @ \ {c}] IN
       /\ board' = [paid EXCEPT !.heroes[p] = @ \cup {c}]
       /\ OpenOver(paid, Window("challenge", p, c))
    /\ UNCHANGED <<stack, settled>>

PlayMagic(p, c) ==
    /\ CanSpend(p, 1) /\ c \in board.hand[p] \cap Magic
    /\ LET paid == [Paid(p, 1) EXCEPT !.hand[p] = @ \ {c}] IN
       /\ board' = [paid EXCEPT !.instance[p] = @ \cup {c}]
       /\ OpenOver(paid, Window("challenge", p, c))
    /\ UNCHANGED <<stack, settled>>

RollOnHero(p, h) ==
    /\ CanSpend(p, 1) /\ h \in board.heroes[p] \ board.used
    /\ OpenRoll(Paid(p, 1), stack, 0, 1, p, h)
    /\ UNCHANGED settled

AttackMonster(p, m) ==
    /\ CanSpend(p, 2) /\ m \in board.row
    /\ Cardinality(board.heroes[p]) >= PartyNeed
    /\ board' = Paid(p, 2)
    /\ \E d \in Margin :
           OpenOver(board', [Window("attack", p, m) EXCEPT !.margin = d])
    /\ UNCHANGED <<stack, settled>>

DrawCard(p) ==
    /\ CanSpend(p, 1) /\ board.deck # {}
    /\ Cardinality(board.hand[p]) < HandLimit
    /\ board' \in Drawn(Paid(p, 1), p)
    /\ UNCHANGED <<frames, stack, settled>>

(* The turn passes: given up, its budget spent, or its clock run out.       *)
EndTurn(p) ==
    /\ Idle /\ p = board.current
    /\ board' = [board EXCEPT
           !.points = [@ EXCEPT ![p] = 0, ![NextSeat[p]] = Budget],
           !.current = NextSeat[p], !.used = {}, !.challenged = {}]
    /\ UNCHANGED <<frames, stack, settled>>

-----------------------------------------------------------------------------
(* Reactions: any seat, while a window stands. *)

(* Slip: the card is laid down before the seat whose turn it is. *)
SlipSpendCard(p, c, f) ==
    /\ board' = [board EXCEPT !.hand[p] = @ \ {c},
                              !.instance[board.current] = @ \cup {c}]
    /\ frames' = [frames EXCEPT ![f].win.passes = {}]

(* Hand -> instance pile, and the open window forgets who passed. *)
SpendCard(p, c, f) ==
    /\ board' = [board EXCEPT !.hand[p] = @ \ {c}, !.instance[p] = @ \cup {c}]
    /\ frames' = [frames EXCEPT ![f].win.passes = {}]

PlayModifier(p, c, v, f, seat) ==
    /\ Quiet /\ c \in board.hand[p] \cap Modifier /\ v \in ModifierValue
    /\ IsStanding(f) /\ AcceptsModifierFor(f, seat)
    /\ SpendCard(p, c, f)
    /\ \E t \in DOMAIN stack \cup {0} :
         /\ IsNewest(t, DOMAIN stack)
         /\ \E run \in ModifierPlayedRuns(p, c, v, seat) :
              stack' = Pushed(stack, t, run)
    /\ UNCHANGED settled

PlayChallenge(p, c, f) ==
    /\ Quiet /\ c \in board.hand[p] \cap Challenge /\ f \in DOMAIN frames
    /\ LET win == frames[f].win IN
       /\ win.kind = "challenge" /\ win.rival = {}
       /\ win.about \notin board.challenged
       /\ p # win.by
       /\ SpendCard(p, c, f)
       /\ \E t \in DOMAIN stack \cup {0} :
            /\ IsNewest(t, DOMAIN stack)
            /\ stack' = Pushed(stack, t, ChallengePlayedRuns(p, c, win.by))
    /\ UNCHANGED settled

(* The window settles once every seat that may still act has passed; while  *)
(* a question stands over it, resolve() only restarts the clock.            *)
Pass(p, f) ==
    /\ Quiet /\ IsStanding(f) /\ CanPass(frames[f].win, p)
    /\ LET passes == frames[f].win.passes \cup {p}
           all == \A q \in Player : CanPass(frames[f].win, q) => q \in passes
       IN  \/ /\ all /\ ResolveStanding(f)
           \/ /\ ~all \/ HasOpenFramesAfter(f)
              /\ frames' = [frames EXCEPT ![f].win.passes = passes]
              /\ UNCHANGED <<board, stack, settled>>

(* A question answered with one of its options. *)
Answer(f) ==
    /\ Quiet /\ IsQuestion(f)
    /\ LET win == frames[f].win IN
       \/ /\ win.kind = "value"
          /\ \E v \in HornValue : ResolveQuestion(f, ValueAnswer(v), FALSE)
       \/ /\ win.kind = "card"
          /\ \E c \in win.offers : ResolveQuestion(f, CardAnswer({c}), FALSE)
       \/ /\ win.kind = "confirm"
          /\ \E yes \in BOOLEAN : ResolveQuestion(f, NoAnswer, yes)

(* A clock runs out: a roll or contest settles as it stands, a question on  *)
(* what its silence picks. A refused answer settles its question this way   *)
(* too.                                                                     *)
Lapse(f) ==
    /\ Quiet /\ f \in DOMAIN frames
    /\ LET win == frames[f].win IN
       \/ win.kind \in Standing /\ ResolveStanding(f)
       \/ /\ win.kind = "value"
          /\ ResolveQuestion(f, ValueAnswer(win.silent), FALSE)
       \/ /\ win.kind = "card" /\ win.offers = {}
          /\ ResolveQuestion(f, CardAnswer({}), FALSE)
       \/ /\ win.kind = "card"
          /\ \E c \in win.offers : ResolveQuestion(f, CardAnswer({c}), FALSE)
       \/ /\ win.kind = "confirm" /\ ResolveQuestion(f, NoAnswer, FALSE)

-----------------------------------------------------------------------------
Init ==
    /\ board \in InitBoards
    /\ frames = [f \in {} |-> {}]
    /\ stack = [t \in {} |-> {}]
    /\ settled = Nothing

Command ==
    \/ \E p \in Player :
          \/ \E c \in board.hand[p] : PlayHero(p, c) \/ PlayMagic(p, c)
          \/ \E h \in board.heroes[p] : RollOnHero(p, h)
          \/ \E m \in board.row : AttackMonster(p, m)
          \/ DrawCard(p) \/ EndTurn(p)
    \/ \E p \in Player, f \in DOMAIN frames :
          \/ \E c \in board.hand[p], v \in ModifierValue, seat \in Player :
                 PlayModifier(p, c, v, f, seat)
          \/ \E c \in board.hand[p] : PlayChallenge(p, c, f)
          \/ Pass(p, f)
    \/ \E f \in DOMAIN frames : Answer(f)

Next == RunStep \/ Announce \/ Command \/ \E f \in DOMAIN frames : Lapse(f)

(* The engine runs what it has started, and the clock of every window that  *)
(* can settle does run out.                                                 *)
Fairness ==
    /\ WF_vars(RunStep)
    /\ WF_vars(Announce)
    /\ WF_vars(\E f \in DOMAIN frames : Lapse(f))

Spec == Init /\ [][Next]_vars
FairSpec == Spec /\ Fairness

-----------------------------------------------------------------------------
(* Properties *)

(* Every zone holds cards of its kind, every frame a board it could go back *)
(* to, every pipeline a step the runner knows.                              *)
TypeOK ==
    /\ board \in Board
    /\ DOMAIN frames \subseteq Nat \ {0}
    /\ \A f \in DOMAIN frames :
          frames[f] \in [snap : Board, win : WindowType]
    /\ DOMAIN stack \subseteq Nat \ {0}
    /\ \A t \in DOMAIN stack : stack[t] \in PipelineType
    /\ settled \in [frame : Nat, cards : SUBSET Source, answer : AnswerType]

(* ENGINE_ARCHITECTURE.md section 8: two contests or rolls never stand at   *)
(* the same time, although nothing in the code enforces it.  The window a   *)
(* modifier goes into is found by type, so two of them would be confused.   *)
OneStandingWindow ==
    \A f, g \in DOMAIN frames : IsStanding(f) /\ IsStanding(g) => f = g

(* No wake-up is lost: whatever a pipeline is parked on can still settle,   *)
(* or has settled and is about to be announced (task-manager.ts pauseOn).   *)
ParkedOnOpenFrame ==
    \A t \in DOMAIN stack :
        stack[t].on # NoFrame =>
            stack[t].on \in DOMAIN frames \cup {settled.frame}

(* The throws of DiscardTask, DestroyTask and SacrificeTask are dead code:  *)
(* a step that reads a slot always comes after the answer that fills it,    *)
(* which for a hero's effect is a question asked of another pipeline and    *)
(* carried by the roll window.                                              *)
NoStepUnfed ==
    \A t \in DOMAIN stack :
        IsRunnable(t) /\ stack[t].steps # <<>>
            /\ Head(stack[t].steps) \in {"Discard", "Destroy", "Sacrifice"}
          => stack[t].fed

(* A bonus paid for reaches a roll: the window it was spent into is still   *)
(* open when the card's, or the Horn's, value is known.                     *)
NoBonusComesLate ==
    \A t \in DOMAIN stack :
        Takes(t, "Apply") =>
            \E f \in DOMAIN frames :
                IsStanding(f) /\ AcceptsModifierFor(f, stack[t].seat)

Copies(b, c) ==
    Cardinality({p \in Player : c \in b.hand[p]})
  + Cardinality({p \in Player : c \in b.instance[p]})
  + Cardinality({p \in Player : c \in b.heroes[p]})
  + b.discard[c] + (IF c \in b.deck THEN 1 ELSE 0)

MonsterCopies(b, m) ==
    Cardinality({p \in Player : m \in b.slain[p]})
  + Cardinality({m} \cap b.row) + Cardinality({m} \cap b.monsterDeck)

(* A board as it is dealt: each card lies somewhere, and once; none is in   *)
(* play (server/src/game/setup/create-game.ts).                             *)
ASSUME DealtAssumption ==
    /\ IsFiniteSet(Player)
    /\ \A b \in InitBoards :
          /\ \A c \in Card : Copies(b, c) = 1
          /\ \A m \in Monster : MonsterCopies(b, m) = 1
          /\ \A p \in Player : b.instance[p] = {}

(* Every card of the main deck is in one place, every monster too, through  *)
(* every rollback; and nothing stays behind on the table: the instance      *)
(* piles of an idle board are empty (game-state.ts restoreFrame and         *)
(* releaseFrame).                                                           *)
CardsConserved ==
    /\ \A c \in Card : Copies(board, c) = 1
    /\ \A m \in Monster : MonsterCopies(board, m) = 1
    /\ Idle => \A p \in Player : board.instance[p] = {}

(* Spent is spent (game-state.ts restoreFrame): a card comes into a hand    *)
(* from the deck and from nowhere else.                                     *)
SpentIsSpent ==
    [][\A p \in Player : board'.hand[p] \ board.hand[p] \subseteq board.deck]_vars

(* What restoreFrame takes for granted when it takes the spent cards out of *)
(* the restored hands ("The snapshot handed them back to their owners'      *)
(* hands"): whatever was spent into a frame that may be rolled back was in  *)
(* its owner's hand when the frame opened.                                  *)
SnapshotHandsThemBack ==
    \A f \in DOMAIN frames :
        IsStanding(f) =>
            \A p \in Player : Spent(f)[p] \subseteq frames[f].snap.hand[p]

(* No rollback refunds a price: within a turn action points only go down,   *)
(* and a hero that was rolled on stays marked.                              *)
NothingRefunded ==
    [][board'.current = board.current =>
         /\ \A p \in Player : board'.points[p] <= board.points[p]
         /\ board.used \subseteq board'.used]_vars

(* Every window settles and every pipeline ends, so that the turn can go on *)
(* with no player doing anything.                                           *)
EverySettles == IsBusy ~> Idle

=============================================================================
