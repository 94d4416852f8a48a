# Here To Slay: a verification development

TLA+ models, TLC configurations and TLAPS proofs for the game server of this
repository. Paths are relative to the repository root; `game/` stands for
`server/src/game/`.

## 1. The system

### 1.1 Inventory

| Component | State it keeps | Operations | Talks to | Hard part |
|---|---|---|---|---|
| Board (`game/pipelines/game-state.ts`, `game/state-structures`, `game/cards`) | zones of cards, action points, marks of the turn, frames, pipelines | draws, discards, moves between zones, `addFrame`, `releaseFrame`, `restoreFrame` | everything below writes it | a rollback restores a snapshot several commands old |
| Reaction windows (`game/reactions`) | bonuses, passes, deadline, options, one timer each | open, spend into, pass, answer, lapse, settle | board, events | two clocks and several seats race over windows that stand on each other |
| Reaction manager (`game/pipelines/reaction-manager.ts`) | none of its own | `openFrame`, `openWindow`, `submitReaction`, `submitChoice`, `pass` | board, windows | routing an answer to a window that may have just closed |
| Task manager and abilities (`game/pipelines/task-manager.ts`, `game/abilities`, `game/repositories`) | the stack of pipelines (on the board) | match an event, push pipelines, run steps, park, wake, `AbilityDone` | events, windows, board | a pipeline parked on a frame that goes away |
| Tasks (`game/tasks`) | none | one step of an ability each | board, reaction manager | a slot nobody filled; a zone that changed since the question |
| Card data and rules (`server/src/data/base-game-cards.ts`, `game/repositories/ability-repository`) | none; tables | which card does what, on which event | task manager | ninety-odd cards whose steps agree on slots by name only |
| Actions (`game/actions`) | none | the seven things a seat does on its turn | turn manager, board | what is paid before the snapshot and what after |
| Turn manager and engine (`game/pipelines/turn-manager.ts`, `game/game-engine.ts`, `game/conditions`) | phase, action queue, turn clock, turn number | `enqueue`, `drain`, `startTurn`, `endTurn`, `lapse`, `start`, `concludeIfDue` | events, board | the clock pauses under windows; the game may end inside any step |
| Views and events (`game/views`, `game/events`) | none; listeners | projection per seat, synchronous delivery | publisher | hidden information; re-entrant delivery |
| Setup and config (`game/setup`, `game/config`) | none | deal and wire a table | registry | randomness |
| Game server (`server/src/game-server`, `server/src/persistence`) | registry of tables, seats, command ledger, snapshot versions | create, join, leave, command, publish | engine, lobby over TCP, sockets | retries of commands, coalesced snapshots, lost notices |
| Lobby (`server/src/lobby`) | one lobby, ready list, start flag, assignments | ready, unready, update settings, start, complete | game server over TCP, SSE | requests go on while a start waits for the game server; that call can time out; notices can be lost |
| Accounts (`server/src/auth`) | users, sessions | register, sign in, sign out, resolve | lobby, game server | uniqueness of a name across an await |
| Shared contracts (`shared`) | types only | | all | |
| Client (`client`) | a mirror of snapshots | commands with an id, retry | sockets | outside this development |

### 1.2 How a play runs

A seat sends an action, a reaction, an answer or a pass. The engine is one
thread: the command runs to the end, with everything it sets off, before the
next command or timer. An action that can be contested or rolled opens a
**frame** (a snapshot of the board) with a **window** in it. Windows stay open
between commands. While one stands, seats spend modifier or challenge cards
into it; each card is an ability of its own, a **pipeline** of steps pushed on
a stack, and a step may open a frame of its own with a **question** and park
its pipeline on it. A window settles when every seat that may act has passed,
or when its clock runs out, and not while a question stands over it. Settling
**releases** the frame (the board stays) or **restores** it (the board goes
back to the snapshot), and announces `FrameResolved`, which wakes what was
parked.

### 1.3 What makes each part correct

* Board and windows: every card is in one place; what was spent stays spent
  and what was paid stays paid, however a window ends; two rolls never stand
  at once; a bonus reaches the roll it was bought for.
* Task manager: a parked pipeline is always woken; a step never reads a slot
  nobody filled; every play ends.
* Cards and rules: no card is lost, made or in two places, whatever the cards do
  to each other; what an item does follows the hero that wears it; a step tells
  the steps behind it what it has really done.
* Turn manager and engine: the turn clock never runs out over a standing
  window; a turn without points or a finished game does not hang; the winner
  is read off a board that cannot be rolled back.
* Lobby and game server: an account sits at one table; a start that failed
  leaves the lobby usable; a command sent twice acts once; the last snapshot
  a seat sees is the last state.


## 2. Modules

| Module | What it is |
|---|---|
| `Reactions` | board, frames, windows, pipeline stack, the actions of a turn, rollback |
| `MCReactions` | the small tables TLC runs `Reactions` on |
| `ReactionsProofs` | types, wake-ups, the one standing window and prices of `Reactions`, for every table |
| `ReactionsCardsProofs` | steps find their slots, bonuses their rolls and rolls their targets, every card stays in one place, and spent is spent, for every table |
| `BaseGameCards` | the cards of the box: classes, rolls, monsters, modifiers; attack and slay rules |
| `CardRules` | the ability registry: for every card its rules, each a list of steps |
| `CardBoard` | a board card by card, effects, moves between zones, the filters of the choosing steps |
| `Abilities` | the task manager on such a board: events, matching, pipelines, frames, rollback, the drain |
| `Tasks` | the steps, one action each |
| `CardGame` | windows that settle, reactions, commands and turns around the drain; its properties |
| `MCCardGame` | for every card a small board where it is at work |
| `GameRules` | turns, points and winning with nothing of the machine (abstract) |
| `TurnLoop` | turns, action queue, turn clock, the order of the listeners, the end of the game; implements `GameRules` |
| `TurnLoopProofs` | all safety properties of `TurnLoop`, and that it implements `GameRules`, for any number of seats and whatever the cards set off |
| `Induction` | least counterexamples: induction over the naturals in a form the provers can use |
| `LobbyContract` | what the lobby promises its accounts (abstract) |
| `Lobby` | `LobbyService` with its two stores; implements `LobbyContract` |
| `LobbyProofs` | invariants of `Lobby`, and that it implements `LobbyContract`, for any accounts and bounds |
| `Tables` | the registry of tables and the door of the gateway |
| `Seating` | lobby process and game process with the messages between them, and what goes wrong with those |
| `SeatingProofs` | who is assigned where and who waits, and that the lobby keeps its contract, for any accounts and every fault |
| `CommandContract` | what a table promises those who send it commands (abstract) |
| `Commands` | a command's way from a client to one table and back, with its retry, the ledger and the end of the table; implements `CommandContract` |
| `CommandsProofs` | a command runs once and is answered alike, leaving is confirmed, and `CommandContract` is implemented, for any window of retries |
| `Publisher` | the watcher, snapshots and first looks on their way to the clients, the notice to the lobby, the store |
| `PublisherProofs` | clients catch up, the lobby hears of the end once, what the store has of a game, and that neither screens nor the store go back, for any seats, events and order of flushes |

`Seating` extends `Lobby` and instantiates `Tables`; its actions are theirs with
the messages they take and send. `Commands` and `Publisher` are two views of one
table's door: what comes in and what goes out. They share a socket in the code
and nothing in the models, since neither reads what the other writes.

The game is modelled three times, each time with other things left out.
`Reactions` keeps windows, clocks, rollback and the order of everything, and
knows a handful of kinds of cards; most proofs are about it. `BaseGameCards`,
`CardRules`, `CardBoard`, `Abilities`, `Tasks` and `CardGame`, each extending
the one before it, keep every card of the box with all its steps. `TurnLoop`
keeps turns, the queue, the turn's clock and the end of the game, and knows
frames and pipelines only as "which stand, which could still be rolled back,
what is parked"; it is proved about as well.

Operators named `Slip...` are plausible mistakes in the definition that
follows them. No specification uses them; they are there to show that a
property would notice.

### 2.1 `Reactions`

| Variable | Code |
|---|---|
| `board` | what `GameState.copyFrom` restores: hands, instance piles, parties, slain monsters, piles, points, the seat whose turn it is, `usedAbilities`, `challengedCards` |
| `frames` | `GameState.frames`, each with its snapshot and its window; frames are numbered in the order they open, a `Map` keeps the same order |
| `stack` | `GameState.abilityPipelines`; `on` is `pausedOn`, `pick`, `value`, `seat`, `fed` are the slots of `AbilityContext` |
| `settled` | the frame whose `FrameResolved` is being announced, with what it writes and names |

*One thread.* A command or a timer is one step taken when the engine is
`Quiet`: nothing runnable on the stack, nothing to announce. `RunStep` is one
turn of the loop in `TaskManager.drain`, `Announce` is `FrameResolved` in
`TaskManager.onEvent`. Nothing external can come between them, as in the code.

*What is folded.* Events that nobody in the model reacts to are part of the
action that emits them. The pipelines an event sets off are pushed by the action
that emits it, the event's own card on top of the watchers; the model allows
the watchers of different seats in either order, the code uses seat order. When
a `yes` to the offer to roll is announced, the code runs `FrameResolved`'s wake
before the roll's own `RollPassing` pipeline, the model after it: they touch
different pipelines and different slots.

*What is abstract.* A roll is its margin over what it needs. Piles are
sets and a draw takes any card. Dice, values and choices are nondeterministic.
An action queued on a busy board is taken when the board is idle: the drain
asks `canExecute` again there, so it is the same step at the same moment.
A lapse of a roll that is blocked by a question only restarts its clock and is a
stutter.

*Sets that never overlap.* Hero, magic, modifier, challenge and monster cards
are different cards; a table in an `.cfg` file is a board in the middle of a
game with the cards that matter to it.

### 2.2 `BaseGameCards` to `CardGame`

| Variable | Code |
|---|---|
| `board` | a record: hands, points, leaders, heroes, slain monsters, instance piles, worn items, installed effects, deck, discard, the row, the monster deck, the marks of the turn; `turns` is a bound |
| `stack` | `GameState.abilityPipelines`, the last one runs; `slots` is `AbilityContext`, `on` is `pausedOn`, `system` is the rule every card of a kind has |
| `frames` | `GameState.frames`, each with its snapshot and its windows, closed ones included until the frame goes |
| `draining` | `TaskManager.draining` |
| `todo` | what the code that is running outside a drain still has to do |

*Cards are data.* `AbilityRegistry` maps each card to its rules, as
`ability-repository/index.ts` does. A rule names an event, whose event it has to
be, and its steps; `Abilities` pushes the rules an event matches, and `Tasks`
has one action for each kind of step. A step that emits in the middle of its
body (a stolen hero takes its item off and puts it on) pushes the rules that
answer, and the drain that is already running takes them next, as the re-entrance
guard of `drain` has it.

*Jobs.* A window that settles emits the result and then `FrameResolved`; a
command emits and then opens a window. In the code the first call runs a drain to
its end before the second is made. `todo` holds the calls still to be made, and
`Quiet` says that there are none.

*What is abstract.* Questions offer what the filters of the code offer, and an
answer is any of the options or, where the window may close without one, none.
Dice fall one short of what is needed or just make it; for an attack also into
each band. A contest is won by either side: what modifiers add to it is not
followed. Any card may come out of a shuffle on top. A command names a card of
the kind it is about. Copies of a card are one card. `Reveal` changes what seats see and is a
step that changes nothing here.

### 2.3 `TurnLoop`

| Variable | Code |
|---|---|
| `phase`, `winner` | `GameState.gamePhase`, `winnerId` |
| `turn` | `TurnManager.phase`, `currentPlayerId`, that seat's action points |
| `queue` | `TurnManager.actionQueue`, by kind: a reactable play, a draw, a pass |
| `clock` | `timed` is `remainingMs !== undefined`, `running` is `clock !== undefined` |
| `frames` | whether a frame's window restores, whether it is open yet, and who met the conditions when its snapshot was taken |
| `stack` | pipelines: steps left, the frame they are parked on, whether the first step is a question |
| `qualifies` | the seats for which `isMetBy` holds on this board |
| `resolved`, `todo` | the frame being announced and what the current call still has to do, innermost first |
| `runs` | a bound: how many pipelines this turn may still set off |

`todo` is the call stack of the code. `FrameResolved` is heard by the turn
manager (`clock`), the task manager (`wake`, `tasks`) and the engine (`hear`,
`resume`) in the order `create-game.ts` builds them; `resume` becomes a `drain`
in front of everything that is left, which is what a nested synchronous call
does. Commands and timers act when `todo` is empty.

A window announces its opening from its constructor, before its frame holds
it, so the engine always finds an outcome pending at that moment and asks no
win condition; `AskStep` and `Show` therefore do not hear. The dirty flag of
the engine is up whenever it is read (every event sets it) and is left out.

### 2.4 `Lobby`, `Tables`, `Seating`

| Variable | Code |
|---|---|
| `ready` | `InMemoryLobbyStore.readyPlayers`, the host first |
| `seats` | `settings.playerCount`; the other settings decide nothing in the lobby |
| `assigned` | `InMemoryGameAssignmentStore.assignmentsByAccountId` |
| `gameStartInProgress`, `starting` | the flag, and the `startGame` calls suspended at their `await`, each with the group it holds |
| `calls` | a bound, and the source of fresh game ids |
| `tables` | `GameRegistryService.games`; ids grow in the order of the `Map` |
| `seat` | `socket.data.seat` of the one socket of an account |
| `wire` | `game.create`, its answer, `game.completed` |

*Atomicity.* `stores.module.ts` keeps the lobby, the assignments and the sessions
in memory whatever is configured, so every `await` on them is a microtask, and
Node finishes all microtasks of a request before it looks at the next. The one
`await` that waits for I/O is the call to the game server, and `startGame` is
split there. The handlers of the game process have no `await` after the cookie
is resolved.

*What is abstract.* A table is being set up, running or over; what is played is
left to the other modules. A refused request is a stutter. Several tabs of one
account share one socket. The branch of `GameAccepted` in which the assignment
store refuses the group is in the model and not reachable; `StartingIsFree`
says so. A restarted lobby starts over with the table cut at `MaxSeats` and ids
nobody had before, as a fresh process does.

*Faults.* `faults` is chosen at the start among `FaultCases`: nothing fails, or
calls time out, messages are lost and both processes restart, at any time and in
any combination. One run covers both; a property that needs links that work says
`faults = {}`.

*Assumed of the world.* Calls on one TCP link arrive in order. A game is not
over before the call that made it is answered or given up (5 seconds at most).
Accounts survive a restart of the lobby, as they do with a database.

### 2.5 `Commands`

| Variable | Code |
|---|---|
| `ledger` | `CommandLedger.bySeat`: a `Map` per seat, in the order of insertion |
| `phase`, `left` | the table is concluded; `RunningGame.left` |
| `issued`, `aim` | the ids a client has used; `LeaveGame` or anything else |
| `attempt` | which `emitOnce` of `RealGamePort.send` is waiting |
| `connected`, `wire` | the seat's socket and what is on it, in order |
| `stale` | packets of broken sockets the server may still take |
| `ran`, `answers` | history: effects and answers of each command |

*What is abstract.* A command is taken or refused. A throw of the engine after it
has changed the board counts as taken, since what the ledger keeps and repeats
is the same. An acknowledgement that comes after the client stopped waiting for
it is the same as a lost one (`settled`), so answers are heard at once or never.
`Bystander` seats do nothing but leave.

*Assumed of the world.* `Window`: a client does not send more than so many
commands past one that can still be tried. The ledger's comment says "a retry is
seconds old, not hours"; this is what that means in commands. The assumption
`Remembered >= 2 * Window - 1` covers the answers given since and the ones under
way; the code's 64 allows for 32 commands within the ten seconds of two attempts
and the life of a half-open socket.

### 2.6 `Publisher`

| Variable | Code |
|---|---|
| `board`, `over` | how many events `GameLog` holds; the concluded phase |
| `pending`, `ended` | the two flags of `Watcher` |
| `version`, `arrived` | of `RunningGame` |
| `drained` | `GameLog.drainedEvents` |
| `notices` | how often `tellLobby` ran |
| `connected`, `pipe`, `shown` | sockets in the seats' rooms, what is on them, `snapshot` of `useGameState` |
| `creating`, `row`, `flights`, `lost` | the calls of `IGameStore` not yet settled, the row and the records of the game, the calls that were rejected |

The engine "guarantees nothing moves the board silently", so the board is the
number of its events. A burst is one stack of the event loop, `Flush` its
`setImmediate`. `Land` is one transaction of `PostgresGameStore`; records refer
to the game's row, so a flush that comes before the row is there is rejected.
A seat has one socket.

## 3. What the runs check

| Run | Table | Shows |
|---|---|---|
| `Plays` | 3 seats, heroes, a magic card, 2 modifiers, a challenge | windows, prices and "spent is spent" through every rollback |
| `Questions` | 2 seats: a targeting hero with a Horn, or with a Crowned Serpent and a deck of 3; 2 modifiers, a challenge | questions over rolls and contests: wake-ups, slots, bonuses in time, what a snapshot gives back |
| `Fights` | 2 seats: 2 monsters, Bloodwing, modifiers, a challenge; or a deck of 1 and a discard pile that runs back into it | attacks, fight-backs, forced discards, cards that come round again; the type invariant; every play ends by the clocks alone (442 065 states) |
| `Cards` | 2 seats; 100-odd boards, one or more for every card of the box | every card at work, against a decoy, a mask, a challenge, a thin deck (166 205 states) |
| `Turns` | 3 seats, turn clock, queue of 3 | queue, clock, listeners, and an end of the game inside any event; every turn comes to its end |
| `Seating` | 3 accounts, tables of 2 or 3, 2 starts; without faults and with all of them | the lobby keeps its contract; lobby and tables agree (459 554 states) |
| `Commands` | a seat with 4 commands, 2 at a time, a ledger of 3, a bystander | commands act once and are answered alike over lost answers and broken sockets |
| `Publisher` | 2 seats, 3 events | clients, lobby and store end up with the board as it is |
| `SpentReturns`, `DrawnThenSpent`, `CursedOffer`, `TwoTables` | as above | the findings of section 6 |

A run of `Reactions` or `CardGame` starts from any of the boards its `.cfg` names
(`InitBoards`, `Boards`).

**Properties of `Reactions`.** `OneStandingWindow`: a modifier's window is found
by type, so two rolls or contests at once would be confused; nothing in the code
forbids it. `ParkedOnOpenFrame`: no pipeline waits for a frame that is gone.
`NoStepUnfed`: the throws on an unwritten slot are dead code. `NoBonusComesLate`:
the window a modifier was paid into is still there when the bonus is known.
`CardsConserved`: every card is in one place, and nothing is left on an idle
table. `SnapshotHandsThemBack`: what a lost
roll takes out of the hands was in the hands of its snapshot. `SpentIsSpent`: a
card comes to a hand from the deck only.
`NothingRefunded`: a rollback gives back no points and no used ability.
`EverySettles`: a busy board becomes idle with nobody doing anything.

**Properties of `CardGame`.** `OncePlaced`, `NoCardLost`: a card is in one place,
and none disappears or appears, through every theft, trade, decoy and rollback.
`EveryStepIsFed`: rules hand cards to each other in slots by name; when a step
runs, the slot it reads is written, and holds a card of the kind it needs.
`GearFollowsRules`: between commands the effect of an item is there exactly when
it is worn, once, for the seat and the hero that have it. `IdleIsClean`: nothing
played stays in front of a seat. `DollTakesTheHit`: the decoy saves its hero from
every way to die. `ToldAsDone`: the cards a step reports are the cards it moved.
`EverySettles`: whatever the cards set off comes to an end.

**Properties of `TurnLoop`.** `LapseFindsIdleBoard`: the throw in `lapse()` is
dead code. `TurnGoesOn`: between commands a game waits for a window or for a
seat that can act, never for nothing. `WinIsNoticed`, `WinIsFinal`: the winner
is seen at once, and on a board that no rollback can take away.
`TurnBeginsClean`: nothing of one turn runs in the next. `NothingAfterTheEnd`:
the calls still unwinding when the game ends change nothing. `TurnPasses`: a
table with a turn clock cannot be held up.

**Properties of the lobby.** `ReadyIsFree`, `ReadyFitsTable`: the list stays a
list of free accounts that fit the table while it moves under a start.
`StartingIsFree`: the assignment store never refuses a group whose table has been
dealt. `StartEnds`: one failed start does not block the next.
`Contract`: `LobbyContract` under the mapping that forgets the order of the list
and counts an id as used once its call has returned.
`AssignedIsSeated`: the group that is assigned is the group that was sent, under
every fault. `NoOrphanTable`, `FreedAfterTheEnd`: the two processes agree, and
everybody may sit down again; these need links that lose nothing and calls that
do not time out (end of section 6).

**Properties of the door.** `RunsOnce`: however often a command arrives, on
whatever socket, it acts once. `AnswersAgree`: a seat at the table gets one answer
to it, and a true one. `LeavingIsConfirmed`: the seat whose leaving emptied the
table is told so, although the table is gone. `ShowsTheLatest`: a client that has
heard everything shows the board as it is, although a first look may carry a newer
board than the version it names. `EndIsTold`: the lobby is told of the end once, by the first flush
after it. `EndIsSeen`: so is every seat that stays. `StoryIsWhole`: each event is
recorded once, or its flush was rejected. `NewestIsKept`: the stored board is the
last one shown and names the winner, whatever came late.

**Bounds.** For the lobby three accounts and a table cut down to two seats make a
list that is full while somebody waits, and two starts make one that follows
another: an old table, a late answer, a stale assignment. Four commands fill a
ledger of three and push the first answer out, while two of them can be under
way; the second socket makes the first attempt come after the second. Three
events are the start, a burst and the end, or any two of these in one burst, and
leave up to three flushes on their way at once; two seats make one that is there
and one that is not. Both runs stop when the game is over and everything has
been sent, hence `CHECK_DEADLOCK FALSE`. Two seats are enough for a roller and an opponent, three for a
contest with a bystander and for a turn order that is not a swap. Margins and
modifier values are chosen so that one modifier turns a miss into a hit and a
hit into a miss, and two cancel. `HandLimit = 0` in `Questions`
switches the draw action off, so that the deck never refills and the run ends.
The Serpent's board of `Questions` deals no modifier from the deck, and
`Questions` and `Fights` check no `SpentIsSpent`, because of finding 1 and of
Bloodwing's discard (end of section 6).

In `Cards` a board has one turn and one action point to spend, two for an attack
and three for a redraw, since one play with everything it sets off is what a card
is about; the boards of `TurnsBoard` go on for two more turns, because some effects
end with one. The opponent has a modifier, a challenge where something can be
challenged, heroes that wear a decoy and a mask, and a deck of three that runs
out under the cards that draw more. Veterans have a monster slain on
either side whose rule meddles. On none of these boards can a contest be opened
within a contest, nor a card be drawn and then spent into the window it was drawn
under: that is finding 2, and `DrawnThenSpent` has its board.

In `TurnLoop`, `MaxRuns` and `MaxSteps` bound what one turn's abilities
may do; two pipelines of two steps already nest, park on each other and outlive
a rollback. `CHECK_DEADLOCK FALSE` there because a finished game stops.

**Unreached branches.** The branches of `Start`, `Apply` and `Land` for a
window that is no longer there are guards in the code; no run reaches them, and
`BonusesCome` (section 5.1) is the proof that no table reaches that of `Apply`.

## 4. Fairness

`Reactions` assumes weak fairness of the engine's own loop (`RunStep`,
`Announce`: it is synchronous code) and of `Lapse` (every window starts a
timer in its constructor and restarts it whenever it declines to settle). It
assumes nothing of players. `CardGame` assumes the same of its loop and its
clocks, written out as `CodeRuns` and `ClocksRun`: what enables the code is that
it is not `Quiet`, what enables a clock is that a window is `Waiting`, and these
are cheaper to evaluate than `ENABLED` of thirty actions. That the two are the
same is checked by the run itself: a state that is not `Quiet` and has no
successor would be a deadlock, and only the code acts there. `TurnLoop` assumes
the same of its cascade, of the windows settling, and of the turn's timer, and is
checked for a table that has a turn clock: without one the code lets a seat sit
for ever, and the property does not claim otherwise.

`Lobby` assumes that a call to the game server returns: the client puts a
timeout on it. `Seating` assumes that what is on a link and not lost arrives,
and that the timer fires. It assumes nothing of players: nobody has to connect,
to leave or to start. `Publisher` assumes that `setImmediate` runs and that a
socket that stays open delivers; nothing of the store. `Commands` states safety
only.

## 5. What is proved

### 5.1 `Reactions`

For every set of seats and cards, every hand limit and budget, all dice and
every set of initial boards of the right type:

| Theorem | Property |
|---|---|
| `TypeCorrect` | `TypeOK` |
| `NoWakeUpLost` | `ParkedOnOpenFrame` |
| `OneAtATime` | `OneStandingWindow` |
| `PricesStand` | `NothingRefunded` |
| `StepsAreFed` | `NoStepUnfed` |
| `BonusesCome` | `NoBonusComesLate` |
| `CardsStay`, `CardsStayWithoutSerpent` | `CardsConserved` |
| `SnapshotsHandBack`, `CardsStayWithoutSerpent` | `SnapshotHandsThemBack` |
| `SpentStaysSpent` | `SpentIsSpent` |

The assumptions are two, both in `Reactions`. `ConstantsAssumption`: bounds and
values are numbers, the turn order leads from every seat to another one, cards
with a target are heroes, and the initial boards are boards. `DealtAssumption`,
used by the last three rows only: there are finitely many seats, and an initial
board has every card and every monster once and nothing lying in front of a
seat, as the deal leaves it. TLC evaluates both on every run.

*Types.* `TypeOK` is not inductive: a settling window moves the card it is
about, and a pipeline that rolls marks the card it belongs to. `TypeInv` adds
that a window is about a card of the kind its settlement moves, and that a step
that rolls belongs to a hero and stands alone in its pipeline. The proof has a
lemma for each board operator, one for each kind of window, and one step for
each action.

*Windows.* That two rolls never stand at once is not a matter of one guard. A
roll, attack or contest starts either on an idle board, or from the offer to roll
that comes with a hero that has just survived its contest. So the proof follows
a **token** (`OneToken`): the standing window, or the offer on its way, which is
in turn a settled contest, the step that asks, the question, and the step
that rolls. `WindowInv` says there is at most one token, that whoever waits
waits for a frame that is open or being announced, and that the snapshot of a
standing window has the same points and used abilities as the board
(`PricePaid`), since the price is paid before the snapshot is taken and nothing
is bought while a window stands. `OneStandingWindow`, `ParkedOnOpenFrame` and
`NothingRefunded` follow from it.

*Slots and bonuses.* `FeedInv` (`FedSound`) adds to `WindowInv` what the steps
of a pipeline count on. `SlotsFilled`: a step that reads a slot comes right
behind the question that writes it, or its pipeline was given the slot when it
was pushed; and when it is next, the slot is filled or the answer is what it is
parked for. `BonusOver`: a bonus on its way lies *over* the window it was bought
for, that is, whatever is parked at or above it is parked on a frame opened
later (`Over`). Nothing else keeps that window open: it does not settle while
something opened after it is open, and a quiet engine has a topmost pipeline that
waits for an open frame, so as long as the bonus has not arrived, there is one.
That is why the window counts on nothing it holds itself, and why the order in
which frames are numbered matters. `TargetOver` says the same of the target of a
roll that has made its margin: while the roll stands, its target is known, or
the question for it lies over it. Without it a roll could settle in between, and
the step that reads the target would find nothing. New pipelines go on top of
the stack and park on frames newer than all others, which keeps `Over`; a rollback takes away only
what was parked on its own frame, which nothing over another window is.

*Cards.* A rollback puts back a board that is several commands old, minus what
has been spent since, so that every card is in one place now says nothing about
the board after it: the card may be in a hand of the snapshot, on the table now,
and have been spent, discarded or destroyed in between. `CardsInv`
therefore speaks of the snapshots too. `SnapKept`: the snapshot of a standing
window has every card once (the contested card excepted, which is nowhere in it,
being out of the hand already and not yet on the table), nothing lying in front
of a seat, and in each hand at least what is in that hand now and what has been
spent from it since. Hands only shrink while a window stands, so this lasts
until the rollback, which then finds each spent card in exactly the hand it
takes it out of. The rest is about how a window opens, since its snapshot must
be clean at that moment: `OffersClean` (nothing lies on the table when a hero is
offered its roll), `ContestsFirst` (a contest opens before everything else on
the table), `PreyInRow` (a monster under attack has not left the row) and
`PlayedAtWork` (when no window stands, a card in front of a seat is a magic card
whose effect is announced, on the stack, or being put away; an idle table has
none). The proof has a lemma for every way a card moves and one for every
action; that one place is a count of one is `OneCopy`, over the library's
theorems on finite sets.

Hands shrink under a window unless somebody draws, so `CardsStay` and
`SnapshotsHandBack` are about the behaviours in which nobody does
(`NoDrawUnderWindow`). The hypothesis is needed: with Crowned Serpent slain and
a modifier in the deck, a modifier drawn under a roll and spent into it is not
in the snapshot's hand, and TLC finds both properties violated (finding 2 is the
same fault with other cards). `CardsStayWithoutSerpent` replaces the hypothesis
by one that can be read off the table: as long as no seat has slain Crowned
Serpent, nothing that `Reactions` models asks for a draw under a window. The
boards of `Plays` and `Fights` satisfy it throughout, and `SerpentBoard` of
`Questions` does not.

*Spent is spent.* A rollback puts back the hands of the snapshot without what has
been spent from them since. A card of the snapshot's hand that is
neither in the hand nor in front of its seat therefore comes back, wherever it went.
`HandsKept` says that there is none: what a hand held when a standing window
opened is still with its seat, in the hand or spent. `SpentStaysSpent` is about the
behaviours in which it can last (`Undisturbed`), and its three conjuncts are the three
ways in which the code can break it. A draw under a window puts into a hand a card the
snapshot does not have there. A discard under a window (Bloodwing's) takes away one that it has;
this is undone by a rollback, which is meant. A card that is spent while a
question stands over the window is put away with the question: that is
finding 1, and `SpentReturns` runs into it. The theorem says that
there is no fourth way.

### 5.2 `Lobby`

For any accounts, any `MinSeats <= MaxSeats` and any number of starts
(`LobbyAssumption`):

| Theorem | Property |
|---|---|
| `LobbyTypeCorrect` | `LobbyTypeOK` |
| `ReadyStaysFree` | `ReadyIsFree` |
| `ReadyAlwaysFits` | `ReadyFitsTable` |
| `StartingStaysFree` | `StartingIsFree` |
| `LobbyKeepsContract` | `Contract` |

The invariant adds `OneCall`: the flag is down only when no call is out, and there
is never more than one. Without it the answer to one call could assign accounts
of another. `Without`, the list with some accounts taken out, is defined by
recursion along the list. What it returns (a list of the others, all of them, none
twice, and short enough when the back of the list is taken out) is proved by a
least counterexample: `LeastElement` gives the shortest prefix for which the
claim fails, and the step to it from the prefix before is a contradiction. The
refinement adds `GoodGroups` (the size of a group on its way, and its id) and
has one lemma per action. A start is a stutter of the contract, a start that
fails uses up an id, a change of the settings is somebody standing up or
nothing, and a restart forgets everybody and uses up the ids of the calls that
were out (`Forget`): a lobby that comes back never deals the id of a game that may
still be running.

### 5.3 `Seating`

For the same constants, and for every set of faults that `Faults` may hold:

| Theorem | Property |
|---|---|
| `AssignedAreSeated` | `AssignedIsSeated` |
| `TablesHaveTheirGroups` | `NoOrphanTable` |
| `ReadyStaysFreeOfFaults` | `ReadyIsFree` |
| `StartingStaysFreeOfFaults` | `StartingIsFree` |
| `SeatingKeepsContract` | `Contract` |

The argument for the first is that a game has one id, which never comes back, and
that what there is about a game comes in one order: a create on the wire, a table and
what is said about it, an assignment. `NothingBeforeCreate` says that while a
create is still to be heard there is nothing else of its game but the call that
waits for it, or nothing at all after a timeout; `DealtAsAsked`, that a table dealt
for a call seats that call's group. Timeouts, losses and restarts only take
things away from this picture, so that these hold under all of them.

The invariant `IInv` of `Lobby` is a conjunct of the composed one, since
the two processes share no variable and the lobby's actions are those of `Lobby` with a
guard on the messages; the last two theorems are the lobby's own, now in the
company of a game server that may fail at any step. `NoOrphanTable` is about two
processes that agree, which they do only while nothing fails. Its part of the
invariant, `GroupInv`, is required only then: every create has a call that waits
for it, every completion is about a game that is over, and every table has its group.

`SeatingKeepsContract` needs more of the composition than of the lobby alone, for there
the answer to a start and the end of a game come out of the wire. A completion
that is heard carries an id that was dealt (`IdsAreUsed`), so that it maps to the end of that
game, if only for nobody; a timeout is a failed start
whatever the game process did with it; and what the game process does by itself, the loss of
a message and its restart included, is a stutter.

### 5.4 `Commands`

For any seats, any number of commands and any window, as long as the ledger holds
`2 * Window - 1` answers of each seat (`CommandsAssumption`):

| Theorem | Property |
|---|---|
| `NeverTwice` | `RunsOnce` |
| `OneAnswer` | `AnswersAgree` |
| `LeavingIsTold` | `LeavingIsConfirmed` |
| `KeepsItsWord` | implements `CommandContract` |

The ledger forgets, so the question is whether it ever forgets a command that can
still come. The invariant says that all commands of a seat that can be tried were
sent within one window of each other (`CloseTogether`), and that such a command,
once answered, is in the seat's list with nothing after it but commands near it
(`Held`). A window holds `2 * Window - 2` of these, all different, so the oldest
answer of a list that is too long belongs to a command that cannot be tried any
more (`TailHolds`, by the pigeonhole principle: `NotSoManyNear`). Leaving clears the list and voids this
argument; but a seat leaves a table that is over (`LeftOver`), and that
table runs nothing any more. The invariant therefore speaks only of seats that have
not left. `REMEMBERED_PER_SEAT` is 64, which is enough for windows of up to 32
commands.

What becomes of the command by which a seat left is the third theorem, and its
invariant is `LeaveInv`. Leaving clears the ledger, the answers to the seat's other
commands with it, but keeps its own answer there, and from then on that answer is
held as the others were: nothing comes after it but commands near it, so
the ledger does not forget it while it can be tried again. Since the ledger is
asked before the table is looked for, a table that is gone is not noticed.
A seat has left exactly if some leaving of its was taken (the invariant says so),
which is why the claim speaks of the only one.

`KeepsItsWord` puts the three together. Under the mapping that keeps the end of the table,
the seats that left, the effects and the answers, sockets, attempts and
the ledger disappear: an answer from the ledger changes nothing, because it is one the seat
was given before (`RecallKeepsItsWord`), and a command the ledger
does not know has neither run nor been answered, unless its seat has left (`HandledAnew`).
What a seat hears of its commands after it left is promised to nobody, but none of them runs;
the contract says so in `Afterwards`.

### 5.5 `Publisher`

For any set of seats and any number of events (`PublisherAssumption`):

| Theorem | Property |
|---|---|
| `ClientsCatchUp` | `ShowsTheLatest` |
| `LobbyHearsOnce` | `EndIsTold` |
| `OneRecordOfEach` | `StoryIsWhole` |
| `TheNewestStays` | `NewestIsKept` |
| `ScreensNeverGoBack` | a screen never goes back (`ScreensGoOn`) |
| `TheRowNeverGoesBack` | nor does the row of the game (`RowGoesOn`) |

A version does not name a board: a first look taken while a flush is due shows a
newer board under the version of the flush before. So the invariant `ClientsInv`
speaks of the last version only. Nothing on a screen or on its way is newer
than it, and once no flush is due, whatever has it shows the board as it is
(`NewestIsTrue`); every connected seat has it on the screen or on its way
(`NewestIsNear`). A client that drops what is not newer therefore never drops
what it needs. The second theorem is about a flag that is set by one burst and
read by a flush that several bursts may come before: `EndInv` says that it is up
exactly while the game is over and the flush is due, which needs that no game is
over before it has started.

The other two are about the store. `StoryInv` splits the records among the row and
the flushes that have not landed, no two of which have one in common. `NewestInv` follows the last
flush: it is on its way, rejected, or the one whose board the row has. That
is not enough for the winner, which a row keeps once it has one, so the
invariant adds that no flush but the very last one names a winner, after which
nothing is due. This rests on `EndInv`: an ended game emits nothing more.

The last two are about single steps. A client accepts what has a newer version; that it then
shows a newer board is not the same, since two snapshots may share a version and
show different boards. `Onward` relates all snapshots around a seat, on its screen and on its way:
a newer version never has an older board, nor a game that is
on when an older version had it over. `RecordsInOrder` says the same of the row and of the
flushes still under way, which land in any order.

### 5.6 `TurnLoop`

For any number of seats, any budget, with or without a turn clock, and any
number of pipelines of any length that a turn sets off (`ConstantsAssumption`):

| Theorem | Property |
|---|---|
| `LapseFindsIdleBoardHolds` | `LapseFindsIdleBoard` |
| `TurnGoesOnHolds` | `TurnGoesOn` |
| `WinIsNoticedHolds` | `WinIsNoticed` |
| `WinIsFinalHolds` | `WinIsFinal` |
| `TurnBeginsCleanHolds` | `TurnBeginsClean` |
| `NothingAfterTheEndHolds` | `NothingAfterTheEnd` |
| `KeepsTheRules` | implements `GameRules` |

All of them follow from one invariant (`Invariant`). Its heart is `Agenda`: however
far pipelines, windows and clocks have got, the calls still to be made form one
of twenty lists, because a nested `drain` takes over from its caller instead of
returning to it. The other conjuncts say for each list what the board is like while it is still
ahead: whether something may be runnable (`Parked`), a card may be on its way to
the table (`OnItsWay`), the clock may stand still without anything open
(`ClockGoesOn`), a seat may meet the conditions unnoticed (`Heard`), or the
queue may hold what can be run (`Idle`). `AsksFirst` is the least obvious: a
draw takes its point before the pipelines it sets off have run, and the turn is not
ended over them, because every one of them begins with a question. `Unparked`, what a
rollback leaves of the stack, is a recursive function along the stack; what
it returns is proved by a least counterexample (`Induction`).

### 5.7 The rest

Only model-checked:

* Liveness (`EverySettles` of both game models, `TurnPasses`, `StartEnds`,
  `FreedAfterTheEnd`, `EndIsSeen`): fairness and `ENABLED` are out of the prover's
  reach. What is proved of it is safety that liveness rests on: whoever waits waits
  for a frame that is there (`NoWakeUpLost`), and a game that is at rest waits for
  somebody who can act (`TurnGoesOnHolds`).
* `CardsConserved`, `SnapshotHandsThemBack` and `SpentIsSpent` of `Reactions` where
  cards are drawn, discarded or spent under a question while a window stands: they
  hold on the tables the runs have them on, and fail on others (section 5.1).
* `CardGame` (`OncePlaced`, `NoCardLost`, `EveryStepIsFed`, `GearFollowsRules`,
  `IdleIsClean`, `DollTakesTheHit`, `ToldAsDone`). Its steps fold an
  operation over a sequence (a draw of several cards, a discard by every asked seat), and
  its rules are matched by filtering one. What a fold computes for every sequence is an
  induction over data with an operator as its parameter, which the provers cannot be given.
  `OncePlaced` and `NoCardLost` moreover hold on the boards of the run and not on all (finding 2).
  What the other models share with it is proved there: cards in one place and
  idle tables that are clean (`CardsConserved`), slots that are filled before
  they are read (`NoStepUnfed`), prices and wake-ups. What `CardGame` adds is the table
  of the box's own cards, which is finite, and the run has boards for each of them.

## 6. Findings

1. **A spent modifier comes back** (`SpentReturns`). Releasing the frame of a
   question that stands over a roll puts away every card spent since the
   question opened, also the ones aimed at the roll. If the roll then fails, its
   own frame finds nothing spent and the snapshot hands the modifier back.
   `game-state.ts:215` says "spent is spent whichever way the window went".
2. **A challenge within a challenge** (`DrawnThenSpent`). The Cloaked Sage draws
   for a magic card while it still stands to be challenged. If a slain Orthus
   then lets its owner play the magic card that was drawn, a second contest is
   open within the first. When the first is lost, `spentInto` takes the drawn card for
   one spent on it, discards it, and the snapshot has it in the deck as well.
   `docs/ENGINE_ARCHITECTURE.md:1574` says of nested challenges "the case does not arise;
   nothing enforces it". A card drawn under a roll (Crowned Serpent) and spent
   into it comes to lie in two places in the same way. A challenge played
   while both contests are open goes to the outer one, which is found first.
3. **A cursed item on offer** (`CursedOffer`). Hook, Quick Draw, Sly Pickings and
   Malamammoth let their owner play an item and offer own heroes only; `canEquip`
   takes a cursed item on somebody else's hero only. Whichever hero is picked,
   the play is dropped without a word. `malamammoth-ability.ts:20` says the offer holds "only
   heroes that can actually take it", `docs/ENGINE_ARCHITECTURE.md:299` that any bare
   hero on the table may wear an item.
4. **Two tables at once** (`TwoTables`). The completion frees an account for a new
   game, while the registry keeps its old table until every seat has left that.
   `findByAccount` then seats the account at the old table, and the new one
   waits for it in `Setup`. `game-registry.service.ts:142` says "the first match
   is the only one". No fault is needed: one opponent who does not press
   "leave" is enough.

Seen while reading the code against its documents, and not the subject of a run:

* A start that timed out is not undone. The table of the call is dealt, the group
  stays ready, and the next start deals it another. The accounts are then seated
  at the first table, whose end clears nothing. `lobby.service.ts:175` means to
  prevent creating "the same ready group twice". `Seating` contains this
  behaviour when `Faults` holds `"timeout"`.
* An empty deck over a full discard pile: the pile runs back only at the draw
  that empties the deck, so when it is empty at that draw, later discards leave
  a deck that `DrawCardAction` refuses to draw from. `draw-card-action.ts:52`
  says "an empty deck means an empty discard too".
* Bloodwing's forced discard is undone when the contest's play is rolled back.
* A choice is not checked again when it is made: `choice-window.ts:116` offers an override
  no card choice uses, and a step on a card that has moved meanwhile is
  skipped. The steps of `Tasks` have those guards; nothing goes wrong.
* The Corrupted Sabretooth's text has "On slaying: draw one card"; its ability has no draw.
* Dracos (`base-game-cards.ts:587`) slays from 5 and is fought back up to 8: it has no
  miss, and a roll of 6 slays although it is within the lower band.
* Section 8 of `docs/ENGINE_ARCHITECTURE.md` still says a roll can lapse under
  the Horn's question, which `resolve()` no longer allows.
* `docs/API_AND_SOCKETS_CONTRACT.md` says an account is freed when it leaves its
  table (lines 149 and 322; the code frees it when the game ends, and kept, it
  would exclude finding 3), that only a ready account enters a game (line 144;
  one that stands up while the start is out is seated all the same), and that a
  change of seats unseats all but the host (line 153; the code trims the list).

## 7. Not modelled

* In `Reactions`: cards beyond the kinds of section 2.1. They are in `CardGame`.
* In `CardGame`: winning (it is in `TurnLoop`), the queue in front of a command
  (likewise), the totals of a contest, the lengths of clocks and their restarts (a window
  may lapse at any time instead), the timer of a reveal and what seats see of it,
  commands that name a card of another kind (refused at the door of each action),
  expiries and roll targets no card uses, a board with more than two seats.
* The players' mistakes that `zod` and the dispatcher refuse before the engine is
  asked: a refusal changes nothing.
* Dealing and shuffling at `createGame`; its order of listeners is in `TurnLoop`.
* The lobby's event stream: it repeats the lobby's state and keeps none. The
  look-up of a session at the door; several tabs of one seat.
* A seat that never connects holds its table in `Setup` for ever
  (`game-registry.service.ts:159`): the code has no timer for it, so no property
  could say otherwise.
* Accounts and sessions; views, logs, sockets, HTTP, the client.

## 8. What is left

1. **Proofs on the cards' board.** `CardGame` in terms of moves without folds: a step on
   several cards as that many steps of the drain. The moves of `CardBoard` then
   keep a board's cards one by one, and `NoCardLost` could be proved of boards without
   contests in contests.
2. **The whole door as one contract.** `CommandContract` is what goes in,
   `ShowsTheLatest` and `ScreensNeverGoBack` what comes out; a contract of both would say that
   the last board a seat sees has its commands in it.
3. **One game.** `CardGame` and `TurnLoop` joined over frames and stack.
4. **Accounts.** Names unique across the await between the look-up and the
   insert; sessions that end.
