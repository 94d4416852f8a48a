------------------------------- MODULE CardGame -------------------------------
(***************************************************************************)
(* A game played with the cards of the base set: the drain of Tasks, the    *)
(* windows players and clocks close, the cards spent on them, and the       *)
(* commands of a turn.                                                      *)
(*                                                                          *)
(* Players and timers act only when no code runs: no drain and no job.  The *)
(* clock of a window is the choice to settle it at any time, what it picks  *)
(* is one of the options, and either side may win a contest.  A command     *)
(* comes when the board is idle and names a card of the right kind; the     *)
(* queue in front of it is TurnLoop's.  Winning the game is left out.       *)
(*                                                                          *)
(* Bounds: the turns of a board, and Allowance, the points of a turn.       *)
(***************************************************************************)
EXTENDS Tasks

CONSTANT Allowance      \* action points a turn starts with

-----------------------------------------------------------------------------
(* Jobs: what the code outside a drain still has to do *)

Raise(e) == [job |-> "Emit", id |-> 0, event |-> e]
(* An event no rule answers; it goes on with whatever the stack holds.      *)
Note == Raise(Event("Noted", Nobody, NoCard))
OpenWindow(id, win) == [job |-> "OpenWindow", id |-> id, win |-> win]
DrawUp(p) == [job |-> "DrawUp", id |-> 0, player |-> p]
Settle(id) == [job |-> "Settle", id |-> id]
FrameResolved(id, c, slots) ==
    [Raise([Seeding(Event("FrameResolved", Nobody, c), slots) EXCEPT !.frame = id])
        EXCEPT !.id = id]

Quiet == ~draining /\ todo = <<>>
NextJob(kind) == ~draining /\ todo # <<>> /\ Head(todo).job = kind
Job == Head(todo)

(* The state after a piece of code: the world it leaves and what is to do.  *)
Becomes(w, jobs) ==
    /\ board' = w.b /\ stack' = w.st /\ frames' = w.fr /\ todo' = jobs
    /\ draining' = FALSE
Continues(w, jobs) == Becomes(w, jobs \o Tail(todo))

RunEmit ==
    /\ NextJob("Emit")
    /\ LET w == Emit(Here, Job.event) IN
       /\ board' = w.b /\ stack' = w.st /\ frames' = w.fr
       /\ todo' = Tail(todo)
       /\ draining' = Runnable(w.st)

RunOpenWindow ==
    /\ NextJob("OpenWindow")
    /\ Continues(AddWindow(Here, Job.id, Job.win), <<>>)

(* A redraw draws one card at a time, and each draw is answered before the  *)
(* next.                                                                    *)
HandSize == 5
RunDrawUp ==
    /\ NextJob("DrawUp")
    /\ LET p == Job.player IN
       \E order \in Shuffles(board, 1) :
          LET after == OnBoard(Here, Drawn(board, order))
              c == Head(board.deck) IN
          IF Cardinality(board.hand[p]) >= HandSize THEN Continues(Here, <<>>)
          ELSE IF board.deck = <<>> THEN Continues(after, <<>>)
          ELSE Continues(OnBoard(after, ToHand(after.b, p, c)),
                         <<Raise(DrawnBy(p, c)), DrawUp(p)>>)

-----------------------------------------------------------------------------
(* A roll, an attack or a contest settles, unless something opened since    *)
(* has not.                                                                 *)

CanSettle(i) ==
    /\ IsOpen(frames[i]) /\ frames[i].wins[1].kind \in {"Roll", "Attack", "Contest"}
    /\ ~HasOpenFramesAfter(i)
Settles ==
    /\ Quiet
    /\ \E i \in DOMAIN frames :
          /\ CanSettle(i)
          /\ Becomes([Here EXCEPT !.fr[i].wins[1].open = FALSE],
                     <<Note, Settle(frames[i].id)>>)

Settling(kind) ==
    NextJob("Settle") /\ frames[FrameAt(frames, Job.id)].wins[1].kind = kind
Window == frames[FrameAt(frames, Job.id)].wins[1]
Resolved == FrameResolved(Job.id, NoCard, NoSlots)

SettleRoll ==
    /\ Settling("Roll")
    /\ LET hero == Event("RollSuccess", Window.who, Window.hero) IN
       IF Window.total < RollReq(Window.hero)
       THEN Continues(RestoreFrame(Here, Job.id),
                      <<Raise([hero EXCEPT !.type = "RollFailed"]), Resolved>>)
       ELSE Continues(ReleaseFrame(Here, Job.id),
                      <<Raise(Seeding(hero, Window.targets)), Resolved>>)

SettleAttack ==
    /\ Settling("Attack")
    /\ LET p == Window.who
           m == Window.monster
           result == TrySlay(m, Window.total)
           won == ReleaseFrame(Here, Job.id)
           lost == RestoreFrame(Here, Job.id) IN
       CASE result = "Slay" ->
                Continues(OnBoard(won, Slay(won.b, p, m)),
                          <<Raise(Event("MonsterSlain", p, m)), Resolved>>)
         [] result = "FightBack" ->
                Continues(lost, <<Raise(Event("MonsterFoughtBack", p, m)), Resolved>>)
         [] result = "Miss" -> Continues(lost, <<Resolved>>)

(* A card nobody challenged stays.  One that stood up to a challenge cannot *)
(* be challenged again this turn; one that did not is discarded, and the    *)
(* board is as it was before it was played.                                 *)
SettleContest ==
    /\ Settling("Contest")
    /\ LET c == Window.card
           won == ReleaseFrame(Here, Job.id)
           lost == RestoreFrame(Here, Job.id)
           done == <<FrameResolved(Job.id, c, NoSlots)>> IN
       IF Window.challenger = Nobody THEN Continues(won, done)
       ELSE \/ Continues([won EXCEPT !.b.contested = @ \cup {c}], done)
            \/ Continues(OnBoard(lost, ToDiscard(lost.b, c)), done)

-----------------------------------------------------------------------------
(* A question is answered, by its player or by its clock *)

Picks(win) ==
    IF win.options = {} THEN {<<>>}
    ELSE {<<o>> : o \in win.options}
         \cup (IF win.kind = "Player" THEN {<<>>} ELSE {})
Asking(win) == win.open /\ win.kind \in {"Card", "Player", "Value", "Task"}

(* contextWrite: what each window of the frame came to, by its slot.        *)
WritesOf(wins) ==
    LET slots == {wins[j].into : j \in DOMAIN wins} \ {""} IN
    [s \in slots |-> wins[CHOOSE j \in DOMAIN wins : wins[j].into = s].picks]

Confirmation(win, picks) ==
    IF win.kind # "Task" \/ picks = <<Dismiss>> THEN <<>>
    ELSE <<Raise(Labelled(Event("TaskConfirmed", win.who, win.source),
                          Head(picks), win.seed))>>

(* The last answer of a frame closes it.  What was confirmed is announced   *)
(* before the frame is.                                                     *)
Answer ==
    /\ Quiet
    /\ \E i \in DOMAIN frames : \E j \in DOMAIN frames[i].wins :
          LET id == frames[i].id
              win == frames[i].wins[j] IN
          /\ Asking(win)
          /\ \E picks \in Picks(win) :
                LET w == [Here EXCEPT !.fr[i].wins[j].open = FALSE,
                                      !.fr[i].wins[j].picks = picks]
                    said == <<Note>> \o Confirmation(win, picks)
                    writes == WritesOf(w.fr[i].wins) IN
                IF IsOpen(w.fr[i]) THEN Becomes(w, said)
                ELSE Becomes(ReleaseFrame(w, id),
                             said \o <<FrameResolved(id, NoCard, writes)>>)
-----------------------------------------------------------------------------
(* Cards spent on an open window: they lie in front of whoever spent them   *)
(* until its frame closes.                                                  *)

Spent(p, c) == OnBoard(Here, ToInstance(FromHand(board, p, c), p, c))

PlayModifier(p, c) ==
    /\ Quiet /\ c \in board.hand[p] /\ IsOfType(c, "Modifier")
    /\ \E v \in Modifiers[c], i \in OpenModifiable(frames), aimed \in Players :
          /\ AcceptsModifierFor(frames[i].wins[1], aimed)
          /\ Becomes(Spent(p, c),
                <<Raise(Seeding(Event("ModifierPlayed", p, c),
                                ("modifierTarget" :> <<aimed>>)
                                @@ ("chosenValue" :> <<v>>)))>>)

PlayChallenge(p, c) ==
    /\ Quiet /\ c \in board.hand[p] /\ IsOfType(c, "Challenge")
    /\ \E i \in FirstOpen(frames, "Contest") :
          LET win == frames[i].wins[1] IN
          /\ win.challengeable /\ win.card \notin board.contested
          /\ win.challenger = Nobody /\ win.who # p
          /\ Becomes(Spent(p, c),
                <<Raise([Event("ChallengePlayed", p, c) EXCEPT !.target = win.card])>>)

-----------------------------------------------------------------------------
(* The commands of a turn *)

Idle == Quiet /\ stack = <<>> /\ ~\E i \in DOMAIN frames : IsOpen(frames[i])
Player == board.current
Affords(n) == Idle /\ board.points[Player] >= n
Paid(n) == [board EXCEPT !.points[Player] = @ - n]
InHand(c, type) == c \in board.hand[Player] /\ IsOfType(c, type)

(* A card is paid for and leaves the hand, and then the frame is opened: to *)
(* lose the challenge costs the point.                                      *)
PaidFor(c, wins) == OpenFrame(OnBoard(Here, FromHand(Paid(1), Player, c)), wins)

PlayHeroCommand(c) ==
    /\ Affords(1) /\ InHand(c, "Hero")
    /\ Becomes(AddHero(PaidFor(c, <<Contest(Player, c, board)>>), Player, c, NoCard),
               <<>>)

PlayMagicCommand(c) ==
    /\ Affords(1) /\ InHand(c, "Magic")
    /\ LET w == PaidFor(c, <<>>) IN
       Becomes(OnBoard(w, ToInstance(w.b, Player, c)),
               <<Raise(Event("MagicPlayed", Player, c)),
                 OpenWindow(NewFrame, Contest(Player, c, board))>>)

PlayItemCommand(c, h) ==
    /\ Affords(1) /\ InHand(c, "Item") /\ CanEquip(board, Player, c, h)
    /\ LET w == PaidFor(c, <<>>) IN
       Becomes(OnBoard(w, Equip(w.b, h, c)),
               <<Raise(Event("ItemEquipped", Player, c)),
                 OpenWindow(NewFrame, Contest(Player, c, board))>>)

(* A roll that passes asks for its target before its window is open. *)
RollOnHeroCommand(h) ==
    /\ Affords(1) /\ h \in Range(board.heroes[Player]) \ board.used
    /\ CanUseHeroEffect(board, Player, h)
    /\ LET bonus == RollBonus(board, Player, h, "HeroEffect")
           w == OpenFrame(OnBoard(Here, [Paid(1) EXCEPT !.used = @ \cup {h}]), <<>>) IN
       \E dice \in Throws(RollReq(h) - bonus) :
          LET win == RollWindow(Player, h, dice + bonus) IN
          Becomes(w, (IF win.asked THEN <<Raise(Event("RollPassing", Player, h))>>
                      ELSE <<>>) \o <<OpenWindow(NewFrame, win)>>)

RollOnLeaderCommand ==
    LET leader == board.leader[Player] IN
    /\ Affords(1) /\ IsActivatable(leader) /\ leader \notin board.used
    /\ Becomes(OnBoard(Here, [Paid(1) EXCEPT !.used = @ \cup {leader}]),
               <<Raise(Event("LeaderActivated", Player, leader))>>)

AttackMonsterCommand(m) ==
    /\ Affords(2) /\ CanAttackMonster(board, Player, m)
    /\ LET bonus == RollBonus(board, Player, NoCard, "Attack") IN
       \E dice \in {Dice(n - bonus) : n \in {Monsters[m].lower, Monsters[m].higher - 1,
                                             Monsters[m].higher}} :
          Becomes(OpenFrame(OnBoard(Here, Paid(2)),
                            <<AttackWindow(Player, m, dice + bonus)>>), <<>>)

MaxHandSize == 10
DrawCardCommand ==
    /\ Affords(1) /\ board.deck # <<>>
    /\ Cardinality(board.hand[Player]) < MaxHandSize
    /\ LET c == Head(board.deck) IN
       \E order \in Shuffles(board, 1) :
          Becomes(OnBoard(Here, ToHand(Drawn(Paid(1), order), Player, c)),
                  <<Raise(DrawnBy(Player, c))>>)

RedrawHandCommand ==
    /\ Affords(3)
    /\ Becomes(OnBoard(Here, [Paid(3) EXCEPT !.discard = @ \cup board.hand[Player],
                                             !.hand[Player] = {}]),
               <<DrawUp(Player)>>)

EndTurnCommand ==
    /\ Affords(1)
    /\ Becomes(OnBoard(Here, Paid(board.points[Player])), <<>>)

-----------------------------------------------------------------------------
(* endTurn and startTurn: the next seat, with a clean slate and what its    *)
(* monsters give it.                                                        *)
NextSeat(p) ==
    LET i == CHOOSE i \in DOMAIN Seats : Seats[i] = p IN Seats[(i % Len(Seats)) + 1]

NextTurn ==
    /\ Idle /\ board.points[Player] = 0 /\ board.turns > 0
    /\ LET p == NextSeat(Player)
           ended == SweepExpired(board, Event("TurnEnded", Player, NoCard))
           extra == Total(EffectsOn(ended, "ActionPointBonus", p, NoCard, ""))
           started == [ended EXCEPT !.current = p, !.used = {}, !.contested = {},
                                    !.points[p] = Allowance + extra,
                                    !.turns = @ - 1] IN
       Becomes(OnBoard(Here, SweepExpired(started, Event("TurnStarted", p, NoCard))),
               <<>>)

Over == Idle /\ board.points[Player] = 0 /\ board.turns = 0

-----------------------------------------------------------------------------

Init ==
    /\ board \in Boards
    /\ stack = <<>> /\ frames = <<>> /\ draining = FALSE
    /\ todo = <<Raise(Event("GameStarted", Nobody, NoCard))>>

RunJob ==
    RunEmit \/ RunOpenWindow \/ RunDrawUp
    \/ SettleRoll \/ SettleAttack \/ SettleContest
React ==
    \E p \in Players : \E c \in board.hand[p] : PlayModifier(p, c) \/ PlayChallenge(p, c)
Command ==
    \/ \E c \in board.hand[Player] :
          \/ PlayHeroCommand(c) \/ PlayMagicCommand(c)
          \/ \E h \in UNION {Range(board.heroes[p]) : p \in Players} :
                PlayItemCommand(c, h)
    \/ \E h \in Range(board.heroes[Player]) : RollOnHeroCommand(h)
    \/ \E m \in Range(board.row) : AttackMonsterCommand(m)
    \/ RollOnLeaderCommand \/ DrawCardCommand \/ RedrawHandCommand
    \/ EndTurnCommand

Next ==
    \/ RunStep \/ RunJob
    \/ Answer \/ Settles \/ React
    \/ Command \/ NextTurn
    \/ (Over /\ UNCHANGED vars)

Spec == Init /\ [][Next]_vars

(* Weak fairness of the code and of the clocks, with what enables either    *)
(* spelled out: a drain and the code around it run to their end (no state   *)
(* but Quiet ones lets anything else happen, and none is a deadlock), and   *)
(* every window has a clock that answers it for a player who does not.      *)
Waiting ==
    /\ Quiet
    /\ \E i \in DOMAIN frames :
          \/ \E j \in DOMAIN frames[i].wins : Asking(frames[i].wins[j])
          \/ CanSettle(i)
CodeRuns == []<>Quiet \/ []<><<RunStep \/ RunJob>>_vars
ClocksRun == []<>(~Waiting) \/ []<><<Answer \/ Settles>>_vars
FairSpec == Spec /\ CodeRuns /\ ClocksRun

-----------------------------------------------------------------------------
(* Properties *)

(* The piles of a board, each with the cards it holds. *)
Piles(b) ==
    {<<"deck", Range(b.deck)>>, <<"discard", b.discard>>, <<"row", Range(b.row)>>,
     <<"monsters", Range(b.monsters)>>, <<"worn", Range(b.worn)>>}
    \cup UNION {{<<p, "hand", b.hand[p]>>, <<p, "heroes", Range(b.heroes[p])>>,
                 <<p, "slain", Range(b.slain[p])>>, <<p, "inst", Range(b.inst[p])>>}
                : p \in Players}
Pile(x) == x[Len(x)]
CardsOn(b) == UNION {Pile(x) : x \in Piles(b)}

(* Whatever is played, stolen, traded, contested and rolled back, a card    *)
(* lies in one place (restoreFrame puts the old board back without the      *)
(* cards spent since).                                                      *)
OncePlaced ==
    \A x, y \in Piles(board) : x # y => Pile(x) \cap Pile(y) = {}

(* And none is lost or made: what a hero wears goes where the hero goes.    *)
NoCardLost == [][CardsOn(board') = CardsOn(board)]_vars

(* Steps of one rule, and rules that confirm each other, agree on the slots *)
(* they hand cards over in, by name only: when a step runs, a slot it reads *)
(* has been written, if only with nothing, and holds cards of its kind.     *)
Reads(step) ==
    (CASE step.do \in {"Destroy", "Sacrifice", "Steal", "Discard", "TradeHands",
                       "Retrieve", "PlayMagic", "PlayHero", "RollOnHero"} -> {step.from}
       [] step.do = "Pull" /\ step.seats.owner = "" -> {step.from}
       [] step.do = "GiveHero" -> {step.from, step.to}
       [] step.do = "PlayItem" -> {step.item, step.hero}
       [] step.do \in {"SacrificeEach", "DiscardEach", "RetrieveEach"} -> {"askedSeats"}
       [] step.do = "ApplyModifier" -> {"chosenValue", "modifierTarget"}
       [] OTHER -> {})
    \cup (IF "by" \in DOMAIN step /\ step.by = "chosen" THEN {"chosenPlayer"} ELSE {})
Holding(slot, type) == \A c \in Range(Slot(slot)) : IsOfType(c, type)
EveryStepIsFed ==
    draining /\ Runnable(stack) /\ Top.steps # <<>> =>
        /\ Reads(Step) \subseteq DOMAIN Top.slots
        /\ Step.do \in {"Destroy", "Sacrifice", "Steal", "GiveHero",
                        "PlayHero", "RollOnHero"} => Holding(Step.from, "Hero")
        /\ Step.do = "PlayMagic" => Holding(Step.from, "Magic")
        /\ Step.do = "PlayItem" =>
              Holding(Step.item, "Item") /\ Holding(Step.hero, "Hero")

(* Between commands an item that does something while it is worn has done   *)
(* so once: for the seat whose hero wears it, scoped to that hero, whatever *)
(* it was moved by.  One that is not worn does nothing.                     *)
WorksWorn(c) ==
    \E i \in DOMAIN AbilityRegistry[c] : AbilityRegistry[c][i].on = "ItemEquipped"
EffectsFrom(c) ==
    {<<p, i>> \in Players \X (1 .. 9) : /\ i \in DOMAIN board.effects[p]
                                        /\ board.effects[p][i].source = c}
GearFollowsRules ==
    Idle => \A c \in DOMAIN Wearables :
        LET h == ItemCarrier(board, c) IN
        IF h = NoCard \/ ~WorksWorn(c) THEN EffectsFrom(c) = {}
        ELSE \E p \in Players, i \in 1 .. 9 :
                /\ EffectsFrom(c) = {<<p, i>>}
                /\ h \in Range(board.heroes[p]) /\ board.effects[p][i].card = h

(* Between commands nothing of what was played is left in front of a seat,  *)
(* and no frame holds a board to go back to.                                *)
IdleIsClean == Idle => frames = <<>> /\ \A p \in Players : board.inst[p] = <<>>

(* A hero that wears the decoy never goes to the discard by whatever was to *)
(* destroy or sacrifice it: the doll goes instead (decoyTakesTheHit).       *)
DollTakesTheHit ==
    [][\A h \in DOMAIN board.worn :
          board.worn[h] = "DecoyDoll" /\ h \notin board.discard
          => h \notin board'.discard]_vars

(* What a step tells the steps behind it is what it did: the cards it names *)
(* in its slot are those that changed hands or parties, though the deck may *)
(* run dry, the hand may be empty or the hero gone.  A destroy, a steal or  *)
(* a play may hang on it.                                                   *)
Told == [Draw |-> "drawnCardIds", Pull |-> "pulledCardIds", Steal |-> "stolenHeroId",
         Discard |-> "discardedCards", DiscardEach |-> "discardedCards"]
HeldBy(b) ==
    UNION {{<<p, c>> : c \in b.hand[p] \cup Range(b.heroes[p])} : p \in Players}
Moved(b, c) == {x[2] : x \in (HeldBy(b) \ HeldBy(c)) \cup (HeldBy(c) \ HeldBy(b))}
ToldAsDone ==
    [][\A kind \in DOMAIN Told : Doing(kind) =>
          Range(SlotOf(stack'[At], Told[kind])) = Moved(board, board')]_vars

(* Whatever is going on comes to an end, on clocks alone. *)
EverySettles == []<>Idle

-----------------------------------------------------------------------------
(* A claim of the documentation that the code does not keep. *)

(* The offer of a hero to wear an item holds only heroes that can take it.  *)
OfferHolds ==
    Doing("PlayItem") /\ Slot(Step.item) # <<>> /\ Slot(Step.hero) # <<>>
    => CanEquip(board, Me, Head(Slot(Step.item)), Head(Slot(Step.hero)))
=============================================================================
