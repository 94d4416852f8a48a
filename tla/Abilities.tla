------------------------------ MODULE Abilities ------------------------------
(***************************************************************************)
(* The task manager at work on a board: events, the rules that answer them, *)
(* the pipelines those become, the frames and windows they wait on.         *)
(*                                                                          *)
(* Steps run inside a drain: one after the other from the top of the stack, *)
(* an event raised by a step only pushing more rules.  Code outside a drain *)
(* is a list of jobs still to do, `todo`; a job that raises an event starts *)
(* a drain, and the next job waits until the drain has ended.               *)
(***************************************************************************)
EXTENDS CardBoard

CONSTANT Boards         \* the boards a game is taken up from

VARIABLES board, stack, frames, todo, draining

vars == <<board, stack, frames, todo, draining>>

(* A world is what a step reads and rewrites: the board, the stack of       *)
(* pipelines (the last one runs) and the open frames.                       *)
Here == [b |-> board, st |-> stack, fr |-> frames]
OnBoard(w, b) == [w EXCEPT !.b = b]

NoSlots == [s \in {} |-> <<>>]

-----------------------------------------------------------------------------
(* Events *)

Event(type, p, c) ==
    [type |-> type, player |-> p, card |-> c, label |-> "", target |-> NoCard,
     slots |-> NoSlots, frame |-> 0]
Labelled(e, label, seed) == [e EXCEPT !.label = label, !.slots = seed]
Seeding(e, seed) == [e EXCEPT !.slots = seed]

(* isEffectExpired, with the expiries the cards use. *)
Expires(effect, e) ==
    \/ effect.until = "endOfTurn" /\ e.type = "TurnEnded"
    \/ /\ effect.until = "ownersNextTurn" /\ e.type = "TurnStarted"
       /\ e.player = effect.owner
    \/ /\ effect.until = "unequipped" /\ e.type = "ItemUnequipped"
       /\ e.card = effect.source

SweepExpired(b, e) ==
    [b EXCEPT !.effects = [p \in Players |->
        SelectSeq(@[p], LAMBDA effect : ~Expires(effect, e))]]

(* Everything on the table that has rules, in the order they are asked.     *)
Source(c, p, system, rules) ==
    [i \in DOMAIN rules |->
        [card |-> c, owner |-> p, system |-> system, rule |-> rules[i]]]
CardAbility(c, p) == Source(c, p, FALSE, AbilityRegistry[c])
CardAbilities(cards, p) ==
    FlattenSeq([i \in DOMAIN cards |-> CardAbility(cards[i], p)])

HeroAbility(b, p, h) ==
    CardAbility(h, p) \o Source(h, p, TRUE, HeroRules)
    \o (IF h \in DOMAIN b.worn THEN CardAbility(b.worn[h], p) ELSE <<>>)
InstanceAbility(c, p) == CardAbility(c, p) \o Source(c, p, TRUE, InstanceRules)
SeatAbilities(b, p) ==
    CardAbility(b.leader[p], p) \o CardAbilities(b.slain[p], p)
    \o FlattenSeq([i \in DOMAIN b.heroes[p] |-> HeroAbility(b, p, b.heroes[p][i])])
    \o FlattenSeq([i \in DOMAIN b.inst[p] |-> InstanceAbility(b.inst[p][i], p)])
AbilitySources(b) ==
    FlattenSeq([i \in DOMAIN Seats |-> SeatAbilities(b, Seats[i])])
    \o CardAbilities(b.row, Nobody)

TriggerMatches(b, source, e) ==
    /\ source.rule.on = e.type
    /\ source.rule.when \in {"", e.label}
    /\ CASE source.rule.scope \in {"SelfCard", "Attacker"} -> e.card = source.card
         [] source.rule.scope = "CarrierCard" ->
                e.card \in DOMAIN b.worn /\ b.worn[e.card] = source.card
         [] source.rule.scope = "OwnerEvent" -> e.player = source.owner
         [] source.rule.scope = "Anyone" -> TRUE
         [] source.rule.scope = "TargetsOwner" ->
                /\ e.target # NoCard /\ e.player # source.owner
                /\ CardOwner(b, e.target) = source.owner

(* The pipeline a matching rule becomes; `on` is the frame it waits for.    *)
Pipeline(source, e) ==
    [card |-> source.card, system |-> source.system, on |-> 0,
     owner |-> IF source.rule.scope = "Attacker" THEN e.player ELSE source.owner,
     steps |-> source.rule.steps,
     slots |-> (IF source.rule.scope = "TargetsOwner"
                THEN "chosenPlayer" :> <<e.player>> ELSE NoSlots)
               @@ e.slots @@ ("sourceCard" :> <<source.card>>)]

(* A settled frame lets go of the pipelines parked on it, and hands them    *)
(* what was decided.                                                        *)
(* Slip: the pipelines are let go of with nothing in hand. *)
SlipResume(stk, e) ==
    [i \in DOMAIN stk |-> IF e.type = "FrameResolved" /\ stk[i].on = e.frame
                          THEN [stk[i] EXCEPT !.on = 0] ELSE stk[i]]
Resume(stk, e) ==
    [i \in DOMAIN stk |->
        IF e.type = "FrameResolved" /\ stk[i].on = e.frame
        THEN [stk[i] EXCEPT !.on = 0, !.slots = e.slots @@ @] ELSE stk[i]]

(* onEvent without its drain: effects end first, then rules are matched; a  *)
(* card's own rules run before everybody else's.                            *)
Answering(b, e) ==
    SelectSeq(AbilitySources(b), LAMBDA s : TriggerMatches(b, s, e))
OwnFirst(hit, c) ==
    SelectSeq(hit, LAMBDA s : s.card = c) \o SelectSeq(hit, LAMBDA s : s.card # c)
Pipelines(hit, e) == [i \in DOMAIN hit |-> Pipeline(hit[i], e)]
Carries(e) == IF e.type = "FrameResolved" THEN Seeding(e, NoSlots) ELSE e
PushRules(w, e) ==
    [w EXCEPT !.st = Resume(@, e)
        \o Pipelines(Reverse(OwnFirst(Answering(w.b, e), e.card)), Carries(e))]
Emit(w, e) == PushRules([w EXCEPT !.b = SweepExpired(@, e)], e)

-----------------------------------------------------------------------------
(* Heroes and gear changing place, with the events that go with it *)

GearOf(b, h) == IF h \in DOMAIN b.worn THEN b.worn[h] ELSE NoCard

(* Slip: nobody is told that the item is off. *)
SlipTakeOff(w, p, h) == OnBoard(w, Unequip(w.b, h))
TakeOff(w, p, h) ==
    Emit(OnBoard(w, Unequip(w.b, h)), Event("ItemUnequipped", p, w.b.worn[h]))
PutOn(w, p, h, item) ==
    Emit(OnBoard(w, Equip(w.b, h, item)), Event("ItemEquipped", p, item))

Bared(w, p, h) == IF GearOf(w.b, h) = NoCard THEN w ELSE TakeOff(w, p, h)
RemoveHero(w, p, h) == [Bared(w, p, h) EXCEPT !.b.heroes[p] = Without(@, h)]

AddHero(w, p, h, item) ==
    LET joined == OnBoard(w, [w.b EXCEPT !.heroes[p] = Append(@, h)]) IN
    IF item = NoCard THEN joined ELSE PutOn(joined, p, h, item)

MoveHero(w, from, to, h) ==
    AddHero(RemoveHero(w, from, h), to, h, GearOf(w.b, h))

(* decoyTakesTheHit: the doll on the hero goes to the discard in its place. *)
HasDecoy(b, p, h) ==
    \E i \in DOMAIN EffectsOn(b, "TakesTheHit", p, h, "") :
        EffectsOn(b, "TakesTheHit", p, h, "")[i].source = GearOf(b, h)
DecoyTakesTheHit(w, p, h) ==
    LET off == TakeOff(w, p, h) IN OnBoard(off, ToDiscard(off.b, GearOf(w.b, h)))

(* A hero leaves the game with what it wears, and the event says how.       *)
(* Slip: what it wore is forgotten. *)
SlipKillHero(w, p, h, event) ==
    Emit([RemoveHero(w, p, h) EXCEPT !.b.discard = @ \cup {h}], Event(event, p, h))
KillHero(w, p, h, event) ==
    Emit([RemoveHero(w, p, h) EXCEPT
             !.b.discard = @ \cup ({h, GearOf(w.b, h)} \ {NoCard})],
         Event(event, p, h))
(* Slip: the doll only saves a hero from being destroyed. *)
SlipNoDecoy(w, p, h) ==
    IF h \notin Range(w.b.heroes[p]) THEN w ELSE KillHero(w, p, h, "HeroSacrificed")
SacrificeHero(w, p, h) ==
    IF h \notin Range(w.b.heroes[p]) THEN w
    ELSE IF HasDecoy(w.b, p, h) THEN DecoyTakesTheHit(w, p, h)
    ELSE KillHero(w, p, h, "HeroSacrificed")

(* retrieve: from the discard, off a hero, or out of another hand.          *)
Retrieved(w, c, p, to) ==
    LET hero == ItemCarrier(w.b, c)
        wearer == CardOwner(w.b, hero) IN
    IF c \in w.b.discard
    THEN OnBoard(w, ToHand([w.b EXCEPT !.discard = @ \ {c}], p, c))
    ELSE IF hero # NoCard
    THEN LET off == TakeOff(w, wearer, hero) IN
         OnBoard(off, ToHand(off.b, IF to = "cardOwner" THEN wearer ELSE p, c))
    ELSE IF \E q \in Players \ {p} : c \in w.b.hand[q]
    THEN LET q == CHOOSE q \in Players \ {p} : c \in w.b.hand[q] IN
         OnBoard(w, HandOver(w.b, q, p, c))
    ELSE w

(* drawIntoHand: the card drawn is seeded to whoever answers the draw.      *)
DrawnBy(p, c) == Seeding(Event("CardDrawn", p, c), "drawnCardIds" :> <<c>>)
DrawIntoHand(w, p, order) ==
    LET c == Head(w.b.deck) IN
    IF w.b.deck = <<>> THEN OnBoard(w, Drawn(w.b, order))
    ELSE Emit(OnBoard(w, ToHand(Drawn(w.b, order), p, c)), DrawnBy(p, c))

-----------------------------------------------------------------------------
(* Frames and windows *)

Question(kind, p, options) ==
    [kind |-> kind, who |-> p, options |-> options, into |-> "", source |-> NoCard,
     seed |-> NoSlots, open |-> TRUE, picks |-> <<>>]
Contest(p, c, b) ==
    [kind |-> "Contest", who |-> p, card |-> c, challenger |-> Nobody,
     challengeable |-> CanBeChallenged(b, p, c), open |-> TRUE]
RollWindow(p, h, total) ==
    [kind |-> "Roll", who |-> p, hero |-> h, total |-> total,
     asked |-> total >= RollReq(h), targets |-> NoSlots, open |-> TRUE]
AttackWindow(p, m, total) ==
    [kind |-> "Attack", who |-> p, monster |-> m, total |-> total, open |-> TRUE]

(* The dice fall just short of what is needed or just make it. *)
Dice(n) == Max({2, Min({12, n})})
Throws(needs) == {Dice(needs - 1), Dice(needs)}

JobFrames == {todo[i].id : i \in DOMAIN todo}
NewFrame ==
    1 + Max({0} \cup JobFrames \cup {frames[i].id : i \in DOMAIN frames}
                \cup {stack[i].on : i \in DOMAIN stack})

OpenFrame(w, wins) ==
    [w EXCEPT !.fr = Append(@, [id |-> NewFrame, snap |-> w.b, wins |-> wins])]
AddWindow(w, id, win) ==
    [w EXCEPT !.fr = [i \in DOMAIN @ |->
        IF @[i].id = id THEN [@[i] EXCEPT !.wins = Append(@, win)] ELSE @[i]]]

(* announceStanding: the first time a roll passes, its target is asked for. *)
Passing(w, p, h, total) ==
    IF total >= RollReq(h) THEN Emit(w, Event("RollPassing", p, h)) ELSE w

FrameAt(fr, id) == CHOOSE i \in DOMAIN fr : fr[i].id = id
IsOpen(frame) == \E j \in DOMAIN frame.wins : frame.wins[j].open
(* Slip: a frame counts itself. *)
SlipCountsItself(i) == \E k \in i .. Len(frames) : IsOpen(frames[k])
HasOpenFramesAfter(i) == \E k \in i + 1 .. Len(frames) : IsOpen(frames[k])

(* getFrameByWindowType: the first frame with a window of the kind, be it   *)
(* still open or not.                                                       *)
FramesOf(fr, kind) ==
    {i \in DOMAIN fr : \E j \in DOMAIN fr[i].wins : fr[i].wins[j].kind = kind}
FirstOpen(fr, kind) ==
    {i \in FramesOf(fr, kind) : i = Min(FramesOf(fr, kind)) /\ IsOpen(fr[i])}

(* findOpenModifiableWindow: a roll before an attack before a challenge.    *)
OpenModifiable(fr) ==
    IF FirstOpen(fr, "Roll") # {} THEN FirstOpen(fr, "Roll")
    ELSE IF FirstOpen(fr, "Attack") # {} THEN FirstOpen(fr, "Attack")
    ELSE FirstOpen(fr, "Contest")

AcceptsModifierFor(win, p) ==
    IF win.kind = "Contest"
    THEN win.challenger # Nobody /\ p \in {win.challenger, win.who}
    ELSE p = win.who

(* spentInto: reaction cards played since the frame opened, the contested   *)
(* card itself apart.                                                       *)
SpentInto(b, frame) ==
    LET subjects == {frame.wins[j].card : j \in {k \in DOMAIN frame.wins :
                                              frame.wins[k].kind = "Contest"}} IN
    [p \in Players |->
        Range(b.inst[p]) \ (Range(frame.snap.inst[p]) \cup subjects)]
IsSpentInOpenFrame(w, c) ==
    \E i \in DOMAIN w.fr : \E p \in Players : c \in SpentInto(w.b, w.fr[i])[p]

WithoutFrame(fr, id) == SelectSeq(fr, LAMBDA f : f.id # id)
AllSpent(spent) == UNION {spent[p] : p \in Players}

(* Slip: what was spent on the frame stays where it was played. *)
SlipReleaseFrame(w, id) == [w EXCEPT !.fr = WithoutFrame(@, id)]
ReleaseFrame(w, id) ==
    LET spent == SpentInto(w.b, w.fr[FrameAt(w.fr, id)]) IN
    [w EXCEPT !.fr = WithoutFrame(@, id),
              !.b.inst = [p \in Players |->
                             SelectSeq(@[p], LAMBDA c : c \notin spent[p])],
              !.b.discard = @ \cup AllSpent(spent)]

(* Slip: the old hands come back whole. *)
SlipRestoreFrame(w, id) ==
    LET frame == w.fr[FrameAt(w.fr, id)] IN
    [b |-> [frame.snap EXCEPT !.discard = @ \cup AllSpent(SpentInto(w.b, frame))],
     fr |-> WithoutFrame(w.fr, id),
     st |-> SelectSeq(w.st, LAMBDA pipeline : pipeline.on # id)]
RestoreFrame(w, id) ==
    LET frame == w.fr[FrameAt(w.fr, id)]
        spent == SpentInto(w.b, frame) IN
    [b |-> [frame.snap EXCEPT
               !.hand = [p \in Players |-> @[p] \ spent[p]],
               !.discard = @ \cup AllSpent(spent)],
     fr |-> WithoutFrame(w.fr, id),
     st |-> SelectSeq(w.st, LAMBDA pipeline : pipeline.on # id)]

-----------------------------------------------------------------------------
(* The drain: nextStep takes the next step off the top pipeline *)

Runnable(stk) == stk # <<>> /\ Last(stk).on = 0
At == Len(stack)
Top == Last(stack)
Me == Top.owner
Step == Head(Top.steps)
Slot(slot) == SlotOf(Top, slot)

Doing(kind) ==
    draining /\ Runnable(stack) /\ Top.steps # <<>> /\ Step.do = kind
Taken == [Here EXCEPT !.st[At].steps = Tail(@)]

(* The step is over; the drain goes on while there is something to run.     *)
Done(w) ==
    /\ board' = w.b /\ stack' = w.st /\ frames' = w.fr
    /\ draining' = Runnable(w.st)
    /\ UNCHANGED todo
Write(w, slot, picks) == [w EXCEPT !.st[At].slots = (slot :> picks) @@ @]

(* pauseOn: the step waits for the frame, and with that the drain ends,     *)
(* whatever it may have pushed above itself.                                *)
ParkOn(w, id) ==
    /\ board' = w.b /\ frames' = w.fr /\ stack' = [w.st EXCEPT ![At].on = id]
    /\ draining' = FALSE
    /\ UNCHANGED todo
Ask(w, wins) == ParkOn(OpenFrame(w, wins), NewFrame)

(* A spent pipeline leaves the stack, and the last one of a card says so.   *)
Retire ==
    /\ draining /\ Runnable(stack) /\ Top.steps = <<>>
    /\ LET left == [Here EXCEPT !.st = Front(@)]
           more == \E i \in DOMAIN left.st : ~left.st[i].system
                                             /\ left.st[i].card = Top.card IN
       Done(IF Top.system \/ more THEN left
            ELSE Emit(left, Event("AbilityDone", Me, Top.card)))
=============================================================================
