-------------------------------- MODULE Tasks --------------------------------
(***************************************************************************)
(* The steps rules are made of, one action for each task class: what it     *)
(* reads from the running rule's slots, what it does to the board, what it  *)
(* announces, and which frame it waits on, if it asks.                      *)
(***************************************************************************)
EXTENDS Abilities

(* Steps that ask *)

DoChoosePlayer ==
    /\ Doing("ChoosePlayer")
    /\ LET options == FilterPlayers(board, Top, Step.seats) IN
       Ask(Taken, <<[Question("Player", Me, options)
                       EXCEPT !.into = "chosenPlayer", !.source = Top.card]>>)

CardQuestion(p, options, slot) ==
    [Question("Card", p, options) EXCEPT !.into = slot, !.source = Top.card]

DoChooseCard ==
    /\ Doing("ChooseCard")
    /\ LET who == ExecutorOf(Top, Step.filter.by)
           options == FilterCards(board, Top, Step.filter) IN
       IF who = Nobody \/ (Step.needs # "" /\ Slot(Step.needs) = <<>>)
       THEN Done(Write(Taken, Step.into, <<>>))
       ELSE Ask(Taken, <<CardQuestion(who, options, Step.into)>>)

(* One frame, with a window for each seat that has to answer.  A seat's     *)
(* answer goes to a slot of its own, named for the seat.                    *)
DoChooseCardEach ==
    /\ Doing("ChooseCardEach")
    /\ LET asked == FilterPlayers(board, Top, Step.seats)
           seats == SelectSeq(Seats, LAMBDA p : p \in asked)
           w == Write(Taken, "askedSeats", seats)
           window(p) ==
               CardQuestion(p, CardsOfSeat(board, Top, Step.filter, p), p) IN
       IF seats = <<>> THEN Done(w)
       ELSE Ask(w, [i \in DOMAIN seats |-> window(seats[i])])

DoChooseValue ==
    /\ Doing("ChooseValue")
    /\ Ask(Taken, <<[Question("Value", Me, Range(Step.values))
                       EXCEPT !.into = "chosenValue", !.source = Top.card]>>)

CarriedSeat ==
    IF Slot("chosenPlayer") = <<>> THEN NoSlots
    ELSE "chosenPlayer" :> Slot("chosenPlayer")
Dismiss == "dismiss"

(* A question whose subject is empty, or that nobody is there to answer, is *)
(* not asked.                                                               *)
AskTask(w, subject, who, actions, source) ==
    LET held == SlotOf(Last(w.st), subject)
        about == IF subject = "" THEN NoSlots ELSE subject :> held IN
    IF who = Nobody \/ (subject # "" /\ held = <<>>) THEN Done(w)
    ELSE Ask(w, <<[Question("Task", who, actions)
                     EXCEPT !.source = source, !.seed = CarriedSeat @@ about]>>)

DoConfirm ==
    /\ Doing("Confirm")
    /\ AskTask(Taken, Step.subject, ExecutorOf(Top, Step.by),
               {Step.label, Dismiss}, Top.card)

(* CardTypeCondition: those of the cards that are of the type, if any.      *)
DoCondition ==
    /\ Doing("Condition")
    /\ LET held == SelectSeq(Slot(Step.from), LAMBDA c : IsOfType(c, Step.type)) IN
       Done(IF held = <<>> THEN Taken
            ELSE Emit(Taken, Labelled(Event("ConditionMet", Me, Top.card),
                                      Step.label,
                                      CarriedSeat @@ (Step.from :> held))))

(* landRollTarget: what the roll is aimed at waits with it for the outcome. *)
(* An attack takes targets too, and nothing reads them.                     *)
DoTarget ==
    /\ Doing("Target")
    /\ LET rolls == {i \in OpenModifiable(frames) :
                        frames[i].wins[1].kind = "Roll"} IN
       Done([Taken EXCEPT !.fr = [i \in DOMAIN @ |->
                IF i \in rolls
                THEN [@[i] EXCEPT !.wins[1].targets =
                         (Step.from :> Slot(Step.from)) @@ @]
                ELSE @[i]]])

-----------------------------------------------------------------------------
(* Steps on heroes.  A step whose slot is empty, or whose card has moved     *)
(* since it was picked, is over without a word.                             *)

InParty(p, h) == p \in Players /\ h \in Range(board.heroes[p])

(* A Corrupted Sabretooth's owner is asked whether to steal it instead. *)
DoDestroy ==
    /\ Doing("Destroy")
    /\ LET w == Write(Taken, "destroyedHeroItem", <<>>)
           h == Head(Slot(Step.from))
           p == CardOwner(board, h)
           instead == EffectsOn(board, "StealsInsteadOfDestroy", Me, NoCard, "")
           gear == GearOf(board, h)
           looted == IF gear = NoCard THEN w
                     ELSE Write(w, "destroyedHeroItem", <<gear>>) IN
       IF Slot(Step.from) = <<>> \/ ~InParty(p, h) \/ ~CanBeDestroyed(board, h)
       THEN Done(w)
       ELSE IF HasDecoy(board, p, h) THEN Done(DecoyTakesTheHit(w, p, h))
       ELSE IF Step.replaceable /\ instead # <<>> /\ p # Me
       THEN AskTask(Write(w, "wouldDestroy", <<h>>), "wouldDestroy", Me,
                    {StealInstead, DestroyAnyway}, Head(instead).source)
       ELSE Done(KillHero(looted, p, h, "HeroDestroyed"))

DoSacrifice ==
    /\ Doing("Sacrifice")
    /\ LET p == ExecutorOf(Top, Step.by) IN
       Done(IF Slot(Step.from) = <<>> \/ p = Nobody THEN Taken
            ELSE SacrificeHero(Taken, p, Head(Slot(Step.from))))

DoSteal ==
    /\ Doing("Steal")
    /\ LET h == Head(Slot(Step.from))
           p == CardOwner(board, h)
           none == Write(Write(Taken, "stolenHeroId", <<>>),
                         "stolenFromPlayer", <<>>)
           mine == Write(Write(Taken, "stolenHeroId", <<h>>),
                         "stolenFromPlayer", <<p>>) IN
       IF \/ Slot(Step.from) = <<>> \/ p = Me \/ ~InParty(p, h)
          \/ HasEffect(board, "CantBeStolen", p)
       THEN Done(none) ELSE Done(MoveHero(mine, p, Me, h))

DoGiveHero ==
    /\ Doing("GiveHero")
    /\ LET h == Head(Slot(Step.from))
           to == Head(Slot(Step.to)) IN
       Done(IF \/ Slot(Step.from) = <<>> \/ Slot(Step.to) = <<>>
               \/ to = Me \/ ~InParty(Me, h)
            THEN Taken ELSE MoveHero(Taken, Me, to, h))

(* What each asked seat answered, one seat after the other. *)
ForEachAsked(w, act(_, _, _)) ==
    FoldLeft(LAMBDA x, p : IF Slot(p) = <<>> THEN x ELSE act(x, p, Head(Slot(p))),
             w, Slot("askedSeats"))

DoSacrificeEach ==
    /\ Doing("SacrificeEach")
    /\ Done(ForEachAsked(Taken, SacrificeHero))

-----------------------------------------------------------------------------
(* Steps on hands and piles *)

DiscardOne(w, p, c) == OnBoard(w, DiscardFromHand(w.b, p, c))
DiscardAsked(w, p, c) == IF c \in w.b.hand[p] THEN DiscardOne(w, p, c) ELSE w

(* Slip: a discard that comes to nothing leaves the last one's card standing. *)
SlipDiscard ==
    /\ Doing("Discard")
    /\ LET p == ExecutorOf(Top, Step.by)
           c == Head(Slot(Step.from)) IN
       Done(IF Slot(Step.from) = <<>> \/ p = Nobody \/ c \notin board.hand[p]
            THEN Taken
            ELSE DiscardOne(Write(Taken, "discardedCards", <<c>>), p, c))

DoDiscard ==
    /\ Doing("Discard")
    /\ LET p == ExecutorOf(Top, Step.by)
           c == Head(Slot(Step.from)) IN
       Done(IF Slot(Step.from) = <<>> \/ p = Nobody \/ c \notin board.hand[p]
            THEN Write(Taken, "discardedCards", <<>>)
            ELSE DiscardOne(Write(Taken, "discardedCards", <<c>>), p, c))

DoDiscardEach ==
    /\ Doing("DiscardEach")
    /\ LET gone == SelectSeq(Slot("askedSeats"), LAMBDA p :
                       Slot(p) # <<>> /\ Head(Slot(p)) \in board.hand[p]) IN
       Done(ForEachAsked(Write(Taken, "discardedCards",
                               [i \in DOMAIN gone |-> Head(Slot(gone[i]))]),
                         DiscardAsked))

(* PullCard: at random out of one hand, or out of every hand of a filter.   *)
PulledHands ==
    IF Step.seats.owner # "" THEN FilterPlayers(board, Top, Step.seats)
    ELSE Range(Slot(Step.from)) \ {Me}
Pulls ==
    {cards \in SUBSET UNION {board.hand[p] : p \in PulledHands} :
        \A p \in PulledHands : Cardinality(cards \cap board.hand[p])
                               = Min({Step.count, Cardinality(board.hand[p])})}

DoPull ==
    /\ Doing("Pull")
    /\ \E cards \in Pulls :
          LET w == Write(Taken, "pulledCardIds", SetToSeq(cards)) IN
          Done(OnBoard(w, [w.b EXCEPT !.hand = [p \in Players |->
                             IF p = Me THEN @[p] \cup cards
                             ELSE IF p \in PulledHands THEN @[p] \ cards
                             ELSE @[p]]]))

DoRetrieve ==
    /\ Doing("Retrieve")
    /\ Done(IF Slot(Step.from) = <<>> THEN Taken
            ELSE Retrieved(Taken, Head(Slot(Step.from)), Me, Step.to))

DoRetrieveEach ==
    /\ Doing("RetrieveEach")
    /\ Done(ForEachAsked(Taken, LAMBDA w, p, c : Retrieved(w, c, Me, "owner")))

DoReturnAllItems ==
    /\ Doing("ReturnAllItems")
    /\ LET gear == [h \in DOMAIN board.worn |-> board.worn[h]]
           wearers == FlattenSeq([i \in DOMAIN Seats |->
                          SelectSeq(board.heroes[Seats[i]],
                                    LAMBDA h : h \in DOMAIN gear)]) IN
       Done(FoldLeft(LAMBDA w, h : Retrieved(w, gear[h], Me, "cardOwner"),
                     Taken, wearers))

DoTradeHands ==
    /\ Doing("TradeHands")
    /\ LET other == ChosenPlayer(Top) IN
       Done(IF other \in {Nobody, Me} THEN Taken
            ELSE OnBoard(Taken, [board EXCEPT !.hand[Me] = board.hand[other],
                                              !.hand[other] = board.hand[Me]]))

(* drawCards: as many as there are.  An empty deck gives none, and is       *)
(* refilled all the same.                                                   *)
CardsDrawn(b, n, order) ==
    LET cards == IF b.deck = <<>> THEN <<>> ELSE b.deck \o order IN
    SubSeq(cards, 1, Min({n, Len(cards)}))
DrawMany(w, p, n, order) ==
    IF w.b.deck = <<>> /\ n > 0 THEN OnBoard(w, Drawn(w.b, order))
    ELSE FoldLeft(LAMBDA x, c : DrawIntoHand(x, p, order), w,
                  CardsDrawn(w.b, n, order))

(* A negative count draws up to a hand of that size. *)
WantedOf(count, p) ==
    IF count >= 0 THEN count ELSE Max({0, -count - Cardinality(board.hand[p])})

DrawNamed(w, p, c) ==
    IF c \notin Range(w.b.deck) THEN w
    ELSE Emit(OnBoard(w, ToHand([w.b EXCEPT !.deck = Without(@, c)], p, c)),
              DrawnBy(p, c))

DoDraw ==
    /\ Doing("Draw")
    /\ LET p == ExecutorOf(Top, Step.by)
           n == WantedOf(Step.count, p)
           named == SelectSeq(Slot(Step.from), LAMBDA c : c \in Range(board.deck)) IN
       IF p = Nobody THEN Done(Taken)
       ELSE IF Step.from # ""
       THEN Done(FoldLeft(LAMBDA w, c : DrawNamed(w, p, c),
                          Write(Taken, "drawnCardIds", named), named))
       ELSE \E order \in Shuffles(board, n) :
               Done(DrawMany(Write(Taken, "drawnCardIds",
                                   CardsDrawn(board, n, order)), p, n, order))

DoReturnToDeckTop ==
    /\ Doing("ReturnToDeckTop")
    /\ LET c == Head(Slot(Step.from)) IN
       Done(IF Slot(Step.from) = <<>> \/ c \notin Range(board.deck) THEN Taken
            ELSE OnBoard(Taken, [board EXCEPT !.deck = <<c>> \o Without(@, c)]))

(* Reveal changes what seats see, which no rule reads. *)
DoReveal == Doing("Reveal") /\ Done(Taken)

-----------------------------------------------------------------------------
(* Steps that install effects *)

DoEffect ==
    /\ Doing("Effect")
    /\ LET effect == [type |-> Step.type, owner |-> Me, source |-> Top.card,
                      value |-> Step.value, on |-> Step.on, types |-> Step.types,
                      card |-> IF Step.scoped THEN ItemCarrier(board, Top.card)
                               ELSE NoCard,
                      until |-> Step.until] IN
       Done(OnBoard(Taken, [board EXCEPT !.effects[Me] = Append(@, effect)]))

DoGainActionPoints ==
    /\ Doing("GainActionPoints")
    /\ Done(OnBoard(Taken, [board EXCEPT !.points[Me] = @ + Step.count]))

-----------------------------------------------------------------------------
(* Steps that play cards and roll *)

(* What is put on the table is challengeable, and the frame it opens is a   *)
(* snapshot of the board without it.                                        *)
HandFrame(w, c) == OpenFrame(OnBoard(w, FromHand(w.b, Me, c)), <<>>)
Challengeable(w, c) ==
    ParkOn(AddWindow(w, NewFrame, Contest(Me, c, w.b)), NewFrame)

Playable(c, type) == IsOfType(c, type) /\ c \in board.hand[Me]
NoPlay(slot, type) == Slot(slot) = <<>> \/ ~Playable(Head(Slot(slot)), type)

DoPlayHero ==
    /\ Doing("PlayHero")
    /\ LET h == Head(Slot(Step.from)) IN
       IF NoPlay(Step.from, "Hero") THEN Done(Taken)
       ELSE Challengeable(AddHero(HandFrame(Taken, h), Me, h, NoCard), h)

DoPlayMagic ==
    /\ Doing("PlayMagic")
    /\ LET c == Head(Slot(Step.from))
           w == HandFrame(Taken, c) IN
       IF NoPlay(Step.from, "Magic") THEN Done(Taken)
       ELSE Challengeable(Emit(OnBoard(w, ToInstance(w.b, Me, c)),
                               Event("MagicPlayed", Me, c)), c)

DoPlayItem ==
    /\ Doing("PlayItem")
    /\ LET c == Head(Slot(Step.item))
           h == Head(Slot(Step.hero)) IN
       IF \/ NoPlay(Step.item, "Item") \/ Slot(Step.hero) = <<>>
          \/ ~CanEquip(board, Me, c, h)
       THEN Done(Taken)
       ELSE Challengeable(PutOn(HandFrame(Taken, c), Me, h, c), c)

DoRollOnHero ==
    /\ Doing("RollOnHero")
    /\ LET h == Head(Slot(Step.from))
           used == OnBoard(Taken, [board EXCEPT !.used = @ \cup {h}])
           bonus == RollBonus(board, Me, h, "HeroEffect") IN
       IF \/ Slot(Step.from) = <<>> \/ ~IsOfType(h, "Hero")
          \/ ~CanUseHeroEffect(board, Me, h)
       THEN Done(Taken)
       ELSE \E dice \in Throws(RollReq(h) - bonus) :
               ParkOn(Passing(OpenFrame(used, <<RollWindow(Me, h, dice + bonus)>>),
                              Me, h, dice + bonus), NewFrame)

-----------------------------------------------------------------------------
(* Steps of the cards that are played on a roll or on another card *)

(* The first window of a frame that takes a modifier takes it; what it adds *)
(* to a contest is not followed, for either side may win that.              *)
Modified(win, by, value) ==
    IF win.kind = "Contest" THEN win
    ELSE LET total == win.total + value + CounterBonus(board, win.who, by) IN
         IF win.kind = "Attack" THEN [win EXCEPT !.total = total]
         ELSE [win EXCEPT !.total = total,
                          !.asked = @ \/ total >= RollReq(win.hero)]

DoApplyModifier ==
    /\ Doing("ApplyModifier")
    /\ LET at == {i \in OpenModifiable(frames) :
                     /\ Slot("modifierTarget") # <<>>
                     /\ AcceptsModifierFor(frames[i].wins[1],
                                           Head(Slot("modifierTarget")))}
           i == CHOOSE i \in at : TRUE
           win == frames[i].wins[1]
           next == Modified(win, Me, Head(Slot("chosenValue")))
           w == [Taken EXCEPT !.fr[i].wins[1] = next] IN
       Done(IF at = {} \/ Slot("chosenValue") = <<>> THEN Taken
            ELSE IF win.kind = "Roll" /\ ~win.asked
            THEN Passing(w, win.who, win.hero, next.total) ELSE w)

DoStartChallenge ==
    /\ Doing("StartChallenge")
    /\ Done([Taken EXCEPT !.fr = [i \in DOMAIN @ |->
                IF /\ i \in FirstOpen(frames, "Contest")
                   /\ @[i].wins[1].challenger = Nobody
                THEN [@[i] EXCEPT !.wins[1].challenger = Me] ELSE @[i]]])

(* A card whose run is over leaves the instance pile, unless a frame still  *)
(* open has it down as spent.                                               *)
DoDispose ==
    /\ Doing("DisposeInstance")
    /\ Done(IF \/ Top.card \notin Range(board.inst[Me])
               \/ IsSpentInOpenFrame(Here, Top.card)
            THEN Taken
            ELSE OnBoard(Taken, ToDiscard(FromInstance(board, Me, Top.card),
                                          Top.card)))

-----------------------------------------------------------------------------

(* execute: one step of the drain. *)
RunStep ==
    \/ DoChoosePlayer \/ DoChooseCard \/ DoChooseCardEach \/ DoChooseValue
    \/ DoConfirm \/ DoCondition \/ DoTarget
    \/ DoDestroy \/ DoSacrifice \/ DoSacrificeEach \/ DoSteal \/ DoGiveHero
    \/ DoDiscard \/ DoDiscardEach \/ DoPull \/ DoRetrieve \/ DoRetrieveEach
    \/ DoReturnAllItems \/ DoTradeHands \/ DoDraw \/ DoReturnToDeckTop
    \/ DoReveal \/ DoEffect \/ DoGainActionPoints
    \/ DoPlayHero \/ DoPlayMagic \/ DoPlayItem \/ DoRollOnHero
    \/ DoApplyModifier \/ DoStartChallenge \/ DoDispose
    \/ Retire

=============================================================================
