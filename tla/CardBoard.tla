------------------------------ MODULE CardBoard ------------------------------
(***************************************************************************)
(* The board a game is played on, card by card, and what the rules read of  *)
(* it: GameState, Party and Player without their frames, and the filters    *)
(* the choosing steps offer cards and seats with.                           *)
(*                                                                          *)
(* A board is a record: `hand` and `points` of each seat, its `leader`, its *)
(* `heroes`, `slain` monsters and `inst` cards as sequences, `worn` from a  *)
(* hero to the item on it, the `effects` installed on each seat, the main   *)
(* `deck`, `discard`, the face-up `row` and the `monsters` still to come,   *)
(* the heroes `used` and the cards `contested` this turn, whose turn it is  *)
(* (`current`) and how many `turns` are left to play.                       *)
(***************************************************************************)
EXTENDS CardRules, SequencesExt, FiniteSetsExt

CONSTANT Seats          \* the players, in seat order

ASSUME SeatsAssumption == Seats # <<>> /\ IsInjective(Seats)

Players == Range(Seats)
Nobody == ""
NoCard == ""

-----------------------------------------------------------------------------
(* Who holds what *)

(* getItemCarrier: the hero that wears the item, if any does. *)
ItemCarrier(b, item) ==
    IF \E h \in DOMAIN b.worn : b.worn[h] = item
    THEN CHOOSE h \in DOMAIN b.worn : b.worn[h] = item ELSE NoCard

Holds(b, p, c) ==
    \/ c \in b.hand[p] \cup Range(b.heroes[p]) \cup Range(b.slain[p])
             \cup Range(b.inst[p]) \cup {b.leader[p]}
    \/ \E h \in Range(b.heroes[p]) \cap DOMAIN b.worn : b.worn[h] = c

(* getCardOwner: the first seat, in seat order, that holds the card.        *)
CardOwner(b, c) ==
    LET seats == SelectSeq(Seats, LAMBDA p : Holds(b, p, c))
    IN  IF seats = <<>> THEN Nobody ELSE Head(seats)

-----------------------------------------------------------------------------
(* Classes and standing effects *)

(* getHeroClass: a mask decides, else the printed class. *)
HeroClass(b, h) ==
    IF h \in DOMAIN b.worn /\ Wearables[b.worn[h]] # Plain
    THEN Wearables[b.worn[h]] ELSE DefaultClass[h]
HeroClasses(b, p) == [i \in DOMAIN b.heroes[p] |-> HeroClass(b, b.heroes[p][i])]
LeaderClass(b, p) == Leaders[b.leader[p]]
PartyClasses(b, p) == {LeaderClass(b, p)} \cup Range(HeroClasses(b, p))

(* getEffects: what counts for this card, or for none, in this context. *)
EffectsOn(b, type, p, card, context) ==
    IF p \notin Players THEN <<>> ELSE
    SelectSeq(b.effects[p], LAMBDA e : /\ e.type = type
                                       /\ e.card \in {NoCard, card}
                                       /\ e.on \in {"", context})
Total(effects) == FoldSeq(LAMBDA e, sum : e.value + sum, 0, effects)
RollBonus(b, p, card, context) == Total(EffectsOn(b, "RollBonus", p, card, context))

(* counterBonusesFor: an Abyss Queen answers a modifier from anybody else.  *)
CounterBonus(b, target, by) ==
    IF by = target THEN 0
    ELSE Total(EffectsOn(b, "ModifierCounterBonus", target, NoCard, ""))

HasEffect(b, type, p) == \E i \in DOMAIN b.effects[p] : b.effects[p][i].type = type

TypeOfCard(c) == CHOOSE t \in DOMAIN CardsOf : IsOfType(c, t)
CanBeChallenged(b, p, c) ==
    ~\E i \in DOMAIN b.effects[p] :
        LET e == b.effects[p][i] IN
        e.type = "CantBeChallenged" /\ (e.types = {} \/ TypeOfCard(c) \in e.types)
CanUseHeroEffect(b, p, h) == EffectsOn(b, "CantUseHeroEffect", p, h, "") = <<>>
CanBeDestroyed(b, h) ==
    EffectsOn(b, "CantBeDestroyed", CardOwner(b, h), h, "") = <<>>
CanAttackMonster(b, p, m) ==
    m \in Range(b.row) /\ CanBeAttackedBy(m, HeroClasses(b, p), LeaderClass(b, p))

(* canEquip: a plain item goes on a hero of one's own, a cursed one on      *)
(* somebody else's, and a hero holds one.                                   *)
CanEquip(b, p, item, h) ==
    /\ IsOfType(item, "Item") /\ IsOfType(h, "Hero")
    /\ CardOwner(b, h) # Nobody
    /\ IsCursed(item) <=> CardOwner(b, h) # p
    /\ h \notin DOMAIN b.worn

-----------------------------------------------------------------------------
(* Moving cards *)

Without(s, c) == SelectSeq(s, LAMBDA d : d # c)

FromHand(b, p, c) == [b EXCEPT !.hand[p] = @ \ {c}]
ToHand(b, p, c) == [b EXCEPT !.hand[p] = @ \cup {c}]
HandOver(b, from, to, c) == ToHand(FromHand(b, from, c), to, c)
ToDiscard(b, c) == [b EXCEPT !.discard = @ \cup {c}]
DiscardFromHand(b, p, c) == ToDiscard(FromHand(b, p, c), c)
ToInstance(b, p, c) == [b EXCEPT !.inst[p] = Append(@, c)]
FromInstance(b, p, c) == [b EXCEPT !.inst[p] = Without(@, c)]
Equip(b, h, item) == [b EXCEPT !.worn = (h :> item) @@ @]
Unequip(b, h) == [b EXCEPT !.worn = [g \in DOMAIN @ \ {h} |-> @[g]]]

(* drawFromMainDeck: an empty deck turns the discard pile over, after the   *)
(* draw.  Any card may come out of the shuffle on top; how the others lie   *)
(* beneath it is left to one choice.                                        *)
Drawn(b, order) ==
    LET left == SubSeq(b.deck, 2, Len(b.deck)) IN
    IF left # <<>> THEN [b EXCEPT !.deck = left]
    ELSE [b EXCEPT !.deck = SelectSeq(order, LAMBDA c : c \in b.discard),
                   !.discard = {}]
Shuffles(b, n) ==
    IF Len(b.deck) > n \/ b.discard = {} THEN {<<>>}
    ELSE {<<c>> \o SetToSeq(b.discard \ {c}) : c \in b.discard}

(* slayMonster, the board's part: the next monster is turned up. *)
Slay(b, p, m) ==
    [b EXCEPT !.row = Without(@, m)
                      \o SubSeq(b.monsters, 1, Min({1, Len(b.monsters)})),
              !.monsters = SubSeq(@, 2, Len(@)),
              !.slain[p] = Append(@, m)]

-----------------------------------------------------------------------------
(* What a filter offers.  `ctx` is the running pipeline: its owner and its  *)
(* slots.                                                                   *)

SlotOf(ctx, slot) == IF slot \in DOMAIN ctx.slots THEN ctx.slots[slot] ELSE <<>>
ChosenPlayer(ctx) ==
    IF SlotOf(ctx, "chosenPlayer") = <<>> THEN Nobody
    ELSE Head(SlotOf(ctx, "chosenPlayer"))
ExecutorOf(ctx, who) == IF who = "chosen" THEN ChosenPlayer(ctx) ELSE ctx.owner

SeatsFor(ctx, owner) ==
    CASE owner = "Self"   -> {ctx.owner}
      [] owner = "Others" -> Players \ {ctx.owner}
      [] owner = "All"    -> Players
      [] owner = "Chosen" -> Range(SlotOf(ctx, "chosenPlayer"))

FilterPlayers(b, ctx, f) ==
    {p \in SeatsFor(ctx, f.owner) :
        /\ f.heroes => b.heroes[p] # <<>>
        /\ f.class # "" => f.class \in PartyClasses(b, p)}

IdsInZone(b, zone, p, top) ==
    CASE zone = "Hand"         -> b.hand[p]
      [] zone = "Party"        -> Range(b.heroes[p])
      [] zone = "EquippedItem" -> {b.worn[h] : h \in Range(b.heroes[p])
                                                     \cap DOMAIN b.worn}
      [] zone = "Discard"      -> b.discard
      [] zone = "DeckTop"      -> Range(SubSeq(b.deck, 1, Min({top, Len(b.deck)})))

Keep(b, ctx, f, c) ==
    /\ f.exclude # "" => c \notin Range(SlotOf(ctx, f.exclude))
    /\ f.among # "" => c \in Range(SlotOf(ctx, f.among))
    /\ f.type # "" => IsOfType(c, f.type)
    /\ f.unequipped => IsOfType(c, "Hero") /\ c \notin DOMAIN b.worn
    /\ f.cursed => IsOfType(c, "Item") /\ IsCursed(c)
    /\ f.destroyable => IsOfType(c, "Hero") /\ CanBeDestroyed(b, c)

CardsOfSeat(b, ctx, f, p) ==
    {c \in IdsInZone(b, f.zone, p, f.top) : Keep(b, ctx, f, c)}
FilterCards(b, ctx, f) ==
    IF f.zone \in {"Discard", "DeckTop"} THEN CardsOfSeat(b, ctx, f, Seats[1])
    ELSE UNION {CardsOfSeat(b, ctx, f, p) : p \in SeatsFor(ctx, f.owner)}
=============================================================================
