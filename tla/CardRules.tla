------------------------------ MODULE CardRules ------------------------------
(***************************************************************************)
(* What every card of the base set does, as the server's ability registry   *)
(* has it: for each card a list of rules, each saying on which event it     *)
(* fires, whose event that is, and which steps it runs.  The steps are      *)
(* data; Abilities gives them their meaning.  The wording of the questions  *)
(* a step asks is left out.                                                 *)
(*                                                                          *)
(* A slot is a named entry of the running rule's context.  Steps hand each  *)
(* other cards and seats through slots and through nothing else.            *)
(***************************************************************************)
EXTENDS BaseGameCards

-----------------------------------------------------------------------------
(* Filters: which seats and which cards a step offers *)

Seated(owner) == [owner |-> owner, heroes |-> FALSE, class |-> ""]
WithHeroes(seats) == [seats EXCEPT !.heroes = TRUE]
WithClass(seats, class) == [seats EXCEPT !.class = class]
Others == Seated("Others")

CardsIn(zone, owner) ==
    [zone |-> zone, owner |-> owner, by |-> "owner", type |-> "", top |-> 0,
     among |-> "", exclude |-> "", destroyable |-> FALSE,
     unequipped |-> FALSE, cursed |-> FALSE]
OfKind(filter, type) == [filter EXCEPT !.type = type]
Among(filter, slot) == [filter EXCEPT !.among = slot]
ByChosen(filter) == [filter EXCEPT !.by = "chosen"]

OwnHand == CardsIn("Hand", "Self")
TheirHand == ByChosen(CardsIn("Hand", "Chosen"))
OwnHeroes == CardsIn("Party", "Self")
EnemyHeroes == CardsIn("Party", "Others")
BareHeroes == [OwnHeroes EXCEPT !.unequipped = TRUE]
AnyVictim == [CardsIn("Party", "All") EXCEPT !.destroyable = TRUE]
DiscardPile == CardsIn("Discard", "All")
DeckTop(n) == [CardsIn("DeckTop", "All") EXCEPT !.top = n]

-----------------------------------------------------------------------------
(* Steps.  A step writes its answer to the slot `into`; with `needs` it     *)
(* asks only when that slot holds something.                                *)

ChoosePlayer(seats) == [do |-> "ChoosePlayer", seats |-> seats]
ChooseCard(filter) ==
    [do |-> "ChooseCard", filter |-> filter, into |-> "chosenCard", needs |-> ""]
Into(step, slot) == [step EXCEPT !.into = slot]
Needing(step, slot) == [step EXCEPT !.needs = slot]
ChooseCardEach(seats, zone) ==
    [do |-> "ChooseCardEach", seats |-> seats, filter |-> CardsIn(zone, "Self")]
ChooseValue(values) == [do |-> "ChooseValue", values |-> values]
Confirm(label) ==
    [do |-> "Confirm", label |-> label, subject |-> "", by |-> "owner"]
ConfirmFor(label, slot) == [Confirm(label) EXCEPT !.subject = slot]
Target(slot) == [do |-> "Target", from |-> slot]
IfHeld(type, slot, label) ==
    [do |-> "Condition", type |-> type, from |-> slot, label |-> label]

From(step, slot) == [step EXCEPT !.from = slot]
By(step, who) == [step EXCEPT !.by = who]

Destroy == [do |-> "Destroy", from |-> "chosenCard", replaceable |-> TRUE]
Sacrifice == [do |-> "Sacrifice", from |-> "chosenCard", by |-> "owner"]
Steal == [do |-> "Steal", from |-> "chosenCard"]
GiveHero(slot, to) == [do |-> "GiveHero", from |-> slot, to |-> to]
Discard == [do |-> "Discard", from |-> "chosenCard", by |-> "owner"]
Pull == [do |-> "Pull", from |-> "chosenPlayer", seats |-> Seated(""), count |-> 1]
Retrieve == [do |-> "Retrieve", from |-> "chosenCard", to |-> "owner"]
DiscardEach == [do |-> "DiscardEach"]
SacrificeEach == [do |-> "SacrificeEach"]
RetrieveEach == [do |-> "RetrieveEach"]
ReturnAllItems == [do |-> "ReturnAllItems"]
TradeHands == [do |-> "TradeHands", from |-> "chosenPlayer"]
Draw(n) == [do |-> "Draw", count |-> n, from |-> "", by |-> "owner"]
DrawChosen == From(Draw(0), "chosenCard")
ReturnToDeckTop(slot) == [do |-> "ReturnToDeckTop", from |-> slot]
Reveal == [do |-> "Reveal"]
PlayHero(slot) == [do |-> "PlayHero", from |-> slot]
PlayMagic(slot) == [do |-> "PlayMagic", from |-> slot]
PlayItem(slot) == [do |-> "PlayItem", item |-> slot, hero |-> "chosenCard"]
RollOnHero(slot) == [do |-> "RollOnHero", from |-> slot]
GainActionPoints(n) == [do |-> "GainActionPoints", count |-> n]
ApplyModifier == [do |-> "ApplyModifier"]
StartChallenge == [do |-> "StartChallenge"]
DisposeInstance == [do |-> "DisposeInstance"]

(* An effect installed on the player who owns the rule.  `on` says which    *)
(* rolls it counts for, `types` which card types it covers, `until` when it *)
(* ends, and a scoped one works only for the hero that carries the item.    *)
Effect(type) ==
    [do |-> "Effect", type |-> type, value |-> 0, on |-> "", types |-> {},
     until |-> "", scoped |-> FALSE]
Worth(step, n) == [step EXCEPT !.value = n]
For(step, context) == [step EXCEPT !.on = context]
Until(step, end) == [step EXCEPT !.until = end]
WhileWorn(step) == [step EXCEPT !.scoped = TRUE, !.until = "unequipped"]

-----------------------------------------------------------------------------
(* Rules *)

On(event, scope, steps) ==
    [on |-> event, scope |-> scope, when |-> "", steps |-> steps]
When(event, label, steps) == [On(event, "SelfCard", steps) EXCEPT !.when = label]

RollPassing(steps) == On("RollPassing", "SelfCard", steps)
RollSuccess(steps) == On("RollSuccess", "SelfCard", steps)
Played(steps) == On("FrameResolved", "SelfCard", steps)
Worn(steps) == On("ItemEquipped", "SelfCard", steps)
GameStarted(steps) == On("GameStarted", "Anyone", steps)
Slain(steps) == On("MonsterSlain", "SelfCard", steps)
FoughtBack(steps) == On("MonsterFoughtBack", "Attacker", steps)
IfMet(label, steps) == When("ConditionMet", label, steps)
Confirmed(label, steps) == When("TaskConfirmed", label, steps)

AimAtPlayer(seats) ==
    RollPassing(<<ChoosePlayer(seats), Target("chosenPlayer")>>)
AimAtHero(filter) ==
    RollPassing(<<ChooseCard(filter), Target("chosenCard")>>)

-----------------------------------------------------------------------------
(* Heroes that destroy, steal or sacrifice *)

DestroyOne == <<ChooseCard(AnyVictim), Destroy>>

BadAxeAbility == <<AimAtHero(AnyVictim), RollSuccess(<<Destroy>>)>>
SeriousGreyAbility ==
    <<AimAtHero(AnyVictim), RollSuccess(<<Destroy, Draw(1)>>)>>
ShurikittyAbility ==
    <<AimAtHero(AnyVictim),
      RollSuccess(<<Destroy, From(Retrieve, "destroyedHeroItem")>>)>>
FluffyAbility ==
    LET second == "fluffy.secondHero"
        another == [AnyVictim EXCEPT !.exclude = "chosenCard"] IN
    <<RollPassing(<<ChooseCard(AnyVictim), Target("chosenCard"),
                    Into(ChooseCard(another), second), Target(second)>>),
      RollSuccess(<<Destroy, From(Destroy, second)>>)>>
WhiskersAbility ==
    LET victim == "whiskers.destroyedHero" IN
    <<RollPassing(<<ChooseCard(EnemyHeroes), Target("chosenCard"),
                    Into(ChooseCard(AnyVictim), victim), Target(victim)>>),
      RollSuccess(<<Steal, From(Destroy, victim)>>)>>
KitNapperAbility == <<AimAtHero(EnemyHeroes), RollSuccess(<<Steal>>)>>
WigglesAbility ==
    <<AimAtHero(EnemyHeroes),
      RollSuccess(<<Steal, ConfirmFor("RollOnStolenHero", "stolenHeroId")>>),
      Confirmed("RollOnStolenHero", <<RollOnHero("stolenHeroId")>>)>>
MeowzioAbility ==
    <<AimAtPlayer(WithHeroes(Others)),
      RollSuccess(<<ChooseCard(CardsIn("Party", "Chosen")), Steal, Pull>>)>>
TipsyTootieAbility ==
    <<AimAtPlayer(WithHeroes(Others)),
      RollSuccess(<<ChooseCard(CardsIn("Party", "Chosen")), Steal,
                    GiveHero("sourceCard", "stolenFromPlayer")>>)>>
HopperAbility ==
    <<AimAtPlayer(WithHeroes(Others)),
      RollSuccess(<<ChooseCard(ByChosen(CardsIn("Party", "Chosen"))),
                    By(Sacrifice, "chosen")>>)>>
SpookyAbility ==
    <<RollSuccess(<<ChooseCardEach(WithHeroes(Others), "Party"),
                    SacrificeEach>>)>>
QiBearAbility ==
    LET discard == <<ChooseCard(OwnHand), Discard>>
        again == <<Needing(ChooseCard(OwnHand), "discardedCards"), Discard>>
        round == <<Needing(ChooseCard(AnyVictim), "discardedCards"), Destroy>> IN
    <<RollSuccess(discard \o round \o again \o round \o again \o round)>>
PanChucksAbility ==
    <<RollSuccess(<<Draw(2), IfHeld("Challenge", "drawnCardIds", "PanChucks")>>),
      IfMet("PanChucks", <<ConfirmFor("PanChucksDestroys", "drawnCardIds")>>),
      Confirmed("PanChucksDestroys", <<Reveal>> \o DestroyOne)>>

-----------------------------------------------------------------------------
(* Heroes that take cards from other hands *)

(* The card pulled may be played at once, when it is of the right type and  *)
(* the player says yes.                                                     *)
PullAndPlay(type, label, play) ==
    <<AimAtPlayer(Others),
      RollSuccess(<<Pull, IfHeld(type, "pulledCardIds", label)>>),
      IfMet(label, <<ConfirmFor(label, "pulledCardIds")>>),
      Confirmed(label, play)>>

FuryKnuckleAbility ==
    <<AimAtPlayer(Others),
      RollSuccess(<<Pull, IfHeld("Challenge", "pulledCardIds", "FuryKnuckle")>>),
      IfMet("FuryKnuckle", <<Pull>>)>>
BearClawAbility ==
    <<AimAtPlayer(Others),
      RollSuccess(<<Pull, IfHeld("Hero", "pulledCardIds", "BearClaw")>>),
      IfMet("BearClaw", <<Pull>>)>>
LuckyBuckyAbility ==
    PullAndPlay("Hero", "LuckyBucky", <<PlayHero("pulledCardIds")>>)
SlyPickingsAbility ==
    PullAndPlay("Item", "SlyPickings",
                <<ChooseCard(BareHeroes), PlayItem("pulledCardIds")>>)
ButtonsAbility ==
    PullAndPlay("Magic", "Buttons", <<PlayMagic("pulledCardIds")>>)
PlunderingPumaAbility ==
    <<AimAtPlayer(Others),
      RollSuccess(<<Pull, Pull, By(Confirm("VictimDraws"), "chosen")>>),
      Confirmed("VictimDraws", <<By(Draw(1), "chosen")>>)>>
SlipperyPawsAbility ==
    <<AimAtPlayer(Others),
      RollSuccess(<<[Pull EXCEPT !.count = 2],
                    ChooseCard(Among(OwnHand, "pulledCardIds")), Discard>>)>>
SmoothMimimeowAbility ==
    <<RollSuccess(<<[Pull EXCEPT !.seats = WithClass(Others, "Thief")]>>)>>
SharpFoxAbility == <<AimAtPlayer(Others), RollSuccess(<<Reveal>>)>>
SilentShadowAbility ==
    <<AimAtPlayer(Others),
      RollSuccess(<<ChooseCard(CardsIn("Hand", "Chosen")), Retrieve>>)>>
DodgyDealerAbility == <<AimAtPlayer(Others), RollSuccess(<<TradeHands>>)>>
HeavyBearAbility ==
    LET discard == <<ChooseCard(TheirHand), By(Discard, "chosen")>> IN
    <<AimAtPlayer(Others), RollSuccess(discard \o discard)>>
GreedyCheeksAbility ==
    <<RollSuccess(<<ChooseCardEach(Others, "Hand"), RetrieveEach>>)>>
BearyWiseAbility ==
    <<RollSuccess(<<ChooseCardEach(Others, "Hand"), DiscardEach,
                    ChooseCard(Among(DiscardPile, "discardedCards")),
                    Retrieve>>)>>
ToughTeddyAbility ==
    <<RollSuccess(<<ChooseCardEach(WithClass(Others, "Fighter"), "Hand"),
                    DiscardEach>>)>>

-----------------------------------------------------------------------------
(* Heroes that draw, play, retrieve or protect *)

QuickDrawAbility ==
    LET item == OfKind(Among(OwnHand, "drawnCardIds"), "Item") IN
    <<RollSuccess(<<Draw(2), IfHeld("Item", "drawnCardIds", "QuickDraw")>>),
      IfMet("QuickDraw", <<ConfirmFor("QuickDrawPlays", "drawnCardIds")>>),
      Confirmed("QuickDrawPlays",
                <<Into(ChooseCard(item), "chosenItem"),
                  Needing(ChooseCard(BareHeroes), "chosenItem"),
                  PlayItem("chosenItem")>>)>>
HookAbility ==
    <<RollSuccess(<<Into(ChooseCard(OfKind(OwnHand, "Item")), "chosenItem"),
                    Needing(ChooseCard(BareHeroes), "chosenItem"),
                    PlayItem("chosenItem"), Draw(1)>>)>>
MellowDeeAbility ==
    <<RollSuccess(<<Draw(1), IfHeld("Hero", "drawnCardIds", "MellowDee")>>),
      IfMet("MellowDee", <<ConfirmFor("MellowDeePlays", "drawnCardIds")>>),
      Confirmed("MellowDeePlays", <<PlayHero("drawnCardIds")>>)>>
SnowballAbility ==
    <<RollSuccess(<<Draw(1), IfHeld("Magic", "drawnCardIds", "Snowball")>>),
      IfMet("Snowball", <<ConfirmFor("SnowballPlays", "drawnCardIds")>>),
      Confirmed("SnowballPlays", <<PlayMagic("drawnCardIds"), Draw(1)>>)>>
FuzzyCheeksAbility ==
    <<RollSuccess(<<Draw(1), ChooseCard(OfKind(OwnHand, "Hero")),
                    PlayHero("chosenCard")>>)>>
WildshotAbility == <<RollSuccess(<<Draw(3), ChooseCard(OwnHand), Discard>>)>>
WilyRedAbility == <<RollSuccess(<<Draw(-7)>>)>>
PeanutAbility == <<RollSuccess(<<Draw(2)>>)>>
NappingNibblesAbility == <<RollSuccess(<<>>)>>
BullseyeAbility ==
    <<RollSuccess(<<ChooseCard(DeckTop(3)), DrawChosen,
                    Into(ChooseCard(DeckTop(2)), "deckTopCard"),
                    ReturnToDeckTop("deckTopCard")>>)>>
BunBunAbility ==
    <<RollSuccess(<<ChooseCard(OfKind(DiscardPile, "Magic")), Retrieve>>)>>
GuidingLightAbility ==
    <<RollSuccess(<<ChooseCard(OfKind(DiscardPile, "Hero")), Retrieve>>)>>
RadiantHornAbility ==
    <<RollSuccess(<<ChooseCard(OfKind(DiscardPile, "Modifier")), Retrieve>>)>>
LookieRookieAbility ==
    <<RollSuccess(<<ChooseCard(OfKind(DiscardPile, "Item")), Retrieve>>)>>
HolyCurselifterAbility ==
    LET curses == [CardsIn("EquippedItem", "Self") EXCEPT !.cursed = TRUE] IN
    <<RollSuccess(<<ChooseCard(curses), Retrieve>>)>>
CalmingVoiceAbility ==
    <<RollSuccess(<<Until(Effect("CantBeStolen"), "ownersNextTurn")>>)>>
MightyBladeAbility ==
    <<RollSuccess(<<Until(Effect("CantBeDestroyed"), "ownersNextTurn")>>)>>
IronResolveAbility ==
    <<RollSuccess(<<Until(Effect("CantBeChallenged"), "endOfTurn")>>)>>
VibrantGlowAbility ==
    <<RollSuccess(<<Until(Worth(Effect("RollBonus"), 5), "endOfTurn")>>)>>
WiseShieldAbility ==
    <<RollSuccess(<<Until(Worth(Effect("RollBonus"), 3), "endOfTurn")>>)>>

-----------------------------------------------------------------------------
(* Magic cards: their rule fires when the frame they were played in settles *)

CallToTheFallenAbility ==
    <<Played(<<ChooseCard(OfKind(DiscardPile, "Hero")), Retrieve>>)>>
CriticalBoostAbility == <<Played(<<Draw(3), ChooseCard(OwnHand), Discard>>)>>
DestructiveSpellAbility ==
    <<Played(<<ChooseCard(OwnHand), Discard>> \o DestroyOne)>>
EnchantedSpellAbility ==
    <<Played(<<Until(Worth(Effect("RollBonus"), 2), "endOfTurn")>>)>>
EntanglingTrapAbility ==
    <<Played(<<ChooseCard(OwnHand), Discard, ChooseCard(OwnHand), Discard,
               Needing(ChooseCard(EnemyHeroes), "discardedCards"), Steal>>)>>
ForcedExchangeAbility ==
    <<Played(<<ChooseCard(EnemyHeroes), Steal,
               Needing(ChooseCard(OwnHeroes), "stolenFromPlayer"),
               GiveHero("chosenCard", "stolenFromPlayer")>>)>>
ForcefulWindsAbility == <<Played(<<ReturnAllItems>>)>>
WindsOfChangeAbility ==
    <<Played(<<ChooseCard(CardsIn("EquippedItem", "All")),
               [Retrieve EXCEPT !.to = "cardOwner"], Draw(1)>>)>>

-----------------------------------------------------------------------------
(* Items *)

CurseOfTheSnakesEyesAbility == <<Worn(<<WhileWorn(Worth(Effect("RollBonus"), -2))>>)>>
ReallyBigRingAbility == <<Worn(<<WhileWorn(Worth(Effect("RollBonus"), 2))>>)>>
SealingKeyAbility == <<Worn(<<WhileWorn(Effect("CantUseHeroEffect"))>>)>>
DecoyDollAbility == <<Worn(<<WhileWorn(Effect("TakesTheHit"))>>)>>
ParticularlyRustyCoinAbility == <<On("RollFailed", "CarrierCard", <<Draw(1)>>)>>
SuspiciouslyShinyCoinAbility ==
    <<On("RollSuccess", "CarrierCard", <<ChooseCard(OwnHand), Discard>>)>>

-----------------------------------------------------------------------------
(* Party leaders, modifiers and challenges *)

CharismaticSongAbility ==
    <<GameStarted(<<For(Worth(Effect("RollBonus"), 1), "HeroEffect")>>)>>
DivineArrowAbility ==
    <<GameStarted(<<For(Worth(Effect("RollBonus"), 1), "Attack")>>)>>
FistOfReasonAbility ==
    <<GameStarted(<<For(Worth(Effect("RollBonus"), 2), "Challenge")>>)>>
CloakedSageAbility == <<On("MagicPlayed", "OwnerEvent", <<Draw(1)>>)>>
ShadowClawAbility ==
    <<On("LeaderActivated", "SelfCard", <<ChoosePlayer(Others), Pull>>)>>
ProtectingHornAbility ==
    <<On("ModifierPlayed", "OwnerEvent",
         <<ChooseValue(<<1, -1>>), ApplyModifier>>)>>
ModifierAbility == <<On("ModifierPlayed", "SelfCard", <<ApplyModifier>>)>>
ChallengeAbility == <<On("ChallengePlayed", "SelfCard", <<StartChallenge>>)>>

-----------------------------------------------------------------------------
(* Monsters: what they give whoever slew them, and what a lost attack costs *)

SacrificeOne == FoughtBack(<<ChooseCard(OwnHeroes), Sacrifice>>)
DiscardTwo ==
    FoughtBack(<<ChooseCard(OwnHand), Discard, ChooseCard(OwnHand), Discard>>)

(* A card drawn of this type may be put to use at once. *)
OnDrawing(type, label, steps) ==
    <<On("CardDrawn", "OwnerEvent", <<IfHeld(type, "drawnCardIds", label)>>),
      IfMet(label, <<ConfirmFor(label, "drawnCardIds")>>),
      Confirmed(label, steps), DiscardTwo>>

AbyssQueenAbility ==
    <<Slain(<<Worth(Effect("ModifierCounterBonus"), 1)>>), SacrificeOne>>
AnuranCauldronAbility ==
    <<Slain(<<Worth(Effect("RollBonus"), 1)>>), SacrificeOne>>
ArcticAriesAbility ==
    <<On("RollSuccess", "OwnerEvent", <<Confirm("AriesDraws")>>),
      Confirmed("AriesDraws", <<Draw(1)>>), SacrificeOne>>
DracosAbility ==
    <<On("HeroDestroyed", "OwnerEvent", <<Confirm("DracosDraws")>>),
      Confirmed("DracosDraws", <<Draw(1)>>), SacrificeOne>>
CrownedSerpentAbility ==
    <<On("ModifierPlayed", "Anyone", <<Confirm("SerpentDraws")>>),
      Confirmed("SerpentDraws", <<Draw(1)>>), SacrificeOne>>
BloodwingAbility ==
    <<On("ChallengePlayed", "TargetsOwner",
         <<ChooseCard(TheirHand), By(Discard, "chosen")>>), SacrificeOne>>
StealInstead == "Steal it instead"
DestroyAnyway == "Destroy it"
CorruptedSabretoothAbility ==
    <<Slain(<<Effect("StealsInsteadOfDestroy")>>),
      Confirmed(StealInstead, <<From(Steal, "wouldDestroy")>>),
      Confirmed(DestroyAnyway,
          <<[Destroy EXCEPT !.from = "wouldDestroy", !.replaceable = FALSE]>>),
      SacrificeOne>>
MegaSlimeAbility ==
    <<Slain(<<Draw(2), Worth(Effect("ActionPointBonus"), 1),
              GainActionPoints(1)>>), SacrificeOne>>
TerratugaAbility == <<Slain(<<Effect("CantBeDestroyed")>>), SacrificeOne>>
DarkDragonKingAbility ==
    <<Slain(<<For(Worth(Effect("RollBonus"), 1), "HeroEffect")>>), DiscardTwo>>
TitanWyvernAbility ==
    <<Slain(<<For(Worth(Effect("RollBonus"), 1), "Challenge")>>), DiscardTwo>>
WarwornOwlbearAbility ==
    <<Slain(<<[Effect("CantBeChallenged") EXCEPT !.types = {"Item"}]>>),
      DiscardTwo>>
MalamammothAbility ==
    OnDrawing("Item", "Malamammoth",
              <<ChooseCard(BareHeroes), PlayItem("drawnCardIds")>>)
OrthusAbility == OnDrawing("Magic", "Orthus", <<PlayMagic("drawnCardIds")>>)
RexMajorAbility == OnDrawing("Modifier", "RexMajor", <<Reveal, Draw(1)>>)

-----------------------------------------------------------------------------
(* The registry: which rules each card has.  A mask has none, its class is  *)
(* read off the hero that wears it.                                         *)

HeroAbilities ==
    [BadAxe |-> BadAxeAbility, FuryKnuckle |-> FuryKnuckleAbility,
     BearyWise |-> BearyWiseAbility, HeavyBear |-> HeavyBearAbility,
     BearClaw |-> BearClawAbility, ToughTeddy |-> ToughTeddyAbility,
     QiBear |-> QiBearAbility, PanChucks |-> PanChucksAbility,
     SeriousGrey |-> SeriousGreyAbility, QuickDraw |-> QuickDrawAbility,
     LookieRookie |-> LookieRookieAbility, Wildshot |-> WildshotAbility,
     Hook |-> HookAbility, Bullseye |-> BullseyeAbility,
     WilyRed |-> WilyRedAbility, SharpFox |-> SharpFoxAbility,
     KitNapper |-> KitNapperAbility, SlyPickings |-> SlyPickingsAbility,
     Meowzio |-> MeowzioAbility, PlunderingPuma |-> PlunderingPumaAbility,
     SilentShadow |-> SilentShadowAbility,
     SlipperyPaws |-> SlipperyPawsAbility,
     Shurikitty |-> ShurikittyAbility,
     SmoothMimimeow |-> SmoothMimimeowAbility,
     GuidingLight |-> GuidingLightAbility,
     HolyCurselifter |-> HolyCurselifterAbility,
     RadiantHorn |-> RadiantHornAbility, WiseShield |-> WiseShieldAbility,
     VibrantGlow |-> VibrantGlowAbility,
     IronResolve |-> IronResolveAbility,
     MightyBlade |-> MightyBladeAbility,
     CalmingVoice |-> CalmingVoiceAbility, Hopper |-> HopperAbility,
     Buttons |-> ButtonsAbility, Spooky |-> SpookyAbility,
     Wiggles |-> WigglesAbility, Whiskers |-> WhiskersAbility,
     Fluffy |-> FluffyAbility, BunBun |-> BunBunAbility,
     Snowball |-> SnowballAbility, MellowDee |-> MellowDeeAbility,
     LuckyBucky |-> LuckyBuckyAbility, FuzzyCheeks |-> FuzzyCheeksAbility,
     NappingNibbles |-> NappingNibblesAbility,
     TipsyTootie |-> TipsyTootieAbility,
     DodgyDealer |-> DodgyDealerAbility,
     GreedyCheeks |-> GreedyCheeksAbility, Peanut |-> PeanutAbility]
MonsterAbilities ==
    [CorruptedSabretooth |-> CorruptedSabretoothAbility,
     MegaSlime |-> MegaSlimeAbility,
     AnuranCauldron |-> AnuranCauldronAbility,
     CrownedSerpent |-> CrownedSerpentAbility, Dracos |-> DracosAbility,
     Bloodwing |-> BloodwingAbility, ArcticAries |-> ArcticAriesAbility,
     AbyssQueen |-> AbyssQueenAbility, Terratuga |-> TerratugaAbility,
     Orthus |-> OrthusAbility, RexMajor |-> RexMajorAbility,
     DarkDragonKing |-> DarkDragonKingAbility,
     Malamammoth |-> MalamammothAbility,
     WarwornOwlbear |-> WarwornOwlbearAbility,
     TitanWyvern |-> TitanWyvernAbility]
ItemAbilities ==
    [ParticularlyRustyCoin |-> ParticularlyRustyCoinAbility,
     ReallyBigRing |-> ReallyBigRingAbility,
     DecoyDoll |-> DecoyDollAbility,
     SuspiciouslyShinyCoin |-> SuspiciouslyShinyCoinAbility,
     CurseOfTheSnakesEyes |-> CurseOfTheSnakesEyesAbility,
     SealingKey |-> SealingKeyAbility]
MagicAbilities ==
    [DestructiveSpell |-> DestructiveSpellAbility,
     EntanglingTrap |-> EntanglingTrapAbility,
     CriticalBoost |-> CriticalBoostAbility,
     EnchantedSpell |-> EnchantedSpellAbility,
     ForcedExchange |-> ForcedExchangeAbility,
     WindsOfChange |-> WindsOfChangeAbility,
     ForcefulWinds |-> ForcefulWindsAbility,
     CallToTheFallen |-> CallToTheFallenAbility]
LeaderAbilities ==
    [DivineArrow |-> DivineArrowAbility, ShadowClaw |-> ShadowClawAbility,
     FistOfReason |-> FistOfReasonAbility,
     CharismaticSong |-> CharismaticSongAbility,
     CloakedSage |-> CloakedSageAbility,
     ProtectingHorn |-> ProtectingHornAbility]

MaskAbility == [c \in {m \in DOMAIN Items : Items[m] # Plain} |-> <<>>]

AbilityRegistry ==
    HeroAbilities @@ MonsterAbilities @@ ItemAbilities @@ MaskAbility
    @@ MagicAbilities @@ LeaderAbilities
    @@ [c \in DOMAIN Modifiers |-> ModifierAbility]
    @@ [c \in Challenges |-> ChallengeAbility]

(* A leader is activated when its own activation would fire something.      *)
IsActivatable(leader) ==
    \E i \in DOMAIN AbilityRegistry[leader] :
        /\ AbilityRegistry[leader][i].on = "LeaderActivated"
        /\ AbilityRegistry[leader][i].scope = "SelfCard"

(* Rules a card has from where it lies, printed on none: a hero whose       *)
(* challenge settled may be rolled on at once, and a card in an instance    *)
(* pile goes to the discard when its run is over.                           *)
OffersRoll == "RollOnPlayedHero"
HeroRules ==
    <<Played(<<Confirm(OffersRoll)>>),
      Confirmed(OffersRoll, <<RollOnHero("sourceCard")>>)>>
InstanceRules == <<On("AbilityDone", "SelfCard", <<DisposeInstance>>)>>

=============================================================================
