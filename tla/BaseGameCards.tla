---------------------------- MODULE BaseGameCards ----------------------------
(***************************************************************************)
(* The cards of the base set, as far as the rules read them: a hero's class *)
(* and roll, what a monster asks of a party and which rolls slay it, which  *)
(* items are cursed and which are masks, and the values of a modifier.      *)
(* Copies of one card share a name.                                         *)
(***************************************************************************)
EXTENDS Integers, Sequences, FiniteSets, TLC

(* The requirement of each hero's roll, by printed class. *)
Fighters == [BadAxe |-> 8, FuryKnuckle |-> 5, BearyWise |-> 7, HeavyBear |-> 5,
             BearClaw |-> 7, ToughTeddy |-> 4, QiBear |-> 10, PanChucks |-> 8]

Rangers == [SeriousGrey |-> 9, QuickDraw |-> 8, LookieRookie |-> 5,
            Wildshot |-> 8, Hook |-> 6, Bullseye |-> 7, WilyRed |-> 10,
            SharpFox |-> 5]

Thieves == [KitNapper |-> 9, SlyPickings |-> 6, Meowzio |-> 10,
            PlunderingPuma |-> 6, SilentShadow |-> 8, SlipperyPaws |-> 6,
            Shurikitty |-> 9, SmoothMimimeow |-> 7]

Guardians == [GuidingLight |-> 7, HolyCurselifter |-> 5, RadiantHorn |-> 6,
              WiseShield |-> 6, VibrantGlow |-> 9, IronResolve |-> 8,
              MightyBlade |-> 8, CalmingVoice |-> 9]

Wizards == [Hopper |-> 7, Buttons |-> 6, Spooky |-> 10, Wiggles |-> 10,
            Whiskers |-> 11, Fluffy |-> 10, BunBun |-> 5, Snowball |-> 6]

Bards == [MellowDee |-> 7, LuckyBucky |-> 7, FuzzyCheeks |-> 8,
          NappingNibbles |-> 2, TipsyTootie |-> 6, DodgyDealer |-> 9,
          GreedyCheeks |-> 8, Peanut |-> 7]

(* A party fields `named` classes and `any` heroes besides; a roll from     *)
(* `higher` up slays, one from `lower` down is fought back.                 *)
Monster(named, any, higher, lower) ==
    [named |-> named, any |-> any, higher |-> higher, lower |-> lower]

(* Monsters any party may attack that is large enough. *)
CommonMonsters ==
    [CorruptedSabretooth |-> Monster(<<>>, 3, 9, 6),
     MegaSlime           |-> Monster(<<>>, 4, 8, 7),
     AnuranCauldron      |-> Monster(<<>>, 3, 7, 6),
     CrownedSerpent      |-> Monster(<<>>, 2, 10, 7),
     Dracos              |-> Monster(<<>>, 1, 5, 8),
     Bloodwing           |-> Monster(<<>>, 2, 9, 6),
     ArcticAries         |-> Monster(<<>>, 1, 10, 6),
     AbyssQueen          |-> Monster(<<>>, 2, 8, 5),
     Terratuga           |-> Monster(<<>>, 1, 11, 7)]

(* Monsters that ask for a class besides. *)
ClassMonsters ==
    [Orthus         |-> Monster(<<"Wizard">>, 1, 8, 4),
     RexMajor       |-> Monster(<<"Guardian">>, 1, 8, 4),
     DarkDragonKing |-> Monster(<<"Bard">>, 1, 8, 4),
     Malamammoth    |-> Monster(<<"Ranger">>, 1, 8, 4),
     WarwornOwlbear |-> Monster(<<"Thief">>, 1, 8, 4),
     TitanWyvern    |-> Monster(<<"Thief">>, 1, 8, 4)]

Plain == ""

(* What a hero wearing the item counts as: its own class, or the mask's. *)
Items == [ParticularlyRustyCoin |-> Plain, ReallyBigRing |-> Plain,
          DecoyDoll |-> Plain, FighterMask |-> "Fighter",
          RangerMask |-> "Ranger", ThiefMask |-> "Thief",
          GuardianMask |-> "Guardian", WizardMask |-> "Wizard",
          BardMask |-> "Bard"]

CursedItems == [SuspiciouslyShinyCoin |-> Plain,
                CurseOfTheSnakesEyes |-> Plain, SealingKey |-> Plain]

(* How many copies of each magic card there are. *)
Magics == [DestructiveSpell |-> 2, EntanglingTrap |-> 2, CriticalBoost |-> 2,
           EnchantedSpell |-> 2, ForcedExchange |-> 1, WindsOfChange |-> 2,
           ForcefulWinds |-> 1, CallToTheFallen |-> 1]

(* The values a modifier may be played for. *)
EvenModifiers == [PlusMinusTwo |-> {2, -2}]
SkewModifiers == [PlusThreeMinusOne |-> {3, -1}, PlusOneMinusThree |-> {1, -3}]
FlatModifiers == [PlusFour |-> {4}, MinusFour |-> {-4}]
Modifiers == EvenModifiers @@ SkewModifiers @@ FlatModifiers

Challenges == {"Challenge"}

(* The class each party leader counts for. *)
Leaders == [DivineArrow |-> "Ranger", ShadowClaw |-> "Thief",
            FistOfReason |-> "Fighter", CharismaticSong |-> "Bard",
            CloakedSage |-> "Wizard", ProtectingHorn |-> "Guardian"]

Heroes == Fighters @@ Rangers @@ Thieves @@ Guardians @@ Wizards @@ Bards
Monsters == CommonMonsters @@ ClassMonsters
Wearables == Items @@ CursedItems

(* baseGameCards: the whole box, by card type. *)
CardsOf == [Hero |-> DOMAIN Heroes, Monster |-> DOMAIN Monsters,
            Item |-> DOMAIN Wearables, Magic |-> DOMAIN Magics,
            Modifier |-> DOMAIN Modifiers, Challenge |-> Challenges,
            Leader |-> DOMAIN Leaders]

IsOfType(c, type) == c \in CardsOf[type]
IsCursed(c) == c \in DOMAIN CursedItems
RollReq(hero) == Heroes[hero]

(* A hero's printed class. *)
DefaultClass ==
    [h \in DOMAIN Fighters |-> "Fighter"] @@ [h \in DOMAIN Rangers |-> "Ranger"]
    @@ [h \in DOMAIN Thieves |-> "Thief"]
    @@ [h \in DOMAIN Guardians |-> "Guardian"]
    @@ [h \in DOMAIN Wizards |-> "Wizard"] @@ [h \in DOMAIN Bards |-> "Bard"]

-----------------------------------------------------------------------------
(* What a monster answers *)

Times(classes, k) == Cardinality({i \in DOMAIN classes : classes[i] = k})

(* Heroes stand in for the named classes one for one, and those left over   *)
(* make up the numbers.                                                     *)
HeroesCover(classes, named, any) ==
    /\ \A i \in DOMAIN named : Times(named, named[i]) <= Times(classes, named[i])
    /\ Len(classes) - Len(named) >= any

Dropped(s, i) == SubSeq(s, 1, i - 1) \o SubSeq(s, i + 1, Len(s))

(* canBeAttackedBy: the leader may stand in for one named class, and for    *)
(* nothing else.                                                            *)
CanBeAttackedBy(m, classes, leaderClass) ==
    LET req == Monsters[m] IN
    \/ HeroesCover(classes, req.named, req.any)
    \/ \E i \in DOMAIN req.named :
          /\ req.named[i] = leaderClass
          /\ HeroesCover(classes, Dropped(req.named, i), req.any)

(* trySlay, the bands of a roll; every monster of the base set is           *)
(* HighToWin.                                                               *)
TrySlay(m, roll) ==
    IF roll >= Monsters[m].higher THEN "Slay"
    ELSE IF roll <= Monsters[m].lower THEN "FightBack" ELSE "Miss"
=============================================================================
