------------------------------ MODULE MCCardGame ------------------------------
(***************************************************************************)
(* Small boards for CardGame: for every card of the base set a board where  *)
(* it is at work, with somebody to use it on and something for it to find.  *)
(***************************************************************************)
EXTENDS CardGame

MCSeats == <<"p1", "p2">>

(* Two seats.  The first is to spend its points; the second has a hero that *)
(* wears an item, and cards to react with.                                  *)
Table ==
    [hand |-> [p1 |-> {"SealingKey", "ReallyBigRing"},
               p2 |-> {"PlusFour", "Hook"}],
     points |-> [p1 |-> 1, p2 |-> 0],
     leader |-> [p1 |-> "CharismaticSong", p2 |-> "DivineArrow"],
     heroes |-> [p1 |-> <<>>, p2 |-> <<"KitNapper">>],
     slain |-> [p1 |-> <<>>, p2 |-> <<>>],
     inst |-> [p1 |-> <<>>, p2 |-> <<>>],
     worn |-> "KitNapper" :> "ThiefMask",
     effects |-> [p1 |-> <<>>, p2 |-> <<>>],
     deck |-> <<"EnchantedSpell", "BardMask", "BunBun">>,
     discard |-> {"MinusFour", "Peanut", "CriticalBoost",
                  "ParticularlyRustyCoin"},
     row |-> <<>>, monsters |-> <<>>,
     used |-> {}, contested |-> {}, current |-> "p1", turns |-> 0]

(* The table with these cards out of the hands and the piles.               *)
Clear(b, cards) ==
    [b EXCEPT !.hand = [p \in DOMAIN @ |-> @[p] \ cards],
              !.deck = SelectSeq(@, LAMBDA c : c \notin cards),
              !.discard = @ \ cards]

(* The board with the effects that its monsters and items have installed.   *)
Standing(c, p, h, event) ==
    FlattenSeq([r \in DOMAIN AbilityRegistry[c] |->
        IF AbilityRegistry[c][r].on # event THEN <<>>
        ELSE LET steps == SelectSeq(AbilityRegistry[c][r].steps,
                                    LAMBDA step : step.do = "Effect") IN
             [k \in DOMAIN steps |->
                [type |-> steps[k].type, owner |-> p, source |-> c,
                 value |-> steps[k].value, on |-> steps[k].on,
                 types |-> steps[k].types, card |-> h, until |-> steps[k].until]]])
Installed(b) ==
    [b EXCEPT !.effects = [p \in DOMAIN @ |->
        FlattenSeq([k \in DOMAIN b.slain[p] |->
                       Standing(b.slain[p][k], p, NoCard, "MonsterSlain")])
        \o FlattenSeq([k \in DOMAIN b.heroes[p] |->
              LET h == b.heroes[p][k] IN
              IF h \in DOMAIN b.worn
              THEN Standing(b.worn[h], p, h, "ItemEquipped") ELSE <<>>])]]

(* A hero to roll on, against heroes that wear a decoy and a mask. *)
HeroBoard(h) ==
    LET victims == SelectSeq(<<"KitNapper", "Hopper", "Meowzio">>, LAMBDA v : v # h)
        gear == (victims[1] :> "DecoyDoll") @@ (victims[2] :> "ThiefMask") IN
    [Clear(Table, {h}) EXCEPT !.heroes["p1"] = <<h>>,
        !.heroes["p2"] = <<victims[1], victims[2]>>, !.worn = gear]
(* The same hero with monsters slain on either side.                        *)
VeteranBoard(h, mine, theirs) ==
    [HeroBoard(h) EXCEPT !.slain = [p1 |-> <<mine>>, p2 |-> <<theirs>>]]
(* A card to play from the hand, with a challenge waiting for it. *)
Playing(b, c) ==
    [Clear(b, {c, "Peanut"}) EXCEPT !.hand["p1"] = {c, "Wildshot"},
                                    !.hand["p2"] = {"Challenge", "PlusFour"},
                                    !.heroes["p1"] = <<"Peanut">>]
(* An item to play, with heroes on either side that wear none.              *)
ItemBoard(c) ==
    [Playing(Table, c) EXCEPT !.heroes["p1"] = <<"Peanut", "BearClaw">>,
                              !.worn = "BearClaw" :> "FighterMask"]
(* A monster its party may attack, or one already slain.                    *)
RowBoard(m) ==
    [Table EXCEPT !.row = <<m>>, !.monsters = <<"Terratuga">>,
        !.hand = [p1 |-> {"ReallyBigRing", "Hook"}, p2 |-> {"PlusFour"}],
        !.heroes["p1"] = <<"NappingNibbles", "VibrantGlow", "BearClaw", "KitNapper">>,
        !.heroes["p2"] = <<"Meowzio">>, !.worn = "Meowzio" :> "ThiefMask",
        !.leader["p1"] = CHOOSE l \in DOMAIN Leaders :
            Monsters[m].named # <<>> => Leaders[l] = Monsters[m].named[1],
        !.points["p1"] = 2]
SlainBoard(m) ==
    [Playing(Table, "Snowball") EXCEPT !.slain["p1"] = <<m>>,
        !.heroes["p1"] = <<"BadAxe", "Wiggles">>]
LeaderBoard(l) ==
    [Playing(Table, "EnchantedSpell") EXCEPT !.leader["p1"] = l]
(* A magic card drawn while a magic card stands to be challenged. *)
NestedBoard ==
    [LeaderBoard("CloakedSage") EXCEPT !.slain["p1"] = <<"Orthus">>,
        !.deck = <<"CriticalBoost">>, !.discard = {"ForcefulWinds"}]
(* A whole hand to change for another. *)
RedrawBoard == [Table EXCEPT !.points["p1"] = 3, !.discard = {"CriticalBoost"}]
(* Turns that end while a hero is protected to the next. *)
TurnsBoard(h) ==
    [Table EXCEPT !.turns = 2, !.hand = [p1 |-> {}, p2 |-> {}],
        !.heroes = [p1 |-> <<h>>, p2 |-> <<"BadAxe">>],
        !.slain["p2"] = <<"MegaSlime">>,
        !.worn = "BadAxe" :> "ThiefMask",
        !.deck = <<"BardMask", "BunBun", "EnchantedSpell", "RangerMask",
                   "WizardMask", "FuzzyCheeks">>]

Destroyers == {"BadAxe", "SeriousGrey", "Shurikitty", "Fluffy", "Whiskers",
               "QiBear", "PanChucks"}
Drawers == {"QuickDraw", "MellowDee", "Snowball", "Wildshot", "WilyRed"}
Protectors == {"CalmingVoice", "MightyBlade", "IronResolve", "WiseShield"}
MCBoards ==
    {Installed(b) : b \in
        {HeroBoard(h) : h \in DOMAIN Heroes}
        \cup {VeteranBoard(h, "CorruptedSabretooth", "Dracos") : h \in Destroyers}
        \cup {VeteranBoard(h, "Malamammoth", "AbyssQueen") : h \in Drawers}
        \cup {Playing(Table, c) : c \in DOMAIN Magics}
        \cup {ItemBoard(c) : c \in DOMAIN Wearables \ {"FighterMask"}}
        \cup {RowBoard(m) : m \in DOMAIN Monsters \ {"Terratuga"}}
        \cup {SlainBoard(m) : m \in DOMAIN Monsters}
        \cup {LeaderBoard(l) : l \in DOMAIN Leaders \ {"DivineArrow"}}
        \cup {RedrawBoard} \cup {TurnsBoard(h) : h \in Protectors}}
NestedBoards == {NestedBoard}
(* A hero that plays an item, with a cursed one in the hand. *)
CursedBoards == {Installed(HeroBoard("Hook"))}
===============================================================================
