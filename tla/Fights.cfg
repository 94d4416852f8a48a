SPECIFICATION FairSpec
CONSTANTS
    p1 = p1  p2 = p2  p3 = p3
    h1 = h1  h2 = h2  h3 = h3  h4 = h4
    magic = magic  mod1 = mod1  mod2 = mod2  chal = chal
    serpent = serpent  bloodwing = bloodwing  horn = horn
    monster = monster  monster2 = monster2
    Player = {p1, p2}
    Hero = {h1, h2, h3, h4}
    TargetHero = {}
    Magic = {}
    Modifier = {mod1, mod2}
    Challenge = {chal}
    Monster = {monster, monster2, bloodwing}
    Serpent = serpent
    Bloodwing = bloodwing
    Horn = horn
    HornSeat = {}
    ModifierValue <- PlusMinusTwo
    Margin <- JustMissOrMake
    FightBack = 2
    PartyNeed = 1
    Budget = 2
    HandLimit = 10
    NextSeat <- Turns2
    InitBoards <- FightsBoards
INVARIANTS TypeOK CardsConserved
PROPERTIES EverySettles
