SPECIFICATION Spec
CONSTANTS
    p1 = p1  p2 = p2  p3 = p3
    h1 = h1  h2 = h2  h3 = h3  h4 = h4
    magic = magic  mod1 = mod1  mod2 = mod2  chal = chal
    serpent = serpent  bloodwing = bloodwing  horn = horn
    monster = monster  monster2 = monster2
    Player = {p1, p2, p3}
    Hero = {h1, h2, h3}
    TargetHero = {}
    Magic = {magic}
    Modifier = {mod1, mod2}
    Challenge = {chal}
    Monster = {}
    Serpent = serpent
    Bloodwing = bloodwing
    Horn = horn
    HornSeat = {}
    ModifierValue <- PlusMinusTwo
    Margin <- JustMissOrMake
    FightBack = 2
    PartyNeed = 1
    Budget = 2
    HandLimit = 10
    NextSeat <- Turns3
    InitBoards <- PlaysBoards
INVARIANTS OneStandingWindow
PROPERTIES SpentIsSpent NothingRefunded
