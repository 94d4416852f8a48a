--------------------------- MODULE ReactionsProofs ---------------------------
(***************************************************************************)
(* Theorems about Reactions, for any table: any number of seats, any cards, *)
(* any dice, any boards to begin with.  First types; then the windows: no   *)
(* pipeline is left waiting for a frame that is gone, no two rolls or       *)
(* contests stand at once, and no rollback gives a price back.              *)
(***************************************************************************)
EXTENDS Reactions, SequenceTheorems, TLAPS

-----------------------------------------------------------------------------
(* The inductive type invariant.  TypeOK alone is not inductive: a window   *)
(* must also be about a card of the kind its settlement moves, and a step   *)
(* that rolls must belong to a hero.                                        *)

AboutItsKind(win) ==
    /\ win.kind = "attack" => win.about \in Monster
    /\ win.kind = "challenge" => win.about \in Card
    /\ win.kind = "confirm" => win.about \in Hero \cup {Serpent}

RollsAHero(run) ==
    \A i \in DOMAIN run.steps :
        /\ run.steps[i] \in {"AskRoll", "Roll"} =>
               run.card \in Hero /\ Len(run.steps) = 1
        /\ run.steps[i] = "AskDraw" => run.card = Serpent

GoodWindow == {win \in WindowType : AboutItsKind(win)}
GoodPipeline == {run \in PipelineType : RollsAHero(run)}

(* What is pushed on the stack is fresh: parked nowhere.  All but the two    *)
(* offers of a roll are plain: they open no roll.                           *)
Offers(run) == \E i \in DOMAIN run.steps : run.steps[i] \in {"AskRoll", "Roll"}
FreshPipeline == {run \in GoodPipeline : run.on = NoFrame}
PlainPipeline == {run \in FreshPipeline : ~Offers(run)}

GoodFrames(fs) ==
    /\ DOMAIN fs \subseteq Nat \ {0}
    /\ \A f \in DOMAIN fs : fs[f] \in [snap : Board, win : GoodWindow]

GoodStack(st) ==
    /\ DOMAIN st \subseteq Nat \ {0}
    /\ \A t \in DOMAIN st : st[t] \in GoodPipeline

SettledType == [frame : Nat, cards : SUBSET Source, answer : AnswerType]

TypeInv ==
    /\ board \in Board
    /\ GoodFrames(frames)
    /\ GoodStack(stack)
    /\ settled \in SettledType

-----------------------------------------------------------------------------
(* Boards *)

LEMMA PutAwayType ==
    ASSUME NEW b \in Board, NEW cards
    PROVE  PutAway(b, cards) \in Board
  BY DEF PutAway, Board

LEMMA RefilledType ==
    ASSUME NEW b \in Board
    PROVE  Refilled(b) \in Board
  BY DEF Refilled, Board

LEMMA DrawnType ==
    ASSUME NEW b \in Board, NEW p \in Player, NEW d \in Drawn(b, p)
    PROVE  d \in Board
  <1>1. CASE b.deck = {}
    BY <1>1, RefilledType DEF Drawn
  <1>2. CASE b.deck # {}
    <2>1. PICK c \in b.deck :
              d = Refilled([b EXCEPT !.deck = @ \ {c},
                                     !.hand[p] = @ \cup {c}])
      BY <1>2 DEF Drawn
    <2>2. [b EXCEPT !.deck = @ \ {c}, !.hand[p] = @ \cup {c}] \in Board
      BY DEF Board
    <2> QED BY <2>1, <2>2, RefilledType
  <1> QED BY <1>1, <1>2

LEMMA DiscardedType ==
    ASSUME NEW b \in Board, NEW p \in Player, NEW cards
    PROVE  Discarded(b, p, cards) \in Board
  <1>1. [b EXCEPT !.hand[p] = @ \ cards] \in Board
    BY DEF Board
  <1> QED BY <1>1, PutAwayType DEF Discarded

LEMMA RemovedHeroesType ==
    ASSUME NEW b \in Board, NEW cards
    PROVE  RemovedHeroes(b, cards) \in Board
  <1>1. [b EXCEPT !.heroes = [p \in Player |-> b.heroes[p] \ cards]] \in Board
    BY DEF Board
  <1> QED BY <1>1, PutAwayType DEF RemovedHeroes

LEMMA ReleasedType ==
    ASSUME TypeInv, NEW f
    PROVE  Released(f) \in Board
  <1>1. [board EXCEPT !.instance =
            [p \in Player |-> board.instance[p] \ Spent(f)[p]]] \in Board
    BY DEF TypeInv, Board
  <1> QED BY <1>1, PutAwayType DEF Released

LEMMA RestoredType ==
    ASSUME TypeInv, NEW f \in DOMAIN frames
    PROVE  Restored(f) \in Board
  <1>1. frames[f].snap \in Board
    BY DEF TypeInv, GoodFrames
  <1>2. [frames[f].snap EXCEPT !.hand =
            [p \in Player |-> frames[f].snap.hand[p] \ Spent(f)[p]]] \in Board
    BY <1>1 DEF Board
  <1> QED BY <1>2, PutAwayType DEF Restored

LEMMA SlainType ==
    ASSUME NEW b \in Board, NEW m \in Monster, NEW p \in Player,
           NEW d \in Slain(b, m, p)
    PROVE  d \in Board
  <1> DEFINE won == [b EXCEPT !.row = @ \ {m}, !.slain[p] = @ \cup {m}]
  <1>1. won \in Board
    BY DEF Board
  <1>2. CASE b.monsterDeck = {}
    BY <1>1, <1>2 DEF Slain
  <1>3. CASE b.monsterDeck # {}
    <2>1. PICK n \in b.monsterDeck :
              d = [won EXCEPT !.row = @ \cup {n}, !.monsterDeck = @ \ {n}]
      BY <1>3 DEF Slain
    <2>2. n \in Monster
      BY DEF Board
    <2>3. [won EXCEPT !.row = @ \cup {n}, !.monsterDeck = @ \ {n}] \in Board
      <3> HIDE DEF won
      <3> QED BY <1>1, <2>2 DEF Board
    <2> QED BY <2>1, <2>3
  <1> QED BY <1>2, <1>3

-----------------------------------------------------------------------------
(* Windows *)

LEMMA WindowTyped ==
    ASSUME NEW kind \in {"value", "card", "roll"}, NEW by \in Player,
           NEW about \in Source
    PROVE  Window(kind, by, about) \in GoodWindow
  BY DEF Window, GoodWindow, WindowType, AboutItsKind, Standing, Question

LEMMA ChallengeWindowTyped ==
    ASSUME NEW by \in Player, NEW about \in Card
    PROVE  Window("challenge", by, about) \in GoodWindow
  BY DEF Window, GoodWindow, WindowType, AboutItsKind, Standing, Question, Source

(* Writing into a window what play writes into it leaves it good. *)
LEMMA FieldsTyped ==
    ASSUME NEW win \in GoodWindow
    PROVE  /\ \A m \in Int : [win EXCEPT !.margin = m] \in GoodWindow
           /\ \A m \in Int, b \in BOOLEAN :
                 /\ [win EXCEPT !.margin = m, !.asked = b] \in GoodWindow
                 /\ [win EXCEPT !.margin = m, !.passes = {}, !.asked = b]
                       \in GoodWindow
           /\ \A cards \in SUBSET Card :
                 [win EXCEPT !.offers = cards] \in GoodWindow
           /\ \A v \in Int : [win EXCEPT !.silent = v] \in GoodWindow
           /\ \A seats \in SUBSET Player :
                 [win EXCEPT !.passes = seats] \in GoodWindow
  <1>1. \A m \in Int : [win EXCEPT !.margin = m] \in GoodWindow
    BY DEF GoodWindow, WindowType, AboutItsKind
  <1>2. \A m \in Int, b \in BOOLEAN :
            [win EXCEPT !.margin = m, !.asked = b] \in GoodWindow
    BY DEF GoodWindow, WindowType, AboutItsKind
  <1>3. \A m \in Int, b \in BOOLEAN :
            [win EXCEPT !.margin = m, !.passes = {}, !.asked = b] \in GoodWindow
    BY DEF GoodWindow, WindowType, AboutItsKind
  <1>4. \A cards \in SUBSET Card : [win EXCEPT !.offers = cards] \in GoodWindow
    BY DEF GoodWindow, WindowType, AboutItsKind
  <1>5. \A v \in Int : [win EXCEPT !.silent = v] \in GoodWindow
    BY DEF GoodWindow, WindowType, AboutItsKind
  <1>6. \A seats \in SUBSET Player : [win EXCEPT !.passes = seats] \in GoodWindow
    BY DEF GoodWindow, WindowType, AboutItsKind
  <1> QED
    BY <1>1, <1>2, <1>3, <1>4, <1>5, <1>6

LEMMA AttackWindowTyped ==
    ASSUME NEW by \in Player, NEW about \in Monster, NEW m \in Int
    PROVE  [Window("attack", by, about) EXCEPT !.margin = m] \in GoodWindow
  <1>1. Window("attack", by, about) \in GoodWindow
    BY DEF Window, GoodWindow, WindowType, AboutItsKind, Standing, Question, Source
  <1> QED BY <1>1, FieldsTyped

LEMMA ConfirmWindowTyped ==
    ASSUME NEW by \in Player, NEW about \in Hero \cup {Serpent}
    PROVE  Window("confirm", by, about) \in GoodWindow
  BY DEF Window, GoodWindow, WindowType, AboutItsKind, Standing, Question,
         Source, Card

LEMMA OffersTyped ==
    ASSUME NEW by \in Player, NEW about \in Source, NEW offers \in SUBSET Card
    PROVE  [Window("card", by, about) EXCEPT !.offers = offers] \in GoodWindow
  BY WindowTyped, FieldsTyped

LEMMA SilentTyped ==
    ASSUME NEW by \in Player, NEW about \in Source, NEW v \in Int
    PROVE  [Window("value", by, about) EXCEPT !.silent = v] \in GoodWindow
  BY WindowTyped, FieldsTyped

LEMMA RollWindowTyped ==
    ASSUME NEW p \in Player, NEW h \in Source, NEW m \in Int
    PROVE  RollWindow(p, h, m) \in GoodWindow
  <1>1. (m >= 0) \in BOOLEAN
    OBVIOUS
  <1> QED BY <1>1, WindowTyped, FieldsTyped DEF RollWindow

LEMMA OpenedTyped ==
    ASSUME TypeInv, NEW n \in Nat \ {0}, NEW win \in GoodWindow
    PROVE  GoodFrames(Opened(n, win))
  BY DEF TypeInv, GoodFrames, Opened

LEMMA WithoutFrames ==
    ASSUME TypeInv, NEW S
    PROVE  GoodFrames(Without(frames, S))
  BY DEF TypeInv, GoodFrames, Without

-----------------------------------------------------------------------------
(* Pipelines *)

LEMMA StepsTyped ==
    /\ <<"Apply">> \in Seq(StepName)
    /\ <<"Start">> \in Seq(StepName)
    /\ <<"AskDraw">> \in Seq(StepName)
    /\ <<"Draw">> \in Seq(StepName)
    /\ <<"AskRoll">> \in Seq(StepName)
    /\ <<"Roll">> \in Seq(StepName)
    /\ <<"Dispose">> \in Seq(StepName)
    /\ <<"Destroy">> \in Seq(StepName)
    /\ <<"AskAnyHero", "Land">> \in Seq(StepName)
    /\ <<"AskValue", "Apply">> \in Seq(StepName)
    /\ <<"AskHand", "Discard">> \in Seq(StepName)
    /\ <<"AskOwnHero", "Sacrifice">> \in Seq(StepName)
    /\ <<"AskHand", "Discard", "AskAnyHero", "Destroy">> \in Seq(StepName)
  BY DEF StepName

(* The programs that ask for no roll and no draw. *)
Plain(steps) ==
    /\ steps \in Seq(StepName)
    /\ \A i \in DOMAIN steps : steps[i] \notin {"AskRoll", "Roll", "AskDraw"}

LEMMA PlainSteps ==
    /\ Plain(<<"Apply">>) /\ Plain(<<"Start">>) /\ Plain(<<"Draw">>)
    /\ Plain(<<"Dispose">>) /\ Plain(<<"Destroy">>)
    /\ Plain(<<"AskAnyHero", "Land">>) /\ Plain(<<"AskValue", "Apply">>)
    /\ Plain(<<"AskHand", "Discard">>) /\ Plain(<<"AskOwnHero", "Sacrifice">>)
    /\ Plain(<<"AskHand", "Discard", "AskAnyHero", "Destroy">>)
  BY StepsTyped DEF Plain

LEMMA PipelineTyped ==
    ASSUME NEW card \in Source, NEW owner \in Player, NEW steps, Plain(steps)
    PROVE  Pipeline(card, owner, steps) \in PlainPipeline
  BY DEF Pipeline, GoodPipeline, PipelineType, RollsAHero, Plain, NoFrame,
         FreshPipeline, PlainPipeline, Offers

(* Writing a slot, a seat, the system mark or a parking place leaves a      *)
(* pipeline good, and writing the first three leaves it plain.              *)
LEMMA SlotsTyped ==
    ASSUME NEW run \in GoodPipeline
    PROVE  /\ \A n \in Nat : [run EXCEPT !.on = n] \in GoodPipeline
           /\ \A n \in Nat, v \in Int, b \in BOOLEAN, cards \in SUBSET Card :
                 [run EXCEPT !.on = n, !.value = v, !.fed = b, !.pick = cards]
                    \in GoodPipeline
  <1>1. run \in PipelineType /\ RollsAHero(run)
    BY DEF GoodPipeline
  <1>2. ASSUME NEW n \in Nat PROVE [run EXCEPT !.on = n] \in GoodPipeline
    BY <1>1 DEF GoodPipeline, PipelineType, RollsAHero
  <1>3. ASSUME NEW n \in Nat, NEW v \in Int, NEW b \in BOOLEAN,
               NEW cards \in SUBSET Card
        PROVE  [run EXCEPT !.on = n, !.value = v, !.fed = b, !.pick = cards]
                  \in GoodPipeline
    BY <1>1 DEF GoodPipeline, PipelineType, RollsAHero
  <1> QED
    BY <1>2, <1>3

LEMMA PlainSlots ==
    ASSUME NEW run \in PlainPipeline
    PROVE  /\ \A seat \in Player : [run EXCEPT !.seat = seat] \in PlainPipeline
           /\ \A seat \in Player, v \in Int :
                 [run EXCEPT !.seat = seat, !.value = v] \in PlainPipeline
           /\ \A b \in BOOLEAN, cards \in SUBSET Card :
                 [run EXCEPT !.fed = b, !.pick = cards] \in PlainPipeline
           /\ [run EXCEPT !.system = TRUE] \in PlainPipeline
  BY DEF GoodPipeline, PipelineType, RollsAHero, FreshPipeline, PlainPipeline,
         Offers

LEMMA SystemTyped ==
    ASSUME NEW run \in FreshPipeline
    PROVE  [run EXCEPT !.system = TRUE] \in FreshPipeline
  BY DEF GoodPipeline, PipelineType, RollsAHero, FreshPipeline

LEMMA PlainIsGood ==
    /\ PlainPipeline \subseteq FreshPipeline
    /\ FreshPipeline \subseteq GoodPipeline
    /\ \A run \in Seq(PlainPipeline) : run \in Seq(FreshPipeline)
    /\ \A run \in Seq(FreshPipeline) : run \in Seq(GoodPipeline)
  <1>1. PlainPipeline \subseteq FreshPipeline /\ FreshPipeline \subseteq GoodPipeline
    BY DEF PlainPipeline, FreshPipeline
  <1>2. ASSUME NEW S, NEW T, S \subseteq T, NEW run \in Seq(S)
        PROVE  run \in Seq(T)
    BY <1>2
  <1> QED BY <1>1, <1>2

LEMMA HeroPipelineTyped ==
    ASSUME NEW h \in Hero, NEW owner \in Player,
           NEW steps \in {<<"AskRoll">>, <<"Roll">>}
    PROVE  [Pipeline(h, owner, steps) EXCEPT !.system = TRUE] \in FreshPipeline
  <1>1. steps \in Seq(StepName) /\ \A i \in DOMAIN steps : steps[i] # "AskDraw"
        /\ Len(steps) = 1
    <2>1. CASE steps = <<"AskRoll">>
      BY <2>1, StepsTyped
    <2>2. CASE steps = <<"Roll">>
      BY <2>2, StepsTyped
    <2> QED BY <2>1, <2>2
  <1>2. Pipeline(h, owner, steps) \in FreshPipeline
    BY <1>1 DEF Pipeline, GoodPipeline, PipelineType, RollsAHero, Source, Card,
                NoFrame, FreshPipeline
  <1> QED BY <1>2, SystemTyped

LEMMA SerpentPipelineTyped ==
    ASSUME NEW owner \in Player
    PROVE  Pipeline(Serpent, owner, <<"AskDraw">>) \in PlainPipeline
  BY StepsTyped DEF Pipeline, GoodPipeline, PipelineType, RollsAHero, Source,
                    NoFrame, FreshPipeline, PlainPipeline, Offers

LEMMA TailTyped ==
    ASSUME NEW run \in GoodPipeline, run.steps # <<>>
    PROVE  [run EXCEPT !.steps = Tail(@)] \in GoodPipeline
  <1>1. run.steps \in Seq(StepName)
    BY DEF GoodPipeline, PipelineType
  <1>2. /\ Tail(run.steps) \in Seq(StepName)
        /\ DOMAIN Tail(run.steps) = 1..(Len(run.steps) - 1)
        /\ \A i \in 1..(Len(run.steps) - 1) : Tail(run.steps)[i] = run.steps[i + 1]
    BY <1>1
  <1>3. \A i \in DOMAIN Tail(run.steps) : i + 1 \in DOMAIN run.steps
    BY <1>1, <1>2
  <1> DEFINE rest == [run EXCEPT !.steps = Tail(@)]
  <1>4. rest \in PipelineType /\ rest.steps = Tail(run.steps)
                              /\ rest.card = run.card
    BY <1>2 DEF GoodPipeline, PipelineType
  <1>5. RollsAHero(rest)
    <2> HIDE DEF rest
    <2> QED BY <1>2, <1>3, <1>4 DEF GoodPipeline, RollsAHero
  <1> QED BY <1>4, <1>5 DEF GoodPipeline

LEMMA PushedTyped ==
    ASSUME NEW st, GoodStack(st), NEW t \in DOMAIN st \cup {0},
           IsNewest(t, DOMAIN st), NEW run \in Seq(GoodPipeline)
    PROVE  GoodStack(Pushed(st, t, run))
  <1>1. t \in Nat /\ Len(run) \in Nat
    BY DEF GoodStack
  <1>2. DOMAIN Pushed(st, t, run) = DOMAIN st \cup (t + 1)..(t + Len(run))
    BY DEF Pushed
  <1>3. ASSUME NEW i \in DOMAIN Pushed(st, t, run)
        PROVE  i \in Nat \ {0} /\ Pushed(st, t, run)[i] \in GoodPipeline
    <2>1. i \in Nat \ {0}
      BY <1>1, <1>2, <1>3 DEF GoodStack
    <2>2. CASE i > t
      <3>1. i \in (t + 1)..(t + Len(run))
        BY <1>1, <1>2, <2>1, <2>2 DEF IsNewest, GoodStack
      <3>2. t + Len(run) + 1 - i \in 1..Len(run)
        BY <1>1, <3>1
      <3>3. Pushed(st, t, run)[i] = run[t + Len(run) + 1 - i]
        BY <1>2, <1>3, <2>2 DEF Pushed
      <3> QED BY <2>1, <3>2, <3>3
    <2>3. CASE ~(i > t)
      <3>1. i \in DOMAIN st
        BY <1>1, <1>2, <2>1, <2>3
      <3>2. Pushed(st, t, run)[i] = st[i]
        BY <1>2, <1>3, <2>3 DEF Pushed
      <3> QED BY <2>1, <3>1, <3>2 DEF GoodStack
    <2> QED BY <2>2, <2>3
  <1> QED BY <1>3 DEF GoodStack

LEMMA WithoutStack ==
    ASSUME NEW st, GoodStack(st), NEW S
    PROVE  GoodStack(Without(st, S))
  BY DEF GoodStack, Without

-----------------------------------------------------------------------------
(* The runs an event sets off *)

LEMMA RollPassingTyped ==
    ASSUME NEW b \in Board, NEW h, NEW run \in RollPassingRuns(b, h)
    PROVE  run \in Seq(PlainPipeline)
  <1>1. CASE run = <<>>
    BY <1>1
  <1>2. CASE run # <<>>
    <2>1. PICK p \in Player : run = <<Pipeline(h, p, <<"AskAnyHero", "Land">>)>>
      BY <1>2 DEF RollPassingRuns
    <2>2. h \in Source
      BY <1>2, ConstantsAssumption DEF RollPassingRuns, Source, Card
    <2>3. Pipeline(h, p, <<"AskAnyHero", "Land">>) \in PlainPipeline
      BY <2>2, PlainSteps, PipelineTyped
    <2> QED BY <2>1, <2>3
  <1> QED BY <1>1, <1>2

LEMMA RollSuccessTyped ==
    ASSUME NEW b \in Board, NEW win \in GoodWindow,
           NEW run \in RollSuccessRuns(b, win)
    PROVE  run \in Seq(PlainPipeline)
  <1>1. CASE run = <<>>
    BY <1>1
  <1>2. CASE run # <<>>
    <2>1. PICK p \in Player :
              run = <<[Pipeline(win.about, p, <<"Destroy">>)
                         EXCEPT !.fed = win.aimed, !.pick = win.target]>>
      BY <1>2 DEF RollSuccessRuns
    <2>2. win.about \in Source /\ win.aimed \in BOOLEAN
                               /\ win.target \in SUBSET Card
      BY DEF GoodWindow, WindowType
    <2>3. Pipeline(win.about, p, <<"Destroy">>) \in PlainPipeline
      BY <2>2, PlainSteps, PipelineTyped
    <2>4. [Pipeline(win.about, p, <<"Destroy">>)
             EXCEPT !.fed = win.aimed, !.pick = win.target] \in PlainPipeline
      BY <2>2, <2>3, PlainSlots
    <2> QED BY <2>1, <2>4
  <1> QED BY <1>1, <1>2

LEMMA ModifierPlayedTyped ==
    ASSUME NEW p \in Player, NEW c \in Card, NEW v \in Int, NEW seat \in Player,
           NEW run \in ModifierPlayedRuns(p, c, v, seat)
    PROVE  run \in Seq(PlainPipeline)
  <1> DEFINE mine == [Pipeline(c, p, <<"Apply">>)
                        EXCEPT !.seat = seat, !.value = v]
             ask  == [Pipeline(Horn, p, <<"AskValue", "Apply">>)
                        EXCEPT !.seat = seat, !.value = v]
             own  == <<mine>>
             blown == IF p \in HornSeat THEN <<ask>> ELSE <<>>
             holders == {q \in Player : Serpent \in board.slain[q]}
             serpents == IF holders = {} THEN {<<>>}
                         ELSE {<<Pipeline(Serpent, q, <<"AskDraw">>)>> :
                                  q \in holders}
  <1>1. mine \in PlainPipeline
    <2>1. Pipeline(c, p, <<"Apply">>) \in PlainPipeline
      BY PlainSteps, PipelineTyped DEF Source
    <2> QED BY <2>1, PlainSlots
  <1>2. ask \in PlainPipeline
    <2>1. Pipeline(Horn, p, <<"AskValue", "Apply">>) \in PlainPipeline
      BY PlainSteps, PipelineTyped DEF Source
    <2> QED BY <2>1, PlainSlots
  <1>3. own \in Seq(PlainPipeline) /\ blown \in Seq(PlainPipeline)
    <2> HIDE DEF mine, ask
    <2> QED BY <1>1, <1>2
  <1>4. \A s \in serpents : s \in Seq(PlainPipeline)
    <2>1. \A q \in Player : <<Pipeline(Serpent, q, <<"AskDraw">>)>>
                                \in Seq(PlainPipeline)
      <3> TAKE q \in Player
      <3>1. Pipeline(Serpent, q, <<"AskDraw">>) \in PlainPipeline
        BY SerpentPipelineTyped
      <3> QED BY <3>1
    <2> TAKE s \in serpents
    <2>2. CASE s = <<>>
      BY <2>2
    <2>3. CASE s # <<>>
      <3>1. PICK q \in Player : s = <<Pipeline(Serpent, q, <<"AskDraw">>)>>
        BY <2>3
      <3> QED BY <2>1, <3>1
    <2> QED BY <2>2, <2>3
  <1>5. run \in UNION {{own \o blown \o s, own \o s \o blown} : s \in serpents}
    BY DEF ModifierPlayedRuns
  <1> HIDE DEF own, blown, serpents
  <1>6. PICK s \in serpents : run \in {own \o blown \o s, own \o s \o blown}
    BY <1>5
  <1>7. s \in Seq(PlainPipeline)
    BY <1>4, <1>6
  <1>8. own \o blown \in Seq(PlainPipeline) /\ own \o s \in Seq(PlainPipeline)
    BY <1>3, <1>7, ConcatProperties
  <1>9. own \o blown \o s \in Seq(PlainPipeline)
    BY <1>7, <1>8, ConcatProperties
  <1>10. own \o s \o blown \in Seq(PlainPipeline)
    BY <1>3, <1>8, ConcatProperties
  <1> QED BY <1>6, <1>9, <1>10

LEMMA ChallengePlayedTyped ==
    ASSUME NEW p \in Player, NEW c \in Card, NEW defender \in Player
    PROVE  ChallengePlayedRuns(p, c, defender) \in Seq(PlainPipeline)
  <1> DEFINE start == <<Pipeline(c, p, <<"Start">>)>>
             bite  == [Pipeline(Bloodwing, defender, <<"AskHand", "Discard">>)
                         EXCEPT !.seat = p]
             rest  == IF Bloodwing \in board.slain[defender]
                      THEN <<bite>> ELSE <<>>
  <1>1. start \in Seq(PlainPipeline)
    <2>1. Pipeline(c, p, <<"Start">>) \in PlainPipeline
      BY PlainSteps, PipelineTyped DEF Source
    <2> QED BY <2>1
  <1>2. bite \in PlainPipeline
    <2>1. Pipeline(Bloodwing, defender, <<"AskHand", "Discard">>)
             \in PlainPipeline
      BY PlainSteps, PipelineTyped DEF Source
    <2> QED BY <2>1, PlainSlots
  <1>3. rest \in Seq(PlainPipeline)
    <2> HIDE DEF bite
    <2> QED BY <1>2
  <1>4. ChallengePlayedRuns(p, c, defender) = start \o rest
    BY DEF ChallengePlayedRuns
  <1> HIDE DEF start, rest
  <1> QED BY <1>1, <1>3, <1>4, ConcatProperties

LEMMA FrameResolvedTyped ==
    ASSUME NEW b \in Board, NEW cards \in SUBSET Source,
           NEW run \in FrameResolvedRuns(b, cards)
    PROVE  run \in Seq(FreshPipeline)
  <1>1. CASE run = <<>>
    BY <1>1
  <1>2. CASE run # <<>>
    <2> DEFINE effect(c, p) == Pipeline(c, p, <<"AskHand", "Discard",
                                                "AskAnyHero", "Destroy">>)
               offer(c, p) == [Pipeline(c, p, <<"AskRoll">>)
                                 EXCEPT !.system = TRUE]
    <2>1. PICK p \in Player :
              \/ \E c \in cards \cap b.instance[p] \cap Magic :
                     run = <<effect(c, p)>>
              \/ \E c \in cards \cap b.heroes[p] \cap Hero :
                     run = <<offer(c, p)>>
      BY <1>2 DEF FrameResolvedRuns
    <2>2. CASE \E c \in cards \cap b.instance[p] \cap Magic :
                   run = <<effect(c, p)>>
      <3>1. PICK c \in cards \cap b.instance[p] \cap Magic :
                run = <<effect(c, p)>>
        BY <2>2
      <3>2. effect(c, p) \in FreshPipeline
        BY PlainSteps, PipelineTyped, PlainIsGood
      <3> QED BY <3>1, <3>2
    <2>3. CASE \E c \in cards \cap b.heroes[p] \cap Hero :
                   run = <<offer(c, p)>>
      <3>1. PICK c \in cards \cap b.heroes[p] \cap Hero :
                run = <<offer(c, p)>>
        BY <2>3
      <3>2. offer(c, p) \in FreshPipeline
        BY HeroPipelineTyped
      <3> QED BY <3>1, <3>2
    <2> QED BY <2>1, <2>2, <2>3
  <1> QED BY <1>1, <1>2

LEMMA TaskConfirmedTyped ==
    ASSUME NEW b, NEW win \in GoodWindow, win.kind = "confirm"
    PROVE  TaskConfirmedRun(b, win) \in Seq(FreshPipeline)
  <1>1. win.by \in Player /\ win.about \in Hero \cup {Serpent}
    BY DEF GoodWindow, WindowType, AboutItsKind
  <1>2. CASE win.about = Serpent
    <2>1. Pipeline(Serpent, win.by, <<"Draw">>) \in FreshPipeline
      BY <1>1, PlainSteps, PipelineTyped, PlainIsGood DEF Source
    <2> QED BY <1>2, <2>1 DEF TaskConfirmedRun
  <1>3. CASE win.about # Serpent
    <2>1. [Pipeline(win.about, win.by, <<"Roll">>) EXCEPT !.system = TRUE]
             \in FreshPipeline
      BY <1>1, <1>3, HeroPipelineTyped
    <2> QED BY <1>3, <2>1 DEF TaskConfirmedRun
  <1> QED BY <1>2, <1>3

-----------------------------------------------------------------------------
(* Every step keeps the type invariant: the internal steps *)

LEMMA TakesOne ==
    ASSUME NEW t, NEW step, Takes(t, step)
    PROVE  /\ t \in DOMAIN stack /\ IsNewest(t, DOMAIN stack)
           /\ stack[t].on = NoFrame
           /\ stack[t].steps # <<>> /\ Head(stack[t].steps) = step
  BY DEF Takes, IsRunnable, IsTop

LEMMA AdvancedTyped ==
    ASSUME TypeInv, NEW t \in DOMAIN stack, stack[t].steps # <<>>
    PROVE  /\ GoodStack(Advanced(t))
           /\ DOMAIN Advanced(t) = DOMAIN stack
  <1>1. \A u \in DOMAIN stack : stack[u] \in GoodPipeline
    BY DEF TypeInv, GoodStack
  <1>2. [stack[t] EXCEPT !.steps = Tail(@)] \in GoodPipeline
    BY <1>1, TailTyped
  <1> QED BY <1>1, <1>2 DEF Advanced, TypeInv, GoodStack

LEMMA ParkedTyped ==
    ASSUME NEW st, GoodStack(st), NEW t \in DOMAIN st, NEW n \in Nat
    PROVE  /\ GoodStack([st EXCEPT ![t].on = n])
           /\ DOMAIN [st EXCEPT ![t].on = n] = DOMAIN st
  <1>1. [st[t] EXCEPT !.on = n] \in GoodPipeline
    BY SlotsTyped DEF GoodStack
  <1> QED BY <1>1 DEF GoodStack

LEMMA NewestFrame ==
    ASSUME TypeInv, NEW n \in DOMAIN frames \cup {0, settled.frame}
    PROVE  n \in Nat /\ n + 1 \in Nat \ {0}
  BY DEF TypeInv, GoodFrames, SettledType

LEMMA AskTyped ==
    ASSUME TypeInv, NEW t \in DOMAIN stack, stack[t].steps # <<>>,
           NEW win \in GoodWindow, Ask(t, win)
    PROVE  TypeInv'
  <1>1. PICK n \in DOMAIN frames \cup {0, settled.frame} :
            /\ frames' = Opened(n + 1, win)
            /\ stack' = [Advanced(t) EXCEPT ![t].on = n + 1]
            /\ UNCHANGED <<board, settled>>
    BY DEF Ask
  <1>2. n + 1 \in Nat \ {0}
    BY NewestFrame
  <1>3. GoodFrames(Opened(n + 1, win))
    BY <1>2, OpenedTyped
  <1>4. GoodStack([Advanced(t) EXCEPT ![t].on = n + 1])
    BY <1>2, AdvancedTyped, ParkedTyped
  <1> QED BY <1>1, <1>3, <1>4 DEF TypeInv

LEMMA DoTyped ==
    ASSUME TypeInv, NEW t, NEW step, NEW boards \in SUBSET Board,
           Do(t, step, boards)
    PROVE  TypeInv'
  <1>1. t \in DOMAIN stack /\ stack[t].steps # <<>>
    BY TakesOne DEF Do
  <1>2. GoodStack(Advanced(t))
    BY <1>1, AdvancedTyped
  <1> QED BY <1>2 DEF Do, TypeInv

LEMMA StackTyped ==
    ASSUME TypeInv, NEW t \in DOMAIN stack
    PROVE  /\ stack[t] \in GoodPipeline
           /\ stack[t].owner \in Player /\ stack[t].seat \in Player
           /\ stack[t].card \in Source /\ stack[t].pick \in SUBSET Card
           /\ stack[t].value \in Int /\ stack[t].steps \in Seq(StepName)
  BY DEF TypeInv, GoodStack, GoodPipeline, PipelineType

LEMMA FramesTyped ==
    ASSUME TypeInv, NEW f \in DOMAIN frames
    PROVE  /\ f \in Nat \ {0}
           /\ frames[f].snap \in Board
           /\ frames[f].win \in GoodWindow
           /\ frames[f].win.by \in Player
           /\ frames[f].win.about \in Source
           /\ frames[f].win.margin \in Int
           /\ frames[f].win.silent \in Int
           /\ frames[f].win.offers \in SUBSET Card
           /\ frames[f].win.rival \in SUBSET Player
           /\ frames[f].win.passes \in SUBSET Player
           /\ frames[f].win.asked \in BOOLEAN
           /\ frames[f].win.kind = "attack" => frames[f].win.about \in Monster
           /\ frames[f].win.kind = "challenge" => frames[f].win.about \in Card
  BY DEF TypeInv, GoodFrames, GoodWindow, WindowType, AboutItsKind

(* The question steps. *)
LEMMA QuestionsTyped ==
    ASSUME TypeInv, NEW t \in DOMAIN stack,
           \/ AskHand(t) \/ AskAnyHero(t) \/ AskOwnHero(t) \/ AskValue(t)
           \/ AskDraw(t) \/ AskRoll(t)
    PROVE  TypeInv'
  <1> USE StackTyped
  <1>1. CASE AskHand(t)
    <2>1. board.hand[stack[t].seat] \in SUBSET Card
      BY DEF TypeInv, Board
    <2>2. [Window("card", stack[t].seat, stack[t].card)
             EXCEPT !.offers = board.hand[stack[t].seat]] \in GoodWindow
      BY <2>1, OffersTyped
    <2> QED BY <1>1, <2>2, TakesOne, AskTyped DEF AskHand
  <1>2. CASE AskAnyHero(t)
    <2>1. UNION {board.heroes[p] : p \in Player} \in SUBSET Card
      BY DEF TypeInv, Board
    <2>2. [Window("card", stack[t].owner, stack[t].card)
             EXCEPT !.offers = UNION {board.heroes[p] : p \in Player}]
               \in GoodWindow
      BY <2>1, OffersTyped
    <2> QED BY <1>2, <2>2, TakesOne, AskTyped DEF AskAnyHero
  <1>3. CASE AskOwnHero(t)
    <2>1. board.heroes[stack[t].owner] \in SUBSET Card
      BY DEF TypeInv, Board
    <2>2. [Window("card", stack[t].owner, stack[t].card)
             EXCEPT !.offers = board.heroes[stack[t].owner]] \in GoodWindow
      BY <2>1, OffersTyped
    <2> QED BY <1>3, <2>2, TakesOne, AskTyped DEF AskOwnHero
  <1>4. CASE AskValue(t)
    <2>1. PICK v \in {1, -1} :
              Ask(t, [Window("value", stack[t].owner, stack[t].card)
                        EXCEPT !.silent = v])
      BY <1>4 DEF AskValue, ValueBias
    <2>2. [Window("value", stack[t].owner, stack[t].card)
             EXCEPT !.silent = v] \in GoodWindow
      BY SilentTyped
    <2>3. stack[t].steps # <<>>
      BY <1>4, TakesOne DEF AskValue
    <2> QED BY <2>1, <2>2, <2>3, AskTyped
  <1>5. CASE AskDraw(t) \/ AskRoll(t)
    <2>1. /\ stack[t].steps # <<>>
          /\ Head(stack[t].steps) \in {"AskDraw", "AskRoll"}
          /\ Ask(t, Window("confirm", stack[t].owner, stack[t].card))
      BY <1>5, TakesOne DEF AskDraw, AskRoll, Confirm
    <2>2. 1 \in DOMAIN stack[t].steps /\ Head(stack[t].steps) = stack[t].steps[1]
      BY <2>1
    <2>3. stack[t].card \in Hero \cup {Serpent}
      BY <2>1, <2>2 DEF GoodPipeline, RollsAHero
    <2>4. Window("confirm", stack[t].owner, stack[t].card) \in GoodWindow
      BY <2>3, ConfirmWindowTyped
    <2> QED BY <2>1, <2>4, AskTyped
  <1> QED BY <1>1, <1>2, <1>3, <1>4, <1>5

(* The steps that move cards. *)
LEMMA EffectsTyped ==
    ASSUME TypeInv, NEW t \in DOMAIN stack,
           \/ Draw(t) \/ Discard(t) \/ Destroy(t) \/ Sacrifice(t) \/ Dispose(t)
    PROVE  TypeInv'
  <1> USE StackTyped
  <1>0. board \in Board
    BY DEF TypeInv
  <1>1. CASE Draw(t)
    <2>1. Drawn(board, stack[t].owner) \in SUBSET Board
      BY <1>0, DrawnType
    <2> QED BY <1>1, <2>1, DoTyped DEF Draw
  <1>2. CASE Discard(t)
    <2>1. {Discarded(board, stack[t].seat, stack[t].pick)} \in SUBSET Board
      BY <1>0, DiscardedType
    <2> QED BY <1>2, <2>1, DoTyped DEF Discard
  <1>3. CASE Destroy(t)
    <2>1. {RemovedHeroes(board, stack[t].pick)} \in SUBSET Board
      BY <1>0, RemovedHeroesType
    <2> QED BY <1>3, <2>1, DoTyped DEF Destroy
  <1>4. CASE Sacrifice(t)
    <2>1. {RemovedHeroes(board, stack[t].pick
                                  \cap board.heroes[stack[t].owner])}
             \in SUBSET Board
      BY <1>0, RemovedHeroesType
    <2> QED BY <1>4, <2>1, DoTyped DEF Sacrifice
  <1>5. CASE Dispose(t)
    <2> DEFINE run == stack[t]
               gone == {run.card} \cap board.instance[run.owner]
               left == [board EXCEPT !.instance[run.owner] = @ \ gone]
    <2>1. left \in Board
      BY <1>0 DEF Board
    <2>2. PutAway(left, gone) \in Board
      BY <2>1, PutAwayType
    <2>3. {IF gone = {} \/ IsSpentInOpenFrame(run.card) THEN board
           ELSE PutAway(left, gone)} \in SUBSET Board
      BY <1>0, <2>2
    <2>4. Do(t, "Dispose",
             {IF gone = {} \/ IsSpentInOpenFrame(run.card) THEN board
              ELSE PutAway(left, gone)})
      BY <1>5 DEF Dispose
    <2> HIDE DEF run, gone, left
    <2> QED BY <2>3, <2>4, DoTyped
  <1> QED BY <1>1, <1>2, <1>3, <1>4, <1>5

(* A frame whose window is replaced by a good one. *)
LEMMA RewindowedTyped ==
    ASSUME TypeInv, NEW f \in DOMAIN frames, NEW fs, DOMAIN fs = DOMAIN frames,
           fs[f] \in [snap : Board, win : GoodWindow],
           \A g \in DOMAIN frames \ {f} : fs[g] = frames[g]
    PROVE  GoodFrames(fs)
  BY DEF TypeInv, GoodFrames

LEMMA StartTyped ==
    ASSUME TypeInv, NEW t \in DOMAIN stack, Start(t)
    PROVE  TypeInv'
  <1>1. GoodStack(Advanced(t))
    BY TakesOne, AdvancedTyped DEF Start
  <1>2. CASE UNCHANGED frames
    BY <1>1, <1>2 DEF Start, TypeInv
  <1>3. CASE ~UNCHANGED frames
    <2>1. PICK f \in DOMAIN frames, m \in Margin :
              frames' = [frames EXCEPT ![f].win.rival = {stack[t].owner},
                                       ![f].win.margin = m,
                                       ![f].win.passes = {}]
      BY <1>3 DEF Start
    <2>2. m \in Int /\ {stack[t].owner} \in SUBSET Player
      BY ConstantsAssumption, StackTyped
    <2>3. frames[f] \in [snap : Board, win : GoodWindow]
      BY DEF TypeInv, GoodFrames
    <2>4. frames'[f] \in [snap : Board, win : GoodWindow]
      BY <2>1, <2>2, <2>3 DEF GoodWindow, WindowType, AboutItsKind
    <2>5. GoodFrames(frames')
      BY <2>1, <2>4, RewindowedTyped
    <2> QED BY <1>1, <2>5 DEF Start, TypeInv
  <1> QED BY <1>2, <1>3

LEMMA LandTyped ==
    ASSUME TypeInv, NEW t \in DOMAIN stack, Land(t)
    PROVE  TypeInv'
  <1>1. GoodStack(Advanced(t))
    BY TakesOne, AdvancedTyped DEF Land
  <1>2. CASE UNCHANGED frames
    BY <1>1, <1>2 DEF Land, TypeInv
  <1>3. CASE ~UNCHANGED frames
    <2>1. PICK f \in DOMAIN frames :
              frames' = [frames EXCEPT ![f].win.aimed = TRUE,
                                       ![f].win.target = stack[t].pick,
                                       ![f].win.passes = {}]
      BY <1>3 DEF Land
    <2>2. stack[t].pick \in SUBSET Card
      BY StackTyped
    <2>3. frames[f] \in [snap : Board, win : GoodWindow]
      BY DEF TypeInv, GoodFrames
    <2> DEFINE win == frames[f].win
               hit == [win EXCEPT !.aimed = TRUE, !.target = stack[t].pick,
                                  !.passes = {}]
    <2>4. hit \in GoodWindow
      BY <2>2, <2>3 DEF GoodWindow, WindowType, AboutItsKind
    <2>5. frames'[f] = [frames[f] EXCEPT !.win = hit]
      BY <2>1, <2>3
    <2>6. frames'[f] \in [snap : Board, win : GoodWindow]
      <3> HIDE DEF hit
      <3> QED BY <2>3, <2>4, <2>5
    <2>7. GoodFrames(frames')
      BY <2>1, <2>6, RewindowedTyped
    <2> QED BY <1>1, <2>7 DEF Land, TypeInv
  <1> QED BY <1>2, <1>3

LEMMA ApplyTyped ==
    ASSUME TypeInv, NEW t \in DOMAIN stack, Apply(t)
    PROVE  TypeInv'
  <1>1. /\ GoodStack(Advanced(t)) /\ DOMAIN Advanced(t) = DOMAIN stack
        /\ IsNewest(t, DOMAIN stack)
    BY TakesOne, AdvancedTyped DEF Apply
  <1>2. CASE stack' = Advanced(t) /\ UNCHANGED frames
    BY <1>1, <1>2 DEF Apply, TypeInv
  <1>3. CASE ~(stack' = Advanced(t) /\ UNCHANGED frames)
    <2>1. PICK f \in DOMAIN frames, worth \in {stack[t].value, -stack[t].value},
               passing \in BOOLEAN :
            /\ frames' = [frames EXCEPT
                  ![f].win.margin = @ + worth, ![f].win.passes = {},
                  ![f].win.asked = @ \/ passing]
            /\ \E run2 \in IF passing
                           THEN RollPassingRuns(board, frames[f].win.about)
                           ELSE {<<>>} :
                   stack' = Pushed(Advanced(t), t, run2)
      <3>1. PICK f \in DOMAIN frames :
              LET run == stack[t]
                  win == frames[f].win
                  worth == IF win.kind = "challenge" /\ run.seat # win.by
                           THEN -run.value ELSE run.value
                  passing == /\ win.kind = "roll" /\ ~win.asked
                             /\ win.margin + worth >= 0
              IN  /\ frames' = [frames EXCEPT
                        ![f].win.margin = @ + worth,
                        ![f].win.passes = {},
                        ![f].win.asked = @ \/ passing]
                  /\ \E run2 \in IF passing
                                 THEN RollPassingRuns(board, win.about)
                                 ELSE {<<>>} :
                         stack' = Pushed(Advanced(t), t, run2)
        BY <1>3 DEF Apply
      <3> DEFINE win == frames[f].win
                 w == IF win.kind = "challenge" /\ stack[t].seat # win.by
                      THEN -stack[t].value ELSE stack[t].value
                 b == /\ win.kind = "roll" /\ ~win.asked
                      /\ win.margin + w >= 0
      <3>2. w \in {stack[t].value, -stack[t].value} /\ b \in BOOLEAN
        OBVIOUS
      <3>3. /\ frames' = [frames EXCEPT
                  ![f].win.margin = @ + w, ![f].win.passes = {},
                  ![f].win.asked = @ \/ b]
            /\ \E run2 \in IF b THEN RollPassingRuns(board, win.about)
                           ELSE {<<>>} :
                   stack' = Pushed(Advanced(t), t, run2)
        BY <3>1
      <3> HIDE DEF w, b
      <3> QED BY <3>2, <3>3
    <2>2. worth \in Int
      BY <2>1, StackTyped
    <2>3. frames[f] \in [snap : Board, win : GoodWindow]
      BY DEF TypeInv, GoodFrames
    <2> DEFINE win == frames[f].win
    <2>4. /\ win \in GoodWindow /\ win.margin + worth \in Int
          /\ (win.asked \/ passing) \in BOOLEAN
      BY <2>2, FramesTyped
    <2>5. frames'[f].snap = frames[f].snap
          /\ frames'[f] = [frames[f] EXCEPT !.win = [win EXCEPT
                !.margin = win.margin + worth, !.passes = {},
                !.asked = win.asked \/ passing]]
      BY <2>1, <2>3 DEF GoodWindow, WindowType
    <2>6. [win EXCEPT !.margin = win.margin + worth, !.passes = {},
                      !.asked = win.asked \/ passing] \in GoodWindow
      BY <2>4, FieldsTyped
    <2> DEFINE hit == [win EXCEPT !.margin = win.margin + worth, !.passes = {},
                                  !.asked = win.asked \/ passing]
    <2>7. GoodFrames(frames')
      <3>1. DOMAIN frames' = DOMAIN frames
            /\ \A g \in DOMAIN frames \ {f} : frames'[g] = frames[g]
        BY <2>1
      <3>2. frames'[f] = [frames[f] EXCEPT !.win = hit] /\ hit \in GoodWindow
        BY <2>5, <2>6
      <3> HIDE DEF hit
      <3>3. frames'[f] \in [snap : Board, win : GoodWindow]
        BY <2>3, <3>2
      <3> QED BY <3>1, <3>3, RewindowedTyped
    <2>8. PICK run2 \in IF passing
                        THEN RollPassingRuns(board, frames[f].win.about)
                        ELSE {<<>>} :
              stack' = Pushed(Advanced(t), t, run2)
      BY <2>1
    <2>9. run2 \in Seq(GoodPipeline)
      <3>1. CASE run2 \in RollPassingRuns(board, frames[f].win.about)
        BY <3>1, RollPassingTyped, PlainIsGood DEF TypeInv
      <3>2. CASE run2 = <<>>
        BY <3>2
      <3> QED BY <2>8, <3>1, <3>2
    <2>10. GoodStack(Pushed(Advanced(t), t, run2))
      BY <1>1, <2>9, PushedTyped
    <2> QED BY <2>7, <2>8, <2>10 DEF Apply, TypeInv
  <1> QED BY <1>2, <1>3

LEMMA OpenRollTyped ==
    ASSUME TypeInv, NEW b \in Board, NEW st, GoodStack(st),
           NEW t \in DOMAIN st \cup {0}, IsNewest(t, DOMAIN st),
           NEW n \in Nat \ {0}, NEW p \in Player, NEW h \in Card,
           OpenRoll(b, st, t, n, p, h)
    PROVE  /\ board' \in Board /\ GoodFrames(frames') /\ GoodStack(stack')
  <1>1. PICK m \in Margin :
          /\ board' = [b EXCEPT !.used = @ \cup {h}]
          /\ frames' = [g \in DOMAIN frames \cup {n} |->
                IF g = n THEN [snap |-> board', win |-> RollWindow(p, h, m)]
                ELSE frames[g]]
          /\ \E run \in IF m >= 0 THEN RollPassingRuns(b, h) ELSE {<<>>} :
                 stack' = Pushed(st, t, run)
    BY DEF OpenRoll
  <1>2. board' \in Board
    BY <1>1 DEF Board
  <1>3. RollWindow(p, h, m) \in GoodWindow
    BY ConstantsAssumption, RollWindowTyped DEF Source
  <1>4. GoodFrames(frames')
    BY <1>1, <1>2, <1>3 DEF TypeInv, GoodFrames
  <1>5. PICK run \in IF m >= 0 THEN RollPassingRuns(b, h) ELSE {<<>>} :
            stack' = Pushed(st, t, run)
    BY <1>1
  <1>6. run \in Seq(GoodPipeline)
    <2>1. CASE run \in RollPassingRuns(b, h)
      BY <2>1, RollPassingTyped, PlainIsGood
    <2>2. CASE run = <<>>
      BY <2>2
    <2> QED BY <1>5, <2>1, <2>2
  <1>7. GoodStack(Pushed(st, t, run))
    BY <1>6, PushedTyped
  <1> QED BY <1>2, <1>4, <1>5, <1>7

LEMMA RollTyped ==
    ASSUME TypeInv, NEW t \in DOMAIN stack, Roll(t)
    PROVE  TypeInv'
  <1>1. PICK n \in DOMAIN frames \cup {0, settled.frame} :
            OpenRoll(board, [Advanced(t) EXCEPT ![t].on = n + 1], t, n + 1,
                     stack[t].owner, stack[t].card)
    BY DEF Roll
  <1>2. /\ stack[t].steps # <<>> /\ Head(stack[t].steps) = "Roll"
        /\ IsNewest(t, DOMAIN stack)
    BY TakesOne DEF Roll
  <1>3. stack[t].card \in Card
    <2>1. 1 \in DOMAIN stack[t].steps /\ stack[t].steps[1] = "Roll"
      BY <1>2, StackTyped
    <2> QED BY <2>1, StackTyped DEF GoodPipeline, RollsAHero, Card
  <1>4. n + 1 \in Nat \ {0}
    BY NewestFrame
  <1>5. /\ GoodStack([Advanced(t) EXCEPT ![t].on = n + 1])
        /\ DOMAIN [Advanced(t) EXCEPT ![t].on = n + 1] = DOMAIN stack
    BY <1>2, <1>4, AdvancedTyped, ParkedTyped
  <1>6. board' \in Board /\ GoodFrames(frames') /\ GoodStack(stack')
    BY <1>1, <1>2, <1>3, <1>4, <1>5, StackTyped, OpenRollTyped DEF TypeInv
  <1> QED BY <1>6 DEF Roll, TypeInv

LEMMA FinishTyped ==
    ASSUME TypeInv, NEW t \in DOMAIN stack, Finish(t)
    PROVE  TypeInv'
  <1>1. CASE stack' = Without(stack, {t})
    BY <1>1, WithoutStack DEF Finish, TypeInv
  <1>2. CASE stack' # Without(stack, {t})
    <2>1. PICK p \in Player :
              stack' = [stack EXCEPT ![t] =
                  [Pipeline(stack[t].card, p, <<"Dispose">>)
                     EXCEPT !.system = TRUE]]
      BY <1>2 DEF Finish
    <2>2. [Pipeline(stack[t].card, p, <<"Dispose">>) EXCEPT !.system = TRUE]
             \in GoodPipeline
      BY StackTyped, PlainSteps, PipelineTyped, PlainIsGood, SystemTyped
    <2>3. GoodStack(stack')
      BY <2>1, <2>2 DEF TypeInv, GoodStack
    <2> QED BY <2>3 DEF Finish, TypeInv
  <1> QED BY <1>1, <1>2

LEMMA RunStepTyped ==
    ASSUME TypeInv, RunStep
    PROVE  TypeInv'
  BY QuestionsTyped, EffectsTyped, StartTyped, ApplyTyped, LandTyped,
     RollTyped, FinishTyped DEF RunStep

LEMMA WokenTyped ==
    ASSUME TypeInv, NEW run \in GoodPipeline
    PROVE  Woken(run) \in GoodPipeline
  <1>1. /\ settled.answer.value \in Int
        /\ settled.answer.pick \in SUBSET Card
    BY DEF TypeInv, SettledType, AnswerType
  <1>2. CASE run.on # settled.frame
    BY <1>2 DEF Woken
  <1>3. CASE run.on = settled.frame
    <2> DEFINE v == IF settled.answer.slot = "value" THEN settled.answer.value
                    ELSE run.value
               b == run.fed \/ settled.answer.slot = "pick"
               cards == IF settled.answer.slot = "pick"
                        THEN settled.answer.pick ELSE run.pick
    <2>1. v \in Int /\ b \in BOOLEAN /\ cards \in SUBSET Card
      BY <1>1 DEF GoodPipeline, PipelineType
    <2>2. [run EXCEPT !.on = NoFrame, !.value = v, !.fed = b, !.pick = cards]
              \in GoodPipeline
      <3> HIDE DEF v, b, cards
      <3> QED BY <2>1, SlotsTyped DEF NoFrame
    <2>3. Woken(run) = [run EXCEPT !.on = NoFrame, !.value = v,
                                   !.fed = b, !.pick = cards]
      BY <1>3 DEF Woken
    <2> QED BY <2>2, <2>3
  <1> QED BY <1>2, <1>3

LEMMA AnnounceTyped ==
    ASSUME TypeInv, Announce
    PROVE  TypeInv'
  <1> DEFINE awake == [i \in DOMAIN stack |-> Woken(stack[i])]
  <1>1. GoodStack(awake) /\ DOMAIN awake = DOMAIN stack
    BY WokenTyped DEF TypeInv, GoodStack
  <1>2. PICK t \in DOMAIN stack \cup {0},
             run \in FrameResolvedRuns(board, settled.cards) :
            IsNewest(t, DOMAIN stack) /\ stack' = Pushed(awake, t, run)
    BY DEF Announce
  <1>3. run \in Seq(GoodPipeline)
    BY <1>2, FrameResolvedTyped, PlainIsGood DEF TypeInv, SettledType
  <1>4. GoodStack(stack')
    <2> HIDE DEF awake
    <2> QED BY <1>1, <1>2, <1>3, PushedTyped
  <1>5. settled' \in SettledType
    BY DEF Announce, Nothing, NoAnswer, NoFrame, SettledType, AnswerType
  <1> QED BY <1>4, <1>5 DEF Announce, TypeInv

-----------------------------------------------------------------------------
(* Settling *)

LEMMA NoAnswerTyped ==
    /\ NoAnswer \in AnswerType
    /\ \A v \in Int : ValueAnswer(v) \in AnswerType
    /\ \A cards \in SUBSET Card : CardAnswer(cards) \in AnswerType
  <1>1. NoAnswer \in AnswerType
    BY DEF NoAnswer, AnswerType
  <1>2. \A v \in Int : ValueAnswer(v) \in AnswerType
    BY <1>1 DEF ValueAnswer, AnswerType
  <1>3. \A cards \in SUBSET Card : CardAnswer(cards) \in AnswerType
    BY <1>1 DEF CardAnswer, AnswerType
  <1> QED BY <1>1, <1>2, <1>3

LEMMA SettledTyped ==
    ASSUME NEW f \in Nat, NEW cards \in SUBSET Source, NEW answer \in AnswerType
    PROVE  /\ Nothing \in SettledType
           /\ [Nothing EXCEPT !.frame = f] \in SettledType
           /\ [Nothing EXCEPT !.frame = f, !.cards = cards] \in SettledType
           /\ [frame |-> f, cards |-> {}, answer |-> answer] \in SettledType
  <1>1. NoAnswer \in AnswerType
    BY NoAnswerTyped
  <1>2. Nothing \in SettledType
    BY <1>1 DEF Nothing, NoFrame, SettledType
  <1> QED BY <1>2 DEF SettledType

LEMMA SettleRollTyped ==
    ASSUME TypeInv, NEW f \in DOMAIN frames, SettleRoll(f)
    PROVE  board' \in Board /\ GoodStack(stack') /\ settled' \in SettledType
  <1>1. settled' \in SettledType
    BY FramesTyped, SettledTyped, NoAnswerTyped DEF SettleRoll
  <1>2. CASE frames[f].win.margin >= 0
    <2>1. PICK t \in DOMAIN stack \cup {0},
               run \in RollSuccessRuns(Released(f), frames[f].win) :
              IsNewest(t, DOMAIN stack) /\ stack' = Pushed(stack, t, run)
      BY <1>2 DEF SettleRoll
    <2>2. run \in Seq(GoodPipeline)
      BY <2>1, FramesTyped, ReleasedType, RollSuccessTyped, PlainIsGood
    <2>3. GoodStack(stack')
      BY <2>1, <2>2, PushedTyped DEF TypeInv
    <2> QED BY <1>1, <1>2, <2>3, ReleasedType DEF SettleRoll
  <1>3. CASE ~(frames[f].win.margin >= 0)
    BY <1>1, <1>3, RestoredType, WithoutStack DEF SettleRoll, TypeInv
  <1> QED BY <1>2, <1>3

LEMMA SettleAttackTyped ==
    ASSUME TypeInv, NEW f \in DOMAIN frames, frames[f].win.kind = "attack",
           SettleAttack(f)
    PROVE  board' \in Board /\ GoodStack(stack') /\ settled' \in SettledType
  <1> DEFINE win == frames[f].win
             left == Without(stack, Parked(stack, f))
             bite == Pipeline(win.about, win.by, <<"AskOwnHero", "Sacrifice">>)
  <1>1. settled' \in SettledType
    BY FramesTyped, SettledTyped, NoAnswerTyped DEF SettleAttack
  <1>2. CASE win.margin >= 0
    <2>1. board' \in Slain(Released(f), win.about, win.by) /\ stack' = stack
      BY <1>2 DEF SettleAttack
    <2>2. board' \in Board
      BY <2>1, FramesTyped, ReleasedType, SlainType
    <2> QED BY <1>1, <2>1, <2>2 DEF TypeInv
  <1>3. CASE ~(win.margin >= 0)
    <2>1. board' \in Board
      BY <1>3, RestoredType DEF SettleAttack
    <2>2. GoodStack(left)
      BY WithoutStack DEF TypeInv
    <2>3. <<bite>> \in Seq(GoodPipeline)
      <3>1. bite \in GoodPipeline
        BY FramesTyped, PlainSteps, PipelineTyped, PlainIsGood
      <3> HIDE DEF bite
      <3> QED BY <3>1
    <2>4. CASE stack' = left
      BY <1>1, <2>1, <2>2, <2>4
    <2>5. CASE stack' # left
      <3>1. PICK t \in DOMAIN left \cup {0} :
                IsNewest(t, DOMAIN left) /\ stack' = Pushed(left, t, <<bite>>)
        BY <1>3, <2>5 DEF SettleAttack
      <3> HIDE DEF left, bite
      <3>2. GoodStack(stack')
        BY <2>2, <2>3, <3>1, PushedTyped
      <3> QED BY <1>1, <2>1, <3>2
    <2> QED BY <2>4, <2>5
  <1> QED BY <1>2, <1>3

LEMMA SettleChallengeTyped ==
    ASSUME TypeInv, NEW f \in DOMAIN frames, frames[f].win.kind = "challenge",
           SettleUncontested(f) \/ SettleContest(f)
    PROVE  board' \in Board /\ GoodStack(stack') /\ settled' \in SettledType
  <1>1. settled' \in SettledType
    <2>1. settled' = [Nothing EXCEPT !.frame = f,
                                     !.cards = {frames[f].win.about}]
      BY DEF SettleUncontested, SettleContest
    <2>2. {frames[f].win.about} \in SUBSET Source
      BY FramesTyped
    <2> QED BY <2>1, <2>2, FramesTyped, SettledTyped, NoAnswerTyped
  <1>2. CASE SettleUncontested(f)
    BY <1>1, <1>2, ReleasedType DEF SettleUncontested, TypeInv
  <1>3. CASE SettleContest(f) /\ frames[f].win.margin > 0
    <2>1. board' = [Released(f) EXCEPT !.challenged = @ \cup {frames[f].win.about}]
          /\ stack' = stack
      BY <1>3 DEF SettleContest
    <2>2. board' \in Board
      <3> DEFINE b == Released(f)
      <3>1. b \in Board /\ frames[f].win.about \in Card
        BY ReleasedType, FramesTyped
      <3>2. board' = [b EXCEPT !.challenged = @ \cup {frames[f].win.about}]
        BY <2>1
      <3> HIDE DEF b
      <3> QED BY <3>1, <3>2 DEF Board
    <2> QED BY <1>1, <2>1, <2>2 DEF TypeInv
  <1>4. CASE SettleContest(f) /\ ~(frames[f].win.margin > 0)
    BY <1>1, <1>4, RestoredType, PutAwayType, WithoutStack
       DEF SettleContest, TypeInv
  <1> QED BY <1>2, <1>3, <1>4

LEMMA ResolveStandingTyped ==
    ASSUME TypeInv, NEW f \in DOMAIN frames, ResolveStanding(f)
    PROVE  TypeInv'
  <1>1. board' \in Board /\ GoodStack(stack') /\ settled' \in SettledType
    BY SettleRollTyped, SettleAttackTyped, SettleChallengeTyped
       DEF ResolveStanding
  <1>2. GoodFrames(frames')
    BY WithoutFrames DEF ResolveStanding
  <1> QED BY <1>1, <1>2 DEF TypeInv

LEMMA ResolveQuestionTyped ==
    ASSUME TypeInv, NEW f \in DOMAIN frames, NEW answer \in AnswerType,
           NEW yes \in BOOLEAN, yes => frames[f].win.kind = "confirm",
           ResolveQuestion(f, answer, yes)
    PROVE  TypeInv'
  <1>1. board' \in Board /\ GoodFrames(frames')
    BY ReleasedType, WithoutFrames DEF ResolveQuestion
  <1>2. settled' \in SettledType
    BY FramesTyped, SettledTyped DEF ResolveQuestion
  <1>3. CASE stack' = stack
    BY <1>1, <1>2, <1>3 DEF TypeInv
  <1>4. CASE stack' # stack
    <2>1. yes
      BY <1>4 DEF ResolveQuestion
    <2>2. PICK t \in DOMAIN stack \cup {0} :
            /\ IsNewest(t, DOMAIN stack)
            /\ stack' = Pushed(stack, t,
                               TaskConfirmedRun(Released(f), frames[f].win))
      BY <1>4 DEF ResolveQuestion
    <2>3. TaskConfirmedRun(Released(f), frames[f].win) \in Seq(GoodPipeline)
      BY <2>1, FramesTyped, TaskConfirmedTyped, PlainIsGood
    <2>4. GoodStack(stack')
      BY <2>2, <2>3, PushedTyped DEF TypeInv
    <2> QED BY <1>1, <1>2, <2>4 DEF TypeInv
  <1> QED BY <1>3, <1>4

LEMMA PassTyped ==
    ASSUME TypeInv, NEW p \in Player, NEW f \in DOMAIN frames, Pass(p, f)
    PROVE  TypeInv'
  <1>1. CASE ResolveStanding(f)
    BY <1>1, ResolveStandingTyped
  <1>2. CASE ~ResolveStanding(f)
    <2>1. /\ frames' = [frames EXCEPT ![f].win.passes =
                            frames[f].win.passes \cup {p}]
          /\ UNCHANGED <<board, stack, settled>>
      BY <1>2 DEF Pass
    <2>2. frames[f] \in [snap : Board, win : GoodWindow]
      BY DEF TypeInv, GoodFrames
    <2>3. frames[f].win.passes \cup {p} \in SUBSET Player
      BY FramesTyped
    <2>4. frames'[f] = [frames[f] EXCEPT !.win = [frames[f].win EXCEPT !.passes =
                            frames[f].win.passes \cup {p}]]
      BY <2>1
    <2>5. frames'[f] \in [snap : Board, win : GoodWindow]
      <3>1. [frames[f].win EXCEPT !.passes = frames[f].win.passes \cup {p}]
                \in GoodWindow
        BY <2>2, <2>3, FieldsTyped
      <3> QED BY <2>2, <2>4, <3>1
    <2>6. GoodFrames(frames')
      BY <2>1, <2>5, RewindowedTyped
    <2> QED BY <2>1, <2>6 DEF TypeInv
  <1> QED BY <1>1, <1>2

LEMMA AnswerTyped ==
    ASSUME TypeInv, NEW f \in DOMAIN frames, Answer(f)
    PROVE  TypeInv'
  <1>1. CASE \E v \in HornValue : ResolveQuestion(f, ValueAnswer(v), FALSE)
    <2>1. PICK v \in HornValue : ResolveQuestion(f, ValueAnswer(v), FALSE)
      BY <1>1
    <2>2. ValueAnswer(v) \in AnswerType
      BY NoAnswerTyped DEF HornValue
    <2> QED BY <2>1, <2>2, ResolveQuestionTyped
  <1>2. CASE \E c \in frames[f].win.offers :
                 ResolveQuestion(f, CardAnswer({c}), FALSE)
    <2>1. PICK c \in frames[f].win.offers :
              ResolveQuestion(f, CardAnswer({c}), FALSE)
      BY <1>2
    <2>2. CardAnswer({c}) \in AnswerType
      BY FramesTyped, NoAnswerTyped
    <2> QED BY <2>1, <2>2, ResolveQuestionTyped
  <1>3. CASE /\ frames[f].win.kind = "confirm"
             /\ \E yes \in BOOLEAN : ResolveQuestion(f, NoAnswer, yes)
    BY <1>3, NoAnswerTyped, ResolveQuestionTyped
  <1> QED BY <1>1, <1>2, <1>3 DEF Answer

LEMMA LapseTyped ==
    ASSUME TypeInv, NEW f \in DOMAIN frames, Lapse(f)
    PROVE  TypeInv'
  <1>1. CASE ResolveStanding(f)
    BY <1>1, ResolveStandingTyped
  <1>2. CASE ResolveQuestion(f, ValueAnswer(frames[f].win.silent), FALSE)
    BY <1>2, FramesTyped, NoAnswerTyped, ResolveQuestionTyped
  <1>3. CASE ResolveQuestion(f, CardAnswer({}), FALSE)
    BY <1>3, NoAnswerTyped, ResolveQuestionTyped
  <1>4. CASE \E c \in frames[f].win.offers :
                 ResolveQuestion(f, CardAnswer({c}), FALSE)
    <2>1. PICK c \in frames[f].win.offers :
              ResolveQuestion(f, CardAnswer({c}), FALSE)
      BY <1>4
    <2>2. CardAnswer({c}) \in AnswerType
      BY FramesTyped, NoAnswerTyped
    <2> QED BY <2>1, <2>2, ResolveQuestionTyped
  <1>5. CASE ResolveQuestion(f, NoAnswer, FALSE)
    BY <1>5, NoAnswerTyped, ResolveQuestionTyped
  <1> QED BY <1>1, <1>2, <1>3, <1>4, <1>5 DEF Lapse

-----------------------------------------------------------------------------
(* Actions and reactions *)

LEMMA PaidTyped ==
    ASSUME TypeInv, NEW p \in Player, NEW cost \in Nat, CanSpend(p, cost)
    PROVE  Paid(p, cost) \in Board
  <1>1. board \in Board /\ board.points[p] \in Nat /\ board.points[p] >= cost
    BY DEF TypeInv, Board, CanSpend
  <1>2. board.points[p] - cost \in Nat
    BY <1>1
  <1> QED BY <1>1, <1>2 DEF Paid, Board

LEMMA OpenOverTyped ==
    ASSUME NEW b \in Board, NEW win \in GoodWindow, OpenOver(b, win)
    PROVE  GoodFrames(frames')
  BY DEF OpenOver, GoodFrames

LEMMA PlayTyped ==
    ASSUME TypeInv, NEW p \in Player, NEW c \in Card,
           PlayHero(p, c) \/ PlayMagic(p, c)
    PROVE  TypeInv'
  <1> DEFINE paid == [Paid(p, 1) EXCEPT !.hand[p] = @ \ {c}]
  <1>1. CanSpend(p, 1)
    BY DEF PlayHero, PlayMagic
  <1>2. paid \in Board
    <2> DEFINE b == Paid(p, 1)
    <2>1. b \in Board
      BY <1>1, PaidTyped
    <2>2. [b EXCEPT !.hand[p] = @ \ {c}] \in Board
      <3> HIDE DEF b
      <3> QED BY <2>1 DEF Board
    <2> QED BY <2>2
  <1>3. /\ \/ board' = [paid EXCEPT !.heroes[p] = @ \cup {c}]
           \/ board' = [paid EXCEPT !.instance[p] = @ \cup {c}]
        /\ OpenOver(paid, Window("challenge", p, c))
        /\ UNCHANGED <<stack, settled>>
    BY DEF PlayHero, PlayMagic
  <1> HIDE DEF paid
  <1>4. board' \in Board
    BY <1>2, <1>3 DEF Board
  <1>5. GoodFrames(frames')
    BY <1>2, <1>3, ChallengeWindowTyped, OpenOverTyped
  <1> QED BY <1>3, <1>4, <1>5 DEF TypeInv

LEMMA RollOnHeroTyped ==
    ASSUME TypeInv, NEW p \in Player, NEW h \in Card, RollOnHero(p, h)
    PROVE  TypeInv'
  <1>1. /\ CanSpend(p, 1) /\ OpenRoll(Paid(p, 1), stack, 0, 1, p, h)
        /\ UNCHANGED settled
    BY DEF RollOnHero
  <1>2. Paid(p, 1) \in Board
    BY <1>1, PaidTyped
  <1>3. 0 \in DOMAIN stack \cup {0} /\ IsNewest(0, DOMAIN stack)
    BY <1>1 DEF CanSpend, Idle, IsBusy, IsNewest
  <1>4. GoodStack(stack)
    BY DEF TypeInv
  <1>5. board' \in Board /\ GoodFrames(frames') /\ GoodStack(stack')
    BY <1>1, <1>2, <1>3, <1>4, OpenRollTyped
  <1> QED BY <1>1, <1>5 DEF TypeInv

LEMMA AttackTyped ==
    ASSUME TypeInv, NEW p \in Player, NEW m \in Monster, AttackMonster(p, m)
    PROVE  TypeInv'
  <1>1. CanSpend(p, 2) /\ board' = Paid(p, 2) /\ UNCHANGED <<stack, settled>>
    BY DEF AttackMonster
  <1>2. board' \in Board
    BY <1>1, PaidTyped
  <1>3. PICK d \in Margin :
            OpenOver(board', [Window("attack", p, m) EXCEPT !.margin = d])
    BY DEF AttackMonster
  <1>4. [Window("attack", p, m) EXCEPT !.margin = d] \in GoodWindow
    BY ConstantsAssumption, AttackWindowTyped
  <1>5. GoodFrames(frames')
    BY <1>2, <1>3, <1>4 DEF OpenOver, GoodFrames
  <1> QED BY <1>1, <1>2, <1>5 DEF TypeInv

LEMMA TurnTyped ==
    ASSUME TypeInv, NEW p \in Player, DrawCard(p) \/ EndTurn(p)
    PROVE  TypeInv'
  <1>1. CASE DrawCard(p)
    <2>1. Paid(p, 1) \in Board
      BY <1>1, PaidTyped DEF DrawCard
    <2> QED BY <1>1, <2>1, DrawnType DEF DrawCard, TypeInv
  <1>2. CASE EndTurn(p)
    <2>1. NextSeat[p] \in Player /\ Budget \in Nat
      BY ConstantsAssumption
    <2>2. board' \in Board
      BY <1>2, <2>1 DEF EndTurn, TypeInv, Board
    <2> QED BY <1>2, <2>2 DEF EndTurn, TypeInv
  <1> QED BY <1>1, <1>2

LEMMA SpendCardTyped ==
    ASSUME TypeInv, NEW p \in Player, NEW c \in Card, NEW f \in DOMAIN frames,
           SpendCard(p, c, f)
    PROVE  board' \in Board /\ GoodFrames(frames')
  <1>1. board' \in Board
    BY DEF SpendCard, TypeInv, Board
  <1>2. frames[f] \in [snap : Board, win : GoodWindow]
    BY DEF TypeInv, GoodFrames
  <1>3. [frames[f].win EXCEPT !.passes = {}] \in GoodWindow
    BY <1>2, FieldsTyped
  <1>4. frames'[f] \in [snap : Board, win : GoodWindow]
    BY <1>2, <1>3 DEF SpendCard
  <1>5. GoodFrames(frames')
    BY <1>4, RewindowedTyped DEF SpendCard
  <1> QED BY <1>1, <1>5

LEMMA PlayModifierTyped ==
    ASSUME TypeInv, NEW p \in Player, NEW c \in Card, NEW v \in ModifierValue,
           NEW f \in DOMAIN frames, NEW seat \in Player,
           PlayModifier(p, c, v, f, seat)
    PROVE  TypeInv'
  <1>1. board' \in Board /\ GoodFrames(frames')
    BY SpendCardTyped DEF PlayModifier
  <1>2. PICK t \in DOMAIN stack \cup {0}, run \in ModifierPlayedRuns(p, c, v, seat) :
            IsNewest(t, DOMAIN stack) /\ stack' = Pushed(stack, t, run)
    BY DEF PlayModifier
  <1>3. run \in Seq(GoodPipeline)
    BY <1>2, ConstantsAssumption, ModifierPlayedTyped, PlainIsGood
  <1>4. GoodStack(stack')
    BY <1>2, <1>3, PushedTyped DEF TypeInv
  <1> QED BY <1>1, <1>4 DEF PlayModifier, TypeInv

LEMMA PlayChallengeTyped ==
    ASSUME TypeInv, NEW p \in Player, NEW c \in Card, NEW f \in DOMAIN frames,
           PlayChallenge(p, c, f)
    PROVE  TypeInv'
  <1>1. board' \in Board /\ GoodFrames(frames')
    BY SpendCardTyped DEF PlayChallenge
  <1>2. PICK t \in DOMAIN stack \cup {0} :
            /\ IsNewest(t, DOMAIN stack)
            /\ stack' = Pushed(stack, t,
                               ChallengePlayedRuns(p, c, frames[f].win.by))
    BY DEF PlayChallenge
  <1>3. ChallengePlayedRuns(p, c, frames[f].win.by) \in Seq(GoodPipeline)
    BY FramesTyped, ChallengePlayedTyped, PlainIsGood
  <1>4. GoodStack(stack')
    BY <1>2, <1>3, PushedTyped DEF TypeInv
  <1> QED BY <1>1, <1>4 DEF PlayChallenge, TypeInv

LEMMA CommandTyped ==
    ASSUME TypeInv, Command
    PROVE  TypeInv'
  <1>1. ASSUME NEW p \in Player
        PROVE  /\ board.hand[p] \subseteq Card /\ board.heroes[p] \subseteq Card
               /\ board.row \subseteq Monster
    BY DEF TypeInv, Board
  <1>2. CASE \E p \in Player, c \in Card : PlayHero(p, c) \/ PlayMagic(p, c)
    BY <1>2, PlayTyped
  <1>3. CASE \E p \in Player, h \in Card : RollOnHero(p, h)
    BY <1>3, RollOnHeroTyped
  <1>4. CASE \E p \in Player, m \in Monster : AttackMonster(p, m)
    BY <1>4, AttackTyped
  <1>5. CASE \E p \in Player : DrawCard(p) \/ EndTurn(p)
    BY <1>5, TurnTyped
  <1>6. CASE \E p \in Player, f \in DOMAIN frames, c \in Card,
                v \in ModifierValue, seat \in Player :
                 PlayModifier(p, c, v, f, seat)
    BY <1>6, PlayModifierTyped
  <1>7. CASE \E p \in Player, f \in DOMAIN frames, c \in Card :
                 PlayChallenge(p, c, f)
    BY <1>7, PlayChallengeTyped
  <1>8. CASE \E p \in Player, f \in DOMAIN frames : Pass(p, f)
    BY <1>8, PassTyped
  <1>9. CASE \E f \in DOMAIN frames : Answer(f)
    BY <1>9, AnswerTyped
  <1> QED
    BY <1>1, <1>2, <1>3, <1>4, <1>5, <1>6, <1>7, <1>8, <1>9 DEF Command

-----------------------------------------------------------------------------
LEMMA InitTyped == Init => TypeInv
  <1> SUFFICES ASSUME Init PROVE TypeInv
    OBVIOUS
  <1>1. settled \in SettledType
    <2>1. {} \in SUBSET Source /\ NoAnswer \in AnswerType /\ 0 \in Nat
      BY NoAnswerTyped
    <2> QED BY <2>1, SettledTyped DEF Init
  <1> QED BY <1>1, ConstantsAssumption DEF Init, TypeInv, GoodFrames, GoodStack

LEMMA NextTyped == TypeInv /\ [Next]_vars => TypeInv'
  <1> SUFFICES ASSUME TypeInv, [Next]_vars PROVE TypeInv'
    OBVIOUS
  <1>1. CASE RunStep
    BY <1>1, RunStepTyped
  <1>2. CASE Announce
    BY <1>2, AnnounceTyped
  <1>3. CASE Command
    BY <1>3, CommandTyped
  <1>4. CASE \E f \in DOMAIN frames : Lapse(f)
    BY <1>4, LapseTyped
  <1>5. CASE UNCHANGED vars
    BY <1>5 DEF vars, TypeInv, GoodFrames, GoodStack
  <1> QED BY <1>1, <1>2, <1>3, <1>4, <1>5 DEF Next

LEMMA TypeInvType == TypeInv => TypeOK
  <1> SUFFICES ASSUME TypeInv PROVE TypeOK
    OBVIOUS
  <1>1. \A f \in DOMAIN frames : frames[f] \in [snap : Board, win : WindowType]
    BY DEF TypeInv, GoodFrames, GoodWindow
  <1>2. \A t \in DOMAIN stack : stack[t] \in PipelineType
    BY DEF TypeInv, GoodStack, GoodPipeline
  <1> QED BY <1>1, <1>2 DEF TypeInv, TypeOK, GoodFrames, GoodStack, SettledType

(* TypeInv holds on every table: what the engine keeps in its zones, frames *)
(* and pipelines is always of the kind the code that takes it out expects.  *)
THEOREM AlwaysTyped == Spec => []TypeInv
  BY InitTyped, NextTyped, PTL DEF Spec

(* Whatever is played, answered or left to run out, no zone ever holds a    *)
(* card of the wrong kind and no seat has fewer than no action points.      *)
THEOREM TypeCorrect == Spec => []TypeOK
  BY AlwaysTyped, TypeInvType, PTL

-----------------------------------------------------------------------------
(* The windows.  The argument is a token.  To stand a roll, an attack or a  *)
(* contest, the engine must be idle, or an offer to roll must have come out *)
(* of a contest that has settled.  The token is that window, or the offer   *)
(* on its way: a settled contest, the step that asks, the question, the     *)
(* step that rolls.  There is never more than one.                          *)

Offering(st) == {t \in DOMAIN st : Offers(st[t])}

Rolling(fs) ==
    {f \in DOMAIN fs : \/ fs[f].win.kind \in Standing
                       \/ fs[f].win.kind = "confirm" /\ fs[f].win.about # Serpent}

OneToken ==
    /\ \A f, g \in Rolling(frames) : f = g
    /\ \A t, u \in Offering(stack) : t = u
    /\ Rolling(frames) = {} \/ Offering(stack) = {}
    /\ settled.cards # {} => Rolling(frames) = {} /\ Offering(stack) = {}

(* The part of the board a price is paid from. *)
SamePurse(a, b) ==
    a.points = b.points /\ a.current = b.current /\ a.used = b.used

(* What a rollback would restore was paid for in full. *)
PricePaid ==
    \A f \in DOMAIN frames :
        frames[f].win.kind \in Standing => SamePurse(frames[f].snap, board)

WindowInv == TypeInv /\ ParkedOnOpenFrame /\ OneToken /\ PricePaid

-----------------------------------------------------------------------------
(* How a stack may change when no token moves: some pipelines are gone,     *)
(* some have gone on, and what is new is plain.                             *)
Descends(new, old) ==
    \A t \in DOMAIN new :
        \/ new[t].on = NoFrame /\ ~Offers(new[t])
        \/ /\ t \in DOMAIN old
           /\ new[t].on = old[t].on
           /\ Offers(new[t]) => Offers(old[t])

(* The frames are the ones there were, about what they were about. *)
SameWindows ==
    /\ DOMAIN frames' = DOMAIN frames
    /\ \A f \in DOMAIN frames :
          /\ frames'[f].snap = frames[f].snap
          /\ frames'[f].win.kind = frames[f].win.kind
          /\ frames'[f].win.about = frames[f].win.about

LEMMA DescendsSelf == \A st : Descends(st, st)
  BY DEF Descends

LEMMA DescendsOn ==
    ASSUME NEW a, NEW b, NEW c, Descends(a, b), Descends(b, c)
    PROVE  Descends(a, c)
  BY DEF Descends

LEMMA WithoutDescends ==
    ASSUME NEW st, NEW S
    PROVE  Descends(Without(st, S), st)
  BY DEF Descends, Without

LEMMA PushedAt ==
    ASSUME NEW st, GoodStack(st), NEW t \in DOMAIN st \cup {0},
           IsNewest(t, DOMAIN st), NEW S, NEW run \in Seq(S),
           NEW i \in DOMAIN Pushed(st, t, run)
    PROVE  \/ i \in DOMAIN st /\ Pushed(st, t, run)[i] = st[i]
           \/ /\ Pushed(st, t, run)[i] \in S
              /\ i \in (t + 1)..(t + Len(run))
  <1>1. t \in Nat /\ Len(run) \in Nat
    BY DEF GoodStack
  <1>2. DOMAIN Pushed(st, t, run) = DOMAIN st \cup (t + 1)..(t + Len(run))
    BY DEF Pushed
  <1>3. i \in Nat \ {0}
    BY <1>1, <1>2 DEF GoodStack
  <1>4. CASE i > t
    <2>1. i \in (t + 1)..(t + Len(run))
      BY <1>1, <1>2, <1>3, <1>4 DEF IsNewest, GoodStack
    <2>2. t + Len(run) + 1 - i \in 1..Len(run)
      BY <1>1, <2>1
    <2>3. Pushed(st, t, run)[i] = run[t + Len(run) + 1 - i]
      BY <1>2, <1>4 DEF Pushed
    <2> QED BY <2>1, <2>2, <2>3
  <1>5. CASE ~(i > t)
    <2>1. i \in DOMAIN st
      BY <1>1, <1>2, <1>3, <1>5
    <2> QED BY <1>2, <1>5, <2>1 DEF Pushed
  <1> QED BY <1>4, <1>5

LEMMA PushedDescends ==
    ASSUME NEW st, GoodStack(st), NEW t \in DOMAIN st \cup {0},
           IsNewest(t, DOMAIN st), NEW run \in Seq(PlainPipeline)
    PROVE  Descends(Pushed(st, t, run), st)
  <1> SUFFICES ASSUME NEW i \in DOMAIN Pushed(st, t, run)
               PROVE  \/ /\ Pushed(st, t, run)[i].on = NoFrame
                         /\ ~Offers(Pushed(st, t, run)[i])
                      \/ i \in DOMAIN st /\ Pushed(st, t, run)[i] = st[i]
    BY DEF Descends
  <1> QED BY PushedAt DEF PlainPipeline, FreshPipeline

LEMMA AdvancedDescends ==
    ASSUME TypeInv, NEW t \in DOMAIN stack, stack[t].steps # <<>>
    PROVE  /\ Descends(Advanced(t), stack)
           /\ ~Offers(Advanced(t)[t])
  <1>1. stack[t] \in GoodPipeline /\ stack[t].steps \in Seq(StepName)
    BY StackTyped
  <1>2. /\ DOMAIN Tail(stack[t].steps) = 1..(Len(stack[t].steps) - 1)
        /\ \A i \in 1..(Len(stack[t].steps) - 1) :
              /\ Tail(stack[t].steps)[i] = stack[t].steps[i + 1]
              /\ i + 1 \in DOMAIN stack[t].steps
        /\ Len(stack[t].steps) \in Nat
    BY <1>1
  <1>3. /\ Advanced(t)[t].steps = Tail(stack[t].steps)
        /\ Advanced(t)[t].on = stack[t].on
        /\ DOMAIN Advanced(t) = DOMAIN stack
        /\ \A u \in DOMAIN stack \ {t} : Advanced(t)[u] = stack[u]
    BY <1>1 DEF Advanced, GoodPipeline, PipelineType
  <1>4. ~Offers(Advanced(t)[t])
    <2> SUFFICES ASSUME NEW i \in DOMAIN Tail(stack[t].steps),
                        Tail(stack[t].steps)[i] \in {"AskRoll", "Roll"}
                 PROVE  FALSE
      BY <1>3 DEF Offers
    <2>1. Len(stack[t].steps) = 1
      BY <1>1, <1>2 DEF GoodPipeline, RollsAHero
    <2> QED BY <1>2, <2>1
  <1> QED BY <1>3, <1>4 DEF Descends

-----------------------------------------------------------------------------
(* The board: what moves cards touches no purse. *)

LEMMA SamePurseChains ==
    ASSUME NEW a, NEW b, NEW c, SamePurse(a, b), SamePurse(b, c)
    PROVE  SamePurse(a, c)
  BY DEF SamePurse

LEMMA PurseKept ==
    ASSUME NEW b
    PROVE  /\ \A cards : SamePurse(PutAway(b, cards), b)
           /\ SamePurse(Refilled(b), b)
           /\ \A p, cards : SamePurse(Discarded(b, p, cards), b)
           /\ \A cards : SamePurse(RemovedHeroes(b, cards), b)
  <1>1. ASSUME NEW a, NEW cards PROVE SamePurse(PutAway(a, cards), a)
    BY DEF SamePurse, PutAway
  <1>2. SamePurse(Refilled(b), b)
    BY DEF SamePurse, Refilled
  <1>3. ASSUME NEW p, NEW cards PROVE SamePurse(Discarded(b, p, cards), b)
    <2> DEFINE a == [b EXCEPT !.hand[p] = @ \ cards]
    <2>1. SamePurse(a, b)
      BY DEF SamePurse
    <2>2. SamePurse(PutAway(a, cards \cap b.hand[p]), a)
      BY <1>1
    <2>3. Discarded(b, p, cards) = PutAway(a, cards \cap b.hand[p])
      BY DEF Discarded
    <2> HIDE DEF a
    <2> QED BY <2>1, <2>2, <2>3 DEF SamePurse
  <1>4. ASSUME NEW cards PROVE SamePurse(RemovedHeroes(b, cards), b)
    <2> DEFINE a == [b EXCEPT !.heroes = [p \in Player |-> b.heroes[p] \ cards]]
               gone == cards \cap UNION {b.heroes[p] : p \in Player}
    <2>1. SamePurse(a, b)
      BY DEF SamePurse
    <2>2. SamePurse(PutAway(a, gone), a)
      BY <1>1
    <2>3. RemovedHeroes(b, cards) = PutAway(a, gone)
      BY DEF RemovedHeroes
    <2> HIDE DEF a, gone
    <2> QED BY <2>1, <2>2, <2>3 DEF SamePurse
  <1> QED BY <1>1, <1>2, <1>3, <1>4

LEMMA PurseKeptByDraw ==
    ASSUME NEW b, NEW p, NEW d \in Drawn(b, p)
    PROVE  SamePurse(d, b)
  <1>1. CASE b.deck = {}
    BY <1>1, PurseKept DEF Drawn
  <1>2. CASE b.deck # {}
    <2>1. PICK c \in b.deck :
              d = Refilled([b EXCEPT !.deck = @ \ {c},
                                     !.hand[p] = @ \cup {c}])
      BY <1>2 DEF Drawn
    <2> DEFINE a == [b EXCEPT !.deck = @ \ {c}, !.hand[p] = @ \cup {c}]
    <2>2. SamePurse(a, b)
      BY DEF SamePurse
    <2> HIDE DEF a
    <2>3. SamePurse(Refilled(a), a)
      BY PurseKept
    <2> QED BY <2>1, <2>2, <2>3 DEF SamePurse, a
  <1> QED BY <1>1, <1>2

LEMMA PurseKeptByRelease ==
    ASSUME NEW f
    PROVE  /\ SamePurse(Released(f), board)
           /\ SamePurse(Restored(f), frames[f].snap)
  <1>1. SamePurse(Released(f), board)
    <2> DEFINE a == [board EXCEPT !.instance =
                        [p \in Player |-> board.instance[p] \ Spent(f)[p]]]
    <2>1. SamePurse(a, board)
      BY DEF SamePurse
    <2>2. Released(f) = PutAway(a, AllSpent(f))
      BY DEF Released
    <2> HIDE DEF a
    <2>3. SamePurse(PutAway(a, AllSpent(f)), a)
      BY PurseKept
    <2> QED BY <2>1, <2>2, <2>3, SamePurseChains
  <1>2. SamePurse(Restored(f), frames[f].snap)
    <2> DEFINE s == frames[f].snap
               a == [s EXCEPT !.hand = [p \in Player |-> s.hand[p] \ Spent(f)[p]]]
    <2>1. SamePurse(a, s)
      BY DEF SamePurse
    <2>2. Restored(f) = PutAway(a, AllSpent(f))
      BY DEF Restored
    <2> HIDE DEF a, s
    <2>3. SamePurse(PutAway(a, AllSpent(f)), a)
      BY PurseKept
    <2>4. SamePurse(Restored(f), s)
      BY <2>1, <2>2, <2>3, SamePurseChains
    <2> QED BY <2>4 DEF s
  <1> QED BY <1>1, <1>2

LEMMA PurseKeptBySlain ==
    ASSUME NEW b, NEW m, NEW p, NEW d \in Slain(b, m, p)
    PROVE  SamePurse(d, b)
  <1> DEFINE won == [b EXCEPT !.row = @ \ {m}, !.slain[p] = @ \cup {m}]
  <1>1. SamePurse(won, b)
    BY DEF SamePurse
  <1>2. CASE d = won
    BY <1>1, <1>2
  <1>3. CASE d # won
    <2>1. PICK n : d = [won EXCEPT !.row = @ \cup {n}, !.monsterDeck = @ \ {n}]
      BY <1>3 DEF Slain
    <2> HIDE DEF won
    <2>2. SamePurse(d, won)
      BY <2>1 DEF SamePurse
    <2> QED BY <1>1, <2>2 DEF SamePurse
  <1> QED BY <1>2, <1>3

-----------------------------------------------------------------------------
(* Steps that move no token.  Every internal step but those that open a     *)
(* frame is one, and so is every card spent and every pass that settles     *)
(* nothing.                                                                 *)

PlainStep ==
    /\ SameWindows
    /\ SamePurse(board', board)
    /\ Descends(stack', stack)
    /\ UNCHANGED settled

LEMMA PlainStepKeeps ==
    ASSUME WindowInv, TypeInv', PlainStep
    PROVE  WindowInv'
  <1>1. ParkedOnOpenFrame'
    BY DEF WindowInv, ParkedOnOpenFrame, PlainStep, SameWindows, Descends
  <1>2. Rolling(frames') = Rolling(frames)
    BY DEF PlainStep, SameWindows, Rolling
  <1>3. Offering(stack') \subseteq Offering(stack)
    BY DEF PlainStep, Descends, Offering
  <1>4. OneToken'
    BY <1>2, <1>3 DEF WindowInv, OneToken, PlainStep
  <1>5. PricePaid'
    BY DEF WindowInv, PricePaid, PlainStep, SameWindows, SamePurse
  <1> QED BY <1>1, <1>4, <1>5 DEF WindowInv

LEMMA EffectsPlain ==
    ASSUME TypeInv, NEW t \in DOMAIN stack,
           \/ Draw(t) \/ Discard(t) \/ Destroy(t) \/ Sacrifice(t) \/ Dispose(t)
    PROVE  PlainStep
  <1> DEFINE run == stack[t]
             gone == {run.card} \cap board.instance[run.owner]
             left == [board EXCEPT !.instance[run.owner] = @ \ gone]
  <1>1. SamePurse(PutAway(left, gone), board)
    <2>1. SamePurse(left, board)
      BY DEF SamePurse
    <2> HIDE DEF left
    <2> QED BY <2>1, PurseKept DEF SamePurse
  <1>3. /\ stack[t].steps # <<>> /\ SamePurse(board', board)
        /\ stack' = Advanced(t) /\ UNCHANGED <<frames, settled>>
    <2>1. CASE Draw(t)
      BY <2>1, TakesOne, PurseKeptByDraw DEF Draw, Do
    <2>2. CASE Discard(t)
      BY <2>2, TakesOne, PurseKept DEF Discard, Do
    <2>3. CASE Destroy(t)
      BY <2>3, TakesOne, PurseKept DEF Destroy, Do
    <2>4. CASE Sacrifice(t)
      BY <2>4, TakesOne, PurseKept DEF Sacrifice, Do
    <2>5. CASE Dispose(t)
      <3>1. /\ Takes(t, "Dispose") /\ stack' = Advanced(t)
            /\ UNCHANGED <<frames, settled>>
            /\ board' \in {IF gone = {} \/ IsSpentInOpenFrame(run.card)
                           THEN board ELSE PutAway(left, gone)}
        BY <2>5 DEF Dispose, Do
      <3>2. SamePurse(board', board)
        <4> HIDE DEF run, gone, left
        <4> QED BY <1>1, <3>1 DEF SamePurse
      <3> QED BY <3>1, <3>2, TakesOne
    <2> QED BY <2>1, <2>2, <2>3, <2>4, <2>5
  <1>4. Descends(stack', stack)
    BY <1>3, AdvancedDescends
  <1> QED BY <1>3, <1>4 DEF PlainStep, SameWindows

LEMMA WindowStepsPlain ==
    ASSUME TypeInv, NEW t \in DOMAIN stack, Start(t) \/ Land(t)
    PROVE  PlainStep
  <1>1. /\ Descends(stack', stack)
        /\ UNCHANGED <<board, settled>>
    BY TakesOne, AdvancedDescends DEF Start, Land
  <1>2. SameWindows
    <2>0. \A f \in DOMAIN frames : frames[f] \in [snap : Board, win : WindowType]
      BY DEF TypeInv, GoodFrames, GoodWindow
    <2>1. CASE UNCHANGED frames
      BY <2>1 DEF SameWindows
    <2>2. CASE ~UNCHANGED frames
      <3>1. PICK f \in DOMAIN frames : \E w :
                /\ frames' = [frames EXCEPT ![f].win = w]
                /\ w.kind = frames[f].win.kind /\ w.about = frames[f].win.about
        <4>1. CASE Start(t)
          <5>1. PICK f \in DOMAIN frames, m \in Margin :
                    frames' = [frames EXCEPT ![f].win.rival = {stack[t].owner},
                                             ![f].win.margin = m,
                                             ![f].win.passes = {}]
            BY <2>2, <4>1 DEF Start
          <5> DEFINE w == [frames[f].win EXCEPT !.rival = {stack[t].owner},
                              !.margin = m, !.passes = {}]
          <5>2. frames' = [frames EXCEPT ![f].win = w]
            BY <2>0, <5>1
          <5>3. w.kind = frames[f].win.kind /\ w.about = frames[f].win.about
            BY <2>0 DEF WindowType
          <5> HIDE DEF w
          <5> QED BY <5>2, <5>3
        <4>2. CASE Land(t)
          <5>1. PICK f \in DOMAIN frames :
                    frames' = [frames EXCEPT ![f].win.aimed = TRUE,
                                             ![f].win.target = stack[t].pick,
                                             ![f].win.passes = {}]
            BY <2>2, <4>2 DEF Land
          <5> DEFINE w == [frames[f].win EXCEPT !.aimed = TRUE,
                              !.target = stack[t].pick, !.passes = {}]
          <5>2. frames' = [frames EXCEPT ![f].win = w]
            BY <2>0, <5>1
          <5>3. w.kind = frames[f].win.kind /\ w.about = frames[f].win.about
            BY <2>0 DEF WindowType
          <5> HIDE DEF w
          <5> QED BY <5>2, <5>3
        <4> QED BY <4>1, <4>2
      <3> QED BY <2>0, <3>1 DEF SameWindows
    <2> QED BY <2>1, <2>2
  <1> QED BY <1>1, <1>2 DEF PlainStep, SamePurse

LEMMA ApplyPlain ==
    ASSUME TypeInv, NEW t \in DOMAIN stack, Apply(t)
    PROVE  PlainStep
  <1>1. /\ GoodStack(Advanced(t)) /\ DOMAIN Advanced(t) = DOMAIN stack
        /\ IsNewest(t, DOMAIN stack) /\ Descends(Advanced(t), stack)
    BY TakesOne, AdvancedTyped, AdvancedDescends DEF Apply
  <1>2. UNCHANGED <<board, settled>> /\ SameWindows
    <2>0. \A f \in DOMAIN frames : frames[f] \in [snap : Board, win : WindowType]
      BY DEF TypeInv, GoodFrames, GoodWindow
    <2>1. CASE UNCHANGED frames
      BY <2>1 DEF Apply, SameWindows
    <2>2. CASE ~UNCHANGED frames
      <3>0. PICK f \in DOMAIN frames : \E m, b :
                frames' = [frames EXCEPT ![f].win.margin = m,
                                         ![f].win.passes = {},
                                         ![f].win.asked = b]
        <4>1. PICK f \in DOMAIN frames :
                LET run == stack[t]
                    win == frames[f].win
                    worth == IF win.kind = "challenge" /\ run.seat # win.by
                             THEN -run.value ELSE run.value
                    passing == /\ win.kind = "roll" /\ ~win.asked
                               /\ win.margin + worth >= 0
                IN  frames' = [frames EXCEPT ![f].win.margin = @ + worth,
                                             ![f].win.passes = {},
                                             ![f].win.asked = @ \/ passing]
          BY <2>2 DEF Apply
        <4> DEFINE win == frames[f].win
                   worth == IF win.kind = "challenge" /\ stack[t].seat # win.by
                            THEN -stack[t].value ELSE stack[t].value
                   passing == /\ win.kind = "roll" /\ ~win.asked
                              /\ win.margin + worth >= 0
                   m == win.margin + worth
                   b == win.asked \/ passing
        <4>2. frames' = [frames EXCEPT ![f].win.margin = m,
                                       ![f].win.passes = {},
                                       ![f].win.asked = b]
          BY <2>0, <4>1 DEF WindowType
        <4> HIDE DEF m, b, Apply
        <4> QED BY <4>2, Zenon
      <3>1. PICK m, b :
                frames' = [frames EXCEPT ![f].win.margin = m,
                                         ![f].win.passes = {},
                                         ![f].win.asked = b]
        BY <3>0
      <3> DEFINE w == [frames[f].win EXCEPT !.margin = m, !.passes = {},
                                            !.asked = b]
      <3>2. frames' = [frames EXCEPT ![f].win = w]
        BY <2>0, <3>1
      <3>3. w.kind = frames[f].win.kind /\ w.about = frames[f].win.about
        BY <2>0 DEF WindowType
      <3> HIDE DEF w
      <3>4. UNCHANGED <<board, settled>>
        BY DEF Apply
      <3>5. SameWindows
        BY <2>0, <3>2, <3>3 DEF SameWindows
      <3> QED BY <3>4, <3>5
    <2> QED BY <2>1, <2>2
  <1>3. CASE stack' = Advanced(t)
    BY <1>1, <1>2, <1>3 DEF PlainStep, SamePurse
  <1>4. CASE stack' # Advanced(t)
    <2>0. PICK f \in DOMAIN frames :
            \E run \in RollPassingRuns(board, frames[f].win.about) \cup {<<>>} :
                stack' = Pushed(Advanced(t), t, run)
      BY <1>4 DEF Apply
    <2>1. PICK run \in RollPassingRuns(board, frames[f].win.about) \cup {<<>>} :
              stack' = Pushed(Advanced(t), t, run)
      BY <2>0
    <2>2. run \in Seq(PlainPipeline)
      <3>1. CASE run \in RollPassingRuns(board, frames[f].win.about)
        BY <3>1, RollPassingTyped DEF TypeInv
      <3>2. CASE run = <<>>
        BY <3>2
      <3> QED BY <2>1, <3>1, <3>2
    <2>3. Descends(stack', Advanced(t))
      BY <1>1, <2>1, <2>2, PushedDescends
    <2>4. Descends(stack', stack)
      BY <1>1, <2>3, DescendsOn
    <2> QED BY <1>2, <2>4 DEF PlainStep, SamePurse
  <1> QED BY <1>3, <1>4

LEMMA FinishPlain ==
    ASSUME TypeInv, NEW t \in DOMAIN stack, Finish(t)
    PROVE  PlainStep
  <1>1. UNCHANGED <<board, frames, settled>>
    BY DEF Finish
  <1>2. CASE stack' = Without(stack, {t})
    BY <1>1, <1>2, WithoutDescends DEF PlainStep, SameWindows, SamePurse
  <1>3. CASE stack' # Without(stack, {t})
    <2>1. PICK p \in Player :
              stack' = [stack EXCEPT ![t] =
                  [Pipeline(stack[t].card, p, <<"Dispose">>)
                     EXCEPT !.system = TRUE]]
      BY <1>3 DEF Finish
    <2>2. [Pipeline(stack[t].card, p, <<"Dispose">>) EXCEPT !.system = TRUE]
             \in PlainPipeline
      BY StackTyped, PlainSteps, PipelineTyped, PlainSlots
    <2>3. Descends(stack', stack)
      BY <2>1, <2>2 DEF Descends, PlainPipeline, FreshPipeline
    <2> QED BY <1>1, <2>3 DEF PlainStep, SameWindows, SamePurse
  <1> QED BY <1>2, <1>3

LEMMA SpendsPlain ==
    ASSUME TypeInv, NEW p \in Player, NEW c \in Card, NEW f \in DOMAIN frames,
           \/ PlayChallenge(p, c, f)
           \/ \E v \in ModifierValue, seat \in Player :
                  PlayModifier(p, c, v, f, seat)
    PROVE  PlainStep
  <1>1. SpendCard(p, c, f) /\ UNCHANGED settled
    BY DEF PlayChallenge, PlayModifier
  <1>2. SameWindows /\ SamePurse(board', board)
    BY <1>1 DEF SpendCard, SameWindows, SamePurse
  <1>3. PICK t \in DOMAIN stack \cup {0}, run \in Seq(PlainPipeline) :
            IsNewest(t, DOMAIN stack) /\ stack' = Pushed(stack, t, run)
    <2>1. CASE PlayChallenge(p, c, f)
      <3>1. ChallengePlayedRuns(p, c, frames[f].win.by) \in Seq(PlainPipeline)
        BY FramesTyped, ChallengePlayedTyped
      <3> QED BY <2>1, <3>1 DEF PlayChallenge
    <2>2. CASE \E v \in ModifierValue, seat \in Player :
                   PlayModifier(p, c, v, f, seat)
      <3>1. PICK v \in ModifierValue, seat \in Player :
                PlayModifier(p, c, v, f, seat)
        BY <2>2
      <3>2. PICK t \in DOMAIN stack \cup {0},
                 run \in ModifierPlayedRuns(p, c, v, seat) :
                IsNewest(t, DOMAIN stack) /\ stack' = Pushed(stack, t, run)
        BY <3>1 DEF PlayModifier
      <3>3. run \in Seq(PlainPipeline)
        BY <3>2, ConstantsAssumption, ModifierPlayedTyped
      <3> QED BY <3>2, <3>3
    <2> QED BY <2>1, <2>2
  <1>4. Descends(stack', stack)
    BY <1>3, PushedDescends DEF TypeInv
  <1> QED BY <1>1, <1>2, <1>4 DEF PlainStep

-----------------------------------------------------------------------------
(* A question opens over what stands. *)

(* What Ask leaves behind, whatever it asks. *)
LEMMA AskOpens ==
    ASSUME TypeInv, NEW t \in DOMAIN stack, stack[t].steps # <<>>,
           NEW win, Ask(t, win)
    PROVE  \E n \in Nat \ {0} :
             /\ frames' = Opened(n, win)
             /\ \A m \in DOMAIN frames : m < n
             /\ \A u \in DOMAIN stack' :
                   /\ u \in DOMAIN stack
                   /\ u = t => stack'[u].on = n /\ ~Offers(stack'[u])
                   /\ u # t => stack'[u] = stack[u]
             /\ UNCHANGED <<board, settled>>
  <1>1. PICK n \in DOMAIN frames \cup {0, settled.frame} :
          /\ IsNewest(n, DOMAIN frames \cup {settled.frame})
          /\ frames' = Opened(n + 1, win)
          /\ stack' = [Advanced(t) EXCEPT ![t].on = n + 1]
          /\ UNCHANGED <<board, settled>>
    BY DEF Ask
  <1>2. n \in Nat /\ n + 1 \in Nat \ {0}
    BY NewestFrame
  <1>3. \A m \in DOMAIN frames : m < n + 1
    BY <1>1, <1>2 DEF IsNewest, TypeInv, GoodFrames
  <1>4. /\ DOMAIN Advanced(t) = DOMAIN stack
        /\ \A u \in DOMAIN stack \ {t} : Advanced(t)[u] = stack[u]
        /\ Advanced(t)[t] \in GoodPipeline
        /\ ~Offers(Advanced(t)[t])
    BY AdvancedTyped, AdvancedDescends DEF Advanced, GoodStack
  <1>5. ASSUME NEW u \in DOMAIN stack'
        PROVE  /\ u \in DOMAIN stack
               /\ u = t => stack'[u].on = n + 1 /\ ~Offers(stack'[u])
               /\ u # t => stack'[u] = stack[u]
    <2>1. stack'[t] = [Advanced(t)[t] EXCEPT !.on = n + 1]
      BY <1>1, <1>4
    <2>2. stack'[t].on = n + 1 /\ stack'[t].steps = Advanced(t)[t].steps
      BY <1>4, <2>1 DEF GoodPipeline, PipelineType
    <2>3. ~Offers(stack'[t])
      BY <1>4, <2>2 DEF Offers
    <2> QED BY <1>1, <1>4, <2>2, <2>3
  <1> QED BY <1>1, <1>2, <1>3, <1>5

LEMMA AskKeeps ==
    ASSUME WindowInv, TypeInv', NEW t \in DOMAIN stack,
           stack[t].steps # <<>>, NEW win, win.kind \notin Standing,
           win.kind = "confirm" /\ win.about # Serpent => Offers(stack[t]),
           Ask(t, win)
    PROVE  WindowInv'
  <1>1. PICK n \in Nat \ {0} :
          /\ frames' = Opened(n, win)
          /\ \A m \in DOMAIN frames : m < n
          /\ \A u \in DOMAIN stack' :
                /\ u \in DOMAIN stack
                /\ u = t => stack'[u].on = n /\ ~Offers(stack'[u])
                /\ u # t => stack'[u] = stack[u]
          /\ UNCHANGED <<board, settled>>
    BY AskOpens DEF WindowInv
  <1>2. /\ DOMAIN frames' = DOMAIN frames \cup {n} /\ n \notin DOMAIN frames
        /\ frames'[n].win = win
        /\ \A f \in DOMAIN frames : frames'[f] = frames[f]
    BY <1>1 DEF Opened, WindowInv, TypeInv, GoodFrames
  <1>3. ParkedOnOpenFrame'
    BY <1>1, <1>2 DEF WindowInv, ParkedOnOpenFrame
  <1>4. Offering(stack') \subseteq Offering(stack) \ {t}
    BY <1>1 DEF Offering
  <1>5. /\ Rolling(frames') \subseteq Rolling(frames) \cup {n}
        /\ n \in Rolling(frames') => Offers(stack[t])
    BY <1>2 DEF Rolling
  <1>6. OneToken'
    <2>1. CASE Offers(stack[t])
      <3>1. t \in Offering(stack)
        BY <2>1 DEF Offering
      <3> QED BY <1>1, <1>4, <1>5, <3>1 DEF WindowInv, OneToken
    <2>2. CASE ~Offers(stack[t])
      BY <1>1, <1>4, <1>5, <2>2 DEF WindowInv, OneToken
    <2> QED BY <2>1, <2>2
  <1>7. PricePaid'
    BY <1>1, <1>2 DEF WindowInv, PricePaid, SamePurse
  <1> QED BY <1>3, <1>6, <1>7 DEF WindowInv

LEMMA QuestionsKeep ==
    ASSUME WindowInv, NEW t \in DOMAIN stack,
           \/ AskHand(t) \/ AskAnyHero(t) \/ AskOwnHero(t) \/ AskValue(t)
           \/ AskDraw(t) \/ AskRoll(t)
    PROVE  WindowInv'
  <1>1. TypeInv'
    BY QuestionsTyped DEF WindowInv
  <1>2. TypeInv /\ stack[t].steps # <<>>
    BY TakesOne DEF WindowInv, AskHand, AskAnyHero, AskOwnHero, AskValue,
                    AskDraw, AskRoll
  <1>3. CASE AskHand(t) \/ AskAnyHero(t) \/ AskOwnHero(t) \/ AskValue(t)
    <2>1. PICK win : Ask(t, win) /\ win.kind \in {"card", "value"}
      <3>2. CASE AskValue(t)
        <4>1. PICK v : Ask(t, [Window("value", stack[t].owner, stack[t].card)
                                 EXCEPT !.silent = v])
          BY <3>2 DEF AskValue
        <4> DEFINE w == [Window("value", stack[t].owner, stack[t].card)
                           EXCEPT !.silent = v]
        <4>2. w.kind = "value"
          BY DEF Window
        <4> HIDE DEF w
        <4> QED BY <4>1, <4>2 DEF w
      <3>3. CASE AskHand(t)
        <4> DEFINE w == [Window("card", stack[t].seat, stack[t].card)
                           EXCEPT !.offers = board.hand[stack[t].seat]]
        <4>1. Ask(t, w)
          BY <3>3 DEF AskHand
        <4>2. w.kind = "card"
          BY DEF Window
        <4> HIDE DEF w
        <4> QED BY <4>1, <4>2
      <3>4. CASE AskAnyHero(t)
        <4> DEFINE w == [Window("card", stack[t].owner, stack[t].card)
                EXCEPT !.offers = UNION {board.heroes[p] : p \in Player}]
        <4>1. Ask(t, w)
          BY <3>4 DEF AskAnyHero
        <4>2. w.kind = "card"
          BY DEF Window
        <4> HIDE DEF w
        <4> QED BY <4>1, <4>2
      <3>5. CASE AskOwnHero(t)
        <4> DEFINE w == [Window("card", stack[t].owner, stack[t].card)
                           EXCEPT !.offers = board.heroes[stack[t].owner]]
        <4>1. Ask(t, w)
          BY <3>5 DEF AskOwnHero
        <4>2. w.kind = "card"
          BY DEF Window
        <4> HIDE DEF w
        <4> QED BY <4>1, <4>2
      <3> QED BY <1>3, <3>2, <3>3, <3>4, <3>5
    <2>2. win.kind \notin Standing /\ win.kind # "confirm"
      BY <2>1 DEF Standing
    <2> QED BY <1>1, <1>2, <2>1, <2>2, AskKeeps
  <1>4. CASE AskDraw(t) \/ AskRoll(t)
    <2> DEFINE win == Window("confirm", stack[t].owner, stack[t].card)
    <2>1. Ask(t, win) /\ Head(stack[t].steps) \in {"AskDraw", "AskRoll"}
      BY <1>4, TakesOne DEF AskDraw, AskRoll, Confirm
    <2>2. win.kind \notin Standing /\ win.about = stack[t].card
      BY DEF Window, Standing
    <2>3. win.about # Serpent => Offers(stack[t])
      <3>1. /\ 1 \in DOMAIN stack[t].steps
            /\ stack[t].steps[1] \in {"AskDraw", "AskRoll"}
            /\ stack[t] \in GoodPipeline
        BY <1>2, <2>1, StackTyped
      <3> QED BY <2>2, <3>1 DEF GoodPipeline, RollsAHero, Offers
    <2> HIDE DEF win
    <2> QED BY <1>1, <1>2, <2>1, <2>2, <2>3, AskKeeps
  <1> QED BY <1>3, <1>4

-----------------------------------------------------------------------------
(* A roll opens. *)

LEMMA OpenRollOpens ==
    ASSUME NEW b \in Board, NEW st, GoodStack(st),
           NEW t \in DOMAIN st \cup {0}, IsNewest(t, DOMAIN st), NEW n,
           NEW p, NEW h, OpenRoll(b, st, t, n, p, h)
    PROVE  /\ board' = [b EXCEPT !.used = @ \cup {h}]
           /\ DOMAIN frames' = DOMAIN frames \cup {n}
           /\ frames'[n].snap = board'
           /\ frames'[n].win.kind = "roll"
           /\ \A g \in DOMAIN frames \ {n} : frames'[g] = frames[g]
           /\ Descends(stack', st)
  <1>1. PICK m \in Margin :
          /\ board' = [b EXCEPT !.used = @ \cup {h}]
          /\ frames' = [g \in DOMAIN frames \cup {n} |->
                IF g = n THEN [snap |-> board', win |-> RollWindow(p, h, m)]
                ELSE frames[g]]
          /\ \E run \in IF m >= 0 THEN RollPassingRuns(b, h) ELSE {<<>>} :
                 stack' = Pushed(st, t, run)
    BY DEF OpenRoll
  <1>2. RollWindow(p, h, m).kind = "roll"
    BY DEF RollWindow, Window
  <1>3. PICK run \in IF m >= 0 THEN RollPassingRuns(b, h) ELSE {<<>>} :
            stack' = Pushed(st, t, run)
    BY <1>1
  <1>4. run \in Seq(PlainPipeline)
    <2>1. CASE run \in RollPassingRuns(b, h)
      BY <2>1, RollPassingTyped
    <2>2. CASE run = <<>>
      BY <2>2
    <2> QED BY <1>3, <2>1, <2>2
  <1>5. Descends(stack', st)
    BY <1>3, <1>4, PushedDescends
  <1> QED BY <1>1, <1>2, <1>5

LEMMA RollKeeps ==
    ASSUME WindowInv, NEW t \in DOMAIN stack, Roll(t)
    PROVE  /\ WindowInv'
           /\ board' = [board EXCEPT !.used = @ \cup {stack[t].card}]
  <1> USE DEF WindowInv
  <1>1. TypeInv'
    BY RollTyped
  <1>2. /\ stack[t].steps # <<>> /\ Head(stack[t].steps) = "Roll"
        /\ IsNewest(t, DOMAIN stack) /\ UNCHANGED settled
    BY TakesOne DEF Roll
  <1>3. t \in Offering(stack)
    <2>1. 1 \in DOMAIN stack[t].steps /\ stack[t].steps[1] = "Roll"
      BY <1>2, StackTyped
    <2> QED BY <2>1 DEF Offering, Offers
  <1>4. /\ Rolling(frames) = {} /\ settled.cards = {}
        /\ \A u \in Offering(stack) : u = t
    BY <1>3 DEF OneToken
  <1>5. PICK n \in DOMAIN frames \cup {0, settled.frame} :
            OpenRoll(board, [Advanced(t) EXCEPT ![t].on = n + 1], t, n + 1,
                     stack[t].owner, stack[t].card)
    BY DEF Roll
  <1>6. n + 1 \in Nat \ {0}
    BY NewestFrame
  <1> DEFINE st == [Advanced(t) EXCEPT ![t].on = n + 1]
  <1>7. /\ GoodStack(st) /\ DOMAIN st = DOMAIN stack
        /\ DOMAIN Advanced(t) = DOMAIN stack
        /\ Advanced(t)[t] \in GoodPipeline
    BY <1>2, <1>6, AdvancedTyped, ParkedTyped DEF GoodStack
  <1>8. /\ \A u \in DOMAIN stack \ {t} : st[u] = stack[u]
        /\ st[t].on = n + 1 /\ ~Offers(st[t])
    <2>1. /\ \A u \in DOMAIN stack \ {t} : st[u] = stack[u]
          /\ st[t] = [Advanced(t)[t] EXCEPT !.on = n + 1]
      BY <1>7 DEF Advanced
    <2>2. st[t].on = n + 1 /\ st[t].steps = Advanced(t)[t].steps
      BY <1>7, <2>1 DEF GoodPipeline, PipelineType
    <2>3. ~Offers(st[t])
      BY <1>2, <2>2, AdvancedDescends DEF Offers
    <2> QED BY <2>1, <2>2, <2>3
  <1> HIDE DEF st
  <1>9. /\ board' = [board EXCEPT !.used = @ \cup {stack[t].card}]
        /\ DOMAIN frames' = DOMAIN frames \cup {n + 1}
        /\ frames'[n + 1].snap = board'
        /\ frames'[n + 1].win.kind = "roll"
        /\ \A g \in DOMAIN frames \ {n + 1} : frames'[g] = frames[g]
        /\ Descends(stack', st)
    <2>1. board \in Board /\ t \in DOMAIN st \cup {0} /\ IsNewest(t, DOMAIN st)
      BY <1>2, <1>7 DEF TypeInv
    <2>2. OpenRoll(board, st, t, n + 1, stack[t].owner, stack[t].card)
      BY <1>5 DEF st
    <2> QED BY <1>7, <2>1, <2>2, OpenRollOpens
  <1>10. ParkedOnOpenFrame'
    BY <1>2, <1>7, <1>8, <1>9 DEF Descends, ParkedOnOpenFrame
  <1>11. Offering(stack') = {}
    BY <1>4, <1>7, <1>8, <1>9 DEF Descends, Offering
  <1>12. Rolling(frames') \subseteq {n + 1}
    BY <1>4, <1>9 DEF Rolling
  <1>13. OneToken'
    BY <1>2, <1>4, <1>11, <1>12 DEF OneToken
  <1>14. PricePaid'
    <2> SUFFICES ASSUME NEW f \in DOMAIN frames',
                        frames'[f].win.kind \in Standing
                 PROVE  SamePurse(frames'[f].snap, board')
      BY DEF PricePaid
    <2>1. f \in Rolling(frames')
      BY DEF Rolling
    <2> QED BY <1>9, <1>12, <2>1 DEF SamePurse
  <1> QED BY <1>1, <1>9, <1>10, <1>13, <1>14

-----------------------------------------------------------------------------
(* FrameResolved is announced. *)

LEMMA OneRun ==
    ASSUME NEW b, NEW cards, NEW run \in FrameResolvedRuns(b, cards)
    PROVE  /\ Len(run) <= 1
           /\ cards = {} => run = <<>>
  <1>1. CASE run = <<>>
    BY <1>1
  <1>2. CASE run # <<>>
    <2>1. cards # {} /\ \E r : run = <<r>>
      BY <1>2 DEF FrameResolvedRuns
    <2> QED BY <2>1
  <1> QED BY <1>1, <1>2

LEMMA AnnounceKeeps ==
    ASSUME WindowInv, Announce
    PROVE  WindowInv'
  <1> USE DEF WindowInv
  <1> DEFINE awake == [i \in DOMAIN stack |-> Woken(stack[i])]
  <1>1. TypeInv'
    BY AnnounceTyped
  <1>2. GoodStack(awake) /\ DOMAIN awake = DOMAIN stack
    BY WokenTyped DEF TypeInv, GoodStack
  <1>3. \A u \in DOMAIN stack :
          /\ awake[u].on # NoFrame =>
                awake[u].on = stack[u].on /\ stack[u].on # settled.frame
          /\ awake[u].steps = stack[u].steps
    <2> SUFFICES ASSUME NEW u \in DOMAIN stack
                 PROVE  LET w == Woken(stack[u]) IN
                        /\ w.on # NoFrame =>
                              w.on = stack[u].on /\ stack[u].on # settled.frame
                        /\ w.steps = stack[u].steps
      OBVIOUS
    <2>1. stack[u] \in GoodPipeline
      BY StackTyped
    <2>2. CASE stack[u].on # settled.frame
      BY <2>2 DEF Woken
    <2>3. CASE stack[u].on = settled.frame
      <3> DEFINE v == IF settled.answer.slot = "value" THEN settled.answer.value
                      ELSE stack[u].value
                 b == stack[u].fed \/ settled.answer.slot = "pick"
                 cards == IF settled.answer.slot = "pick"
                          THEN settled.answer.pick ELSE stack[u].pick
      <3>1. Woken(stack[u]) = [stack[u] EXCEPT !.on = NoFrame, !.value = v,
                                               !.fed = b, !.pick = cards]
        BY <2>3 DEF Woken
      <3> HIDE DEF v, b, cards
      <3> QED BY <2>1, <3>1 DEF GoodPipeline, PipelineType
    <2> QED BY <2>2, <2>3
  <1>4. PICK t \in DOMAIN stack \cup {0},
             run \in FrameResolvedRuns(board, settled.cards) :
            IsNewest(t, DOMAIN stack) /\ stack' = Pushed(awake, t, run)
    BY DEF Announce
  <1>5. run \in Seq(FreshPipeline)
    BY <1>4, FrameResolvedTyped DEF TypeInv, SettledType
  <1> HIDE DEF awake
  <1>6. ASSUME NEW u \in DOMAIN stack'
        PROVE  \/ u \in DOMAIN stack /\ stack'[u] = awake[u]
               \/ stack'[u].on = NoFrame /\ u \in (t + 1)..(t + Len(run))
    BY <1>2, <1>4, <1>5, <1>6, PushedAt DEF FreshPipeline
  <1>7. settled' = Nothing /\ UNCHANGED <<board, frames>>
    BY DEF Announce
  <1>8. ParkedOnOpenFrame'
    BY <1>3, <1>6, <1>7 DEF ParkedOnOpenFrame
  <1>9. Len(run) \in Nat /\ Len(run) <= 1 /\ t \in Nat
    BY <1>5, OneRun DEF TypeInv, GoodStack
  <1>10. ASSUME NEW u \in Offering(stack')
         PROVE  u \in Offering(stack) \/ (u = t + 1 /\ settled.cards # {})
    <2>1. CASE u \in DOMAIN stack /\ stack'[u] = awake[u]
      BY <1>3, <1>10, <2>1 DEF Offering, Offers
    <2>2. CASE u \in (t + 1)..(t + Len(run))
      BY <1>9, <2>2, OneRun
    <2> QED BY <1>6, <1>10, <2>1, <2>2 DEF Offering
  <1>11. OneToken'
    BY <1>7, <1>10 DEF OneToken, Nothing
  <1>12. PricePaid'
    BY <1>7 DEF PricePaid
  <1> QED BY <1>1, <1>8, <1>11, <1>12

-----------------------------------------------------------------------------
(* A window settles. *)

LEMMA QuietMeans == Quiet => settled = Nothing
  BY DEF Quiet

(* The token leaves with its window, unless a question about a roll is      *)
(* answered yes: then the step that rolls takes it over.                    *)
LEMMA SettleKeeps ==
    ASSUME WindowInv, TypeInv', Quiet, NEW f \in DOMAIN frames,
           frames' = Without(frames, {f}), settled'.frame = f,
           SamePurse(board', board),
           \/ /\ Descends(stack', stack)
              /\ settled'.cards # {} => f \in Rolling(frames)
           \/ /\ f \in Rolling(frames)
              /\ settled'.cards = {}
              /\ \E t \in DOMAIN stack \cup {0}, run \in Seq(FreshPipeline) :
                    /\ IsNewest(t, DOMAIN stack) /\ Len(run) = 1
                    /\ stack' = Pushed(stack, t, run)
    PROVE  WindowInv'
  <1> USE DEF WindowInv
  <1>1. settled = Nothing /\ settled.frame = NoFrame
    BY QuietMeans DEF Nothing
  <1>2. /\ DOMAIN frames' = DOMAIN frames \ {f}
        /\ \A g \in DOMAIN frames' : frames'[g] = frames[g]
    BY DEF Without
  <1>3. /\ Rolling(frames') \subseteq Rolling(frames) \ {f}
        /\ f \in Rolling(frames) => Rolling(frames') = {} /\ Offering(stack) = {}
    <2>1. Rolling(frames') \subseteq Rolling(frames) \ {f}
      BY <1>2 DEF Rolling
    <2> QED BY <2>1 DEF OneToken
  <1>4. PricePaid'
    <2> SUFFICES ASSUME NEW g \in DOMAIN frames', frames'[g].win.kind \in Standing
                 PROVE  SamePurse(frames'[g].snap, board')
      BY Zenon DEF PricePaid
    <2>1. g \in DOMAIN frames /\ frames'[g] = frames[g]
      BY <1>2
    <2>2. SamePurse(frames[g].snap, board)
      BY <2>1 DEF PricePaid
    <2>3. SamePurse(board, board')
      BY DEF SamePurse
    <2> QED BY <2>1, <2>2, <2>3, SamePurseChains
  <1>5. CASE /\ Descends(stack', stack)
             /\ settled'.cards # {} => f \in Rolling(frames)
    <2>1. ParkedOnOpenFrame'
      BY <1>1, <1>2, <1>5 DEF ParkedOnOpenFrame, Descends
    <2>2. Offering(stack') \subseteq Offering(stack)
      BY <1>5 DEF Offering, Descends
    <2>3. OneToken'
      BY <1>3, <1>5, <2>2 DEF OneToken
    <2> QED BY <1>4, <2>1, <2>3
  <1>6. CASE /\ f \in Rolling(frames)
             /\ settled'.cards = {}
             /\ \E t \in DOMAIN stack \cup {0}, run \in Seq(FreshPipeline) :
                   /\ IsNewest(t, DOMAIN stack) /\ Len(run) = 1
                   /\ stack' = Pushed(stack, t, run)
    <2>1. PICK t \in DOMAIN stack \cup {0}, run \in Seq(FreshPipeline) :
                   /\ IsNewest(t, DOMAIN stack) /\ Len(run) = 1
                   /\ stack' = Pushed(stack, t, run)
      BY <1>6
    <2>2. ASSUME NEW u \in DOMAIN stack'
          PROVE  \/ u \in DOMAIN stack /\ stack'[u] = stack[u]
                 \/ stack'[u].on = NoFrame /\ u \in (t + 1)..(t + 1)
      <3>1. \/ u \in DOMAIN stack /\ stack'[u] = stack[u]
            \/ stack'[u] \in FreshPipeline /\ u \in (t + 1)..(t + Len(run))
        BY <2>1, <2>2, PushedAt DEF TypeInv
      <3> QED BY <2>1, <3>1 DEF FreshPipeline
    <2>3. ParkedOnOpenFrame'
      BY <1>1, <1>2, <2>2 DEF ParkedOnOpenFrame
    <2>4. t \in Nat
      BY DEF TypeInv, GoodStack
    <2>5. \A u \in Offering(stack') : u = t + 1
      BY <1>3, <1>6, <2>2, <2>4 DEF Offering
    <2>6. OneToken'
      BY <1>3, <1>6, <2>5 DEF OneToken
    <2> QED BY <1>4, <2>3, <2>6
  <1> QED BY <1>5, <1>6

LEMMA ResolveStandingKeeps ==
    ASSUME WindowInv, Quiet, NEW f \in DOMAIN frames, ResolveStanding(f)
    PROVE  WindowInv' /\ SamePurse(board', board)
  <1> USE DEF WindowInv
  <1> DEFINE win == frames[f].win
             left == Without(stack, Parked(stack, f))
  <1>1. TypeInv'
    BY ResolveStandingTyped
  <1>2. /\ frames' = Without(frames, {f})
        /\ \/ win.kind = "roll" /\ SettleRoll(f)
           \/ win.kind = "attack" /\ SettleAttack(f)
           \/ win.kind = "challenge" /\ SettleUncontested(f)
           \/ win.kind = "challenge" /\ SettleContest(f)
    BY DEF ResolveStanding
  <1>3. f \in Rolling(frames) /\ win.kind \in Standing
    BY <1>2 DEF Rolling, Standing
  <1>4. SamePurse(frames[f].snap, board)
    BY <1>3 DEF PricePaid
  <1>5. SamePurse(Released(f), board) /\ SamePurse(Restored(f), board)
    BY <1>4, PurseKeptByRelease DEF SamePurse
  <1>6. settled'.frame = f
    BY <1>2 DEF SettleRoll, SettleAttack, SettleUncontested, SettleContest,
                Nothing
  <1>7. Descends(left, stack) /\ GoodStack(left)
    BY WithoutDescends, WithoutStack DEF TypeInv
  <1>8. CASE SettleRoll(f) /\ win.kind = "roll"
    <2>1. CASE win.margin >= 0
      <3>1. board' = Released(f)
        BY <1>8, <2>1 DEF SettleRoll
      <3>2. PICK t \in DOMAIN stack \cup {0},
                 run \in RollSuccessRuns(Released(f), win) :
                IsNewest(t, DOMAIN stack) /\ stack' = Pushed(stack, t, run)
        BY <1>8, <2>1 DEF SettleRoll
      <3>3. run \in Seq(PlainPipeline)
        BY <3>2, FramesTyped, ReleasedType, RollSuccessTyped
      <3>4. Descends(stack', stack)
        BY <3>2, <3>3, PushedDescends DEF TypeInv
      <3> QED BY <1>1, <1>2, <1>3, <1>5, <1>6, <3>1, <3>4, SettleKeeps
    <2>2. CASE ~(win.margin >= 0)
      <3>1. board' = Restored(f) /\ stack' = left
        BY <1>8, <2>2 DEF SettleRoll
      <3> QED BY <1>1, <1>2, <1>3, <1>5, <1>6, <1>7, <3>1, SettleKeeps
    <2> QED BY <2>1, <2>2
  <1>9. CASE SettleAttack(f) /\ win.kind = "attack"
    <2>1. CASE win.margin >= 0
      <3>1. board' \in Slain(Released(f), win.about, win.by) /\ stack' = stack
        BY <1>9, <2>1 DEF SettleAttack
      <3>2. SamePurse(board', board)
        BY <1>5, <3>1, PurseKeptBySlain DEF SamePurse
      <3> QED BY <1>1, <1>2, <1>3, <1>6, <3>1, <3>2, DescendsSelf, SettleKeeps
    <2>2. CASE ~(win.margin >= 0)
      <3>1. board' = Restored(f)
        BY <1>9, <2>2 DEF SettleAttack
      <3>2. Descends(stack', stack)
        <4> DEFINE bite == Pipeline(win.about, win.by,
                                    <<"AskOwnHero", "Sacrifice">>)
        <4>1. CASE stack' = left
          BY <1>7, <4>1
        <4>2. CASE stack' # left
          <5>1. PICK t \in DOMAIN left \cup {0} :
                    IsNewest(t, DOMAIN left) /\ stack' = Pushed(left, t, <<bite>>)
            BY <1>9, <2>2, <4>2 DEF SettleAttack
          <5>2. <<bite>> \in Seq(PlainPipeline)
            <6>1. bite \in PlainPipeline
              BY FramesTyped, PlainSteps, PipelineTyped
            <6> HIDE DEF bite
            <6> QED BY <6>1
          <5> HIDE DEF bite, left
          <5>3. Descends(stack', left)
            BY <1>7, <5>1, <5>2, PushedDescends
          <5> QED BY <1>7, <5>3, DescendsOn
        <4> QED BY <4>1, <4>2
      <3> QED BY <1>1, <1>2, <1>3, <1>5, <1>6, <3>1, <3>2, SettleKeeps
    <2> QED BY <2>1, <2>2
  <1>10. CASE SettleUncontested(f)
    <2>1. board' = Released(f) /\ stack' = stack
      BY <1>10 DEF SettleUncontested
    <2> QED BY <1>1, <1>2, <1>3, <1>5, <1>6, <2>1, DescendsSelf, SettleKeeps
  <1>11. CASE SettleContest(f)
    <2>1. CASE win.margin > 0
      <3>1. /\ board' = [Released(f) EXCEPT !.challenged = @ \cup {win.about}]
            /\ stack' = stack
        BY <1>11, <2>1 DEF SettleContest
      <3>2. SamePurse(board', board)
        BY <1>5, <3>1 DEF SamePurse
      <3> QED BY <1>1, <1>2, <1>3, <1>6, <3>1, <3>2, DescendsSelf, SettleKeeps
    <2>2. CASE ~(win.margin > 0)
      <3>1. board' = PutAway(Restored(f), {win.about}) /\ stack' = left
        BY <1>11, <2>2 DEF SettleContest
      <3>2. SamePurse(board', board)
        <4>1. SamePurse(board', Restored(f))
          BY <3>1, PurseKept
        <4> QED BY <1>5, <4>1, SamePurseChains
      <3> QED BY <1>1, <1>2, <1>3, <1>6, <1>7, <3>1, <3>2, SettleKeeps
    <2> QED BY <2>1, <2>2
  <1> QED BY <1>2, <1>8, <1>9, <1>10, <1>11

LEMMA ResolveQuestionKeeps ==
    ASSUME WindowInv, Quiet, NEW f \in DOMAIN frames, NEW answer \in AnswerType,
           NEW yes \in BOOLEAN, yes => frames[f].win.kind = "confirm",
           ResolveQuestion(f, answer, yes)
    PROVE  WindowInv' /\ SamePurse(board', board)
  <1> USE DEF WindowInv
  <1>1. TypeInv'
    BY ResolveQuestionTyped
  <1>2. /\ frames' = Without(frames, {f}) /\ board' = Released(f)
        /\ settled'.frame = f /\ settled'.cards = {}
    BY DEF ResolveQuestion
  <1>3. SamePurse(board', board)
    BY <1>2, PurseKeptByRelease
  <1>4. CASE stack' = stack
    BY <1>1, <1>2, <1>3, <1>4, DescendsSelf, SettleKeeps
  <1>5. CASE stack' # stack
    <2> DEFINE win == frames[f].win
               run == TaskConfirmedRun(Released(f), win)
    <2>1. yes
      BY <1>5 DEF ResolveQuestion
    <2>2. PICK t \in DOMAIN stack \cup {0} :
              IsNewest(t, DOMAIN stack) /\ stack' = Pushed(stack, t, run)
      BY <1>5 DEF ResolveQuestion
    <2>3. run \in Seq(FreshPipeline)
      BY <2>1, FramesTyped, TaskConfirmedTyped
    <2>4. CASE win.about = Serpent
      <3>1. run \in Seq(PlainPipeline)
        <4>1. Pipeline(Serpent, win.by, <<"Draw">>) \in PlainPipeline
          BY FramesTyped, PlainSteps, PipelineTyped DEF Source
        <4> QED BY <2>4, <4>1 DEF TaskConfirmedRun
      <3> HIDE DEF run
      <3>2. Descends(stack', stack)
        BY <2>2, <3>1, PushedDescends DEF TypeInv
      <3> QED BY <1>1, <1>2, <1>3, <3>2, SettleKeeps
    <2>5. CASE win.about # Serpent
      <3>1. f \in Rolling(frames)
        BY <2>1, <2>5 DEF Rolling
      <3>2. Len(run) = 1
        BY <2>5 DEF TaskConfirmedRun
      <3> HIDE DEF run
      <3> QED BY <1>1, <1>2, <1>3, <2>2, <2>3, <3>1, <3>2, SettleKeeps
    <2> QED BY <2>4, <2>5
  <1> QED BY <1>3, <1>4, <1>5

-----------------------------------------------------------------------------
(* Seats and clocks *)

LEMMA PassKeeps ==
    ASSUME WindowInv, NEW p \in Player, NEW f \in DOMAIN frames, Pass(p, f)
    PROVE  WindowInv' /\ SamePurse(board', board)
  <1>1. CASE ResolveStanding(f)
    BY <1>1, ResolveStandingKeeps DEF Pass
  <1>2. CASE ~ResolveStanding(f)
    <2>1. PICK seats : frames' = [frames EXCEPT ![f].win.passes = seats]
      BY <1>2 DEF Pass
    <2>2. UNCHANGED <<board, stack, settled>>
      BY <1>2 DEF Pass
    <2>3. SameWindows
      BY <2>1 DEF SameWindows, WindowInv, TypeInv, GoodFrames, GoodWindow,
                  WindowType
    <2>4. PlainStep
      BY <2>2, <2>3, DescendsSelf DEF PlainStep, SamePurse
    <2>5. TypeInv'
      BY PassTyped DEF WindowInv
    <2> QED BY <2>2, <2>4, <2>5, PlainStepKeeps DEF SamePurse
  <1> QED BY <1>1, <1>2

LEMMA AnswerKeeps ==
    ASSUME WindowInv, NEW f \in DOMAIN frames, Answer(f) \/ Lapse(f)
    PROVE  WindowInv' /\ SamePurse(board', board)
  <1>1. Quiet
    BY DEF Answer, Lapse
  <1>2. CASE ResolveStanding(f)
    BY <1>1, <1>2, ResolveStandingKeeps
  <1>3. CASE \E answer \in AnswerType : ResolveQuestion(f, answer, FALSE)
    BY <1>1, <1>3, ResolveQuestionKeeps
  <1>4. CASE /\ frames[f].win.kind = "confirm"
             /\ \E yes \in BOOLEAN : ResolveQuestion(f, NoAnswer, yes)
    BY <1>1, <1>4, NoAnswerTyped, ResolveQuestionKeeps
  <1>5. /\ \A v \in HornValue : ValueAnswer(v) \in AnswerType
        /\ ValueAnswer(frames[f].win.silent) \in AnswerType
        /\ \A c \in frames[f].win.offers : CardAnswer({c}) \in AnswerType
        /\ CardAnswer({}) \in AnswerType /\ NoAnswer \in AnswerType
    BY NoAnswerTyped, FramesTyped DEF HornValue, WindowInv
  <1> QED BY <1>2, <1>3, <1>4, <1>5 DEF Answer, Lapse

(* A play, paid for, is the only thing on the table. *)
LEMMA PlayOpens ==
    ASSUME WindowInv, TypeInv', Idle, NEW b, NEW win,
           OpenOver(b, win), win.kind \in Standing, SamePurse(board', b),
           UNCHANGED <<stack, settled>>
    PROVE  WindowInv'
  <1>1. DOMAIN frames' = {1} /\ frames'[1].snap = b /\ frames'[1].win = win
    BY DEF OpenOver
  <1>2. DOMAIN stack = {} /\ settled = Nothing
    BY DEF Idle, IsBusy, Quiet
  <1>3. ParkedOnOpenFrame'
    BY <1>2 DEF ParkedOnOpenFrame
  <1>4. OneToken'
    BY <1>1, <1>2 DEF OneToken, Rolling, Offering, Nothing
  <1>5. PricePaid'
    BY <1>1 DEF PricePaid, SamePurse
  <1> QED BY <1>3, <1>4, <1>5 DEF WindowInv

(* What a step may do to the purse. *)
Spends ==
    board'.current = board.current =>
        /\ \A p \in Player : board'.points[p] <= board.points[p]
        /\ board.used \subseteq board'.used

LEMMA PaidSpends ==
    ASSUME TypeInv, NEW p \in Player, NEW cost \in Nat, CanSpend(p, cost)
    PROVE  /\ Paid(p, cost).current = board.current
           /\ Paid(p, cost).used = board.used
           /\ \A q \in Player : Paid(p, cost).points[q] <= board.points[q]
  <1>1. board \in Board /\ \A q \in Player : board.points[q] \in Nat
    BY DEF TypeInv, Board
  <1> QED BY <1>1 DEF Paid, Board

LEMMA PlaysKeep ==
    ASSUME WindowInv, NEW p \in Player, NEW c \in Card,
           PlayHero(p, c) \/ PlayMagic(p, c)
    PROVE  WindowInv' /\ Spends
  <1> DEFINE paid == [Paid(p, 1) EXCEPT !.hand[p] = @ \ {c}]
             win == Window("challenge", p, c)
  <1>1. TypeInv'
    BY PlayTyped DEF WindowInv
  <1>2. /\ CanSpend(p, 1)
        /\ \/ board' = [paid EXCEPT !.heroes[p] = @ \cup {c}]
           \/ board' = [paid EXCEPT !.instance[p] = @ \cup {c}]
        /\ OpenOver(paid, win)
        /\ UNCHANGED <<stack, settled>>
    BY DEF PlayHero, PlayMagic
  <1>3. win.kind \in Standing
    BY DEF Window, Standing
  <1>4. SamePurse(paid, Paid(p, 1)) /\ paid \in Board
    <2>1. Paid(p, 1) \in Board
      BY <1>2, PaidTyped DEF WindowInv
    <2> QED BY <2>1 DEF SamePurse, Board
  <1> HIDE DEF paid, win
  <1>5. SamePurse(board', paid)
    <2>1. CASE board' = [paid EXCEPT !.heroes[p] = @ \cup {c}]
      BY <1>4, <2>1 DEF SamePurse, Board
    <2>2. CASE board' = [paid EXCEPT !.instance[p] = @ \cup {c}]
      BY <1>4, <2>2 DEF SamePurse, Board
    <2> QED BY <1>2, <2>1, <2>2
  <1>6. WindowInv'
    BY <1>1, <1>2, <1>3, <1>5, PlayOpens DEF CanSpend
  <1>7. Spends
    BY <1>2, <1>4, <1>5, PaidSpends DEF Spends, SamePurse, WindowInv
  <1> QED BY <1>6, <1>7

LEMMA AttackKeeps ==
    ASSUME WindowInv, NEW p \in Player, NEW m \in Monster, AttackMonster(p, m)
    PROVE  WindowInv' /\ Spends
  <1>1. TypeInv'
    BY AttackTyped DEF WindowInv
  <1>2. CanSpend(p, 2) /\ board' = Paid(p, 2) /\ UNCHANGED <<stack, settled>>
    BY DEF AttackMonster
  <1>3. PICK d \in Margin :
            OpenOver(board', [Window("attack", p, m) EXCEPT !.margin = d])
    BY DEF AttackMonster
  <1> DEFINE win == [Window("attack", p, m) EXCEPT !.margin = d]
  <1>4. win.kind \in Standing
    BY DEF Window, Standing
  <1>5. OpenOver(board', win)
    BY <1>3
  <1> HIDE DEF win
  <1>6. SamePurse(board', board')
    BY DEF SamePurse
  <1>7. WindowInv'
    BY <1>1, <1>2, <1>4, <1>5, <1>6, PlayOpens DEF CanSpend
  <1>8. Spends
    BY <1>2, PaidSpends DEF Spends, WindowInv
  <1> QED BY <1>7, <1>8

LEMMA RollOnHeroKeeps ==
    ASSUME WindowInv, NEW p \in Player, NEW h \in Card, RollOnHero(p, h)
    PROVE  WindowInv' /\ Spends
  <1> USE DEF WindowInv
  <1>1. TypeInv'
    BY RollOnHeroTyped
  <1>2. /\ CanSpend(p, 1) /\ OpenRoll(Paid(p, 1), stack, 0, 1, p, h)
        /\ UNCHANGED settled
    BY DEF RollOnHero
  <1>3. DOMAIN stack = {} /\ DOMAIN frames = {} /\ settled = Nothing
    BY <1>2 DEF CanSpend, Idle, IsBusy, Quiet
  <1>4. /\ board' = [Paid(p, 1) EXCEPT !.used = @ \cup {h}]
        /\ DOMAIN frames' = {1}
        /\ frames'[1].snap = board' /\ frames'[1].win.kind = "roll"
        /\ Descends(stack', stack)
    <2>1. Paid(p, 1) \in Board /\ GoodStack(stack)
      BY <1>2, PaidTyped DEF TypeInv
    <2>2. 0 \in DOMAIN stack \cup {0} /\ IsNewest(0, DOMAIN stack)
      BY <1>3 DEF IsNewest
    <2>3. Descends(stack', stack)
      BY <1>2, <2>1, <2>2, OpenRollOpens
    <2>4. PICK m \in Margin :
            /\ board' = [Paid(p, 1) EXCEPT !.used = @ \cup {h}]
            /\ frames' = [g \in DOMAIN frames \cup {1} |->
                  IF g = 1 THEN [snap |-> board', win |-> RollWindow(p, h, m)]
                  ELSE frames[g]]
      BY <1>2 DEF OpenRoll
    <2>5. RollWindow(p, h, m).kind = "roll"
      BY DEF RollWindow, Window
    <2>6. /\ DOMAIN frames' = {1}
          /\ frames'[1] = [snap |-> board', win |-> RollWindow(p, h, m)]
      BY <1>3, <2>4
    <2> QED BY <2>3, <2>4, <2>5, <2>6
  <1>5. ParkedOnOpenFrame'
    BY <1>3, <1>4 DEF ParkedOnOpenFrame, Descends
  <1>6. Offering(stack') = {} /\ Rolling(frames') \subseteq {1}
    BY <1>3, <1>4 DEF Offering, Descends, Rolling
  <1>7. OneToken'
    BY <1>2, <1>3, <1>6 DEF OneToken, Nothing
  <1>8. PricePaid'
    BY <1>4 DEF PricePaid, SamePurse
  <1>9. Spends
    BY <1>2, <1>4, PaidSpends DEF Spends
  <1> QED BY <1>1, <1>5, <1>7, <1>8, <1>9

LEMMA TurnKeeps ==
    ASSUME WindowInv, NEW p \in Player, DrawCard(p) \/ EndTurn(p)
    PROVE  WindowInv' /\ Spends
  <1> USE DEF WindowInv
  <1>1. TypeInv'
    BY TurnTyped
  <1>2. /\ Idle /\ p = board.current
        /\ UNCHANGED <<frames, stack, settled>>
    BY DEF DrawCard, EndTurn, CanSpend
  <1>3. DOMAIN frames = {} /\ DOMAIN stack = {}
    BY <1>2 DEF Idle, IsBusy
  <1>4. ParkedOnOpenFrame' /\ OneToken' /\ PricePaid'
    BY <1>2, <1>3 DEF ParkedOnOpenFrame, OneToken, PricePaid
  <1>5. CASE DrawCard(p)
    <2>1. CanSpend(p, 1) /\ board' \in Drawn(Paid(p, 1), p)
      BY <1>5 DEF DrawCard
    <2>2. SamePurse(board', Paid(p, 1))
      BY <2>1, PurseKeptByDraw
    <2>3. Spends
      BY <2>1, <2>2, PaidSpends DEF Spends, SamePurse
    <2> QED BY <1>1, <1>4, <2>3
  <1>6. CASE EndTurn(p)
    <2>1. board'.current = NextSeat[p] /\ NextSeat[p] # p
      BY <1>6, ConstantsAssumption DEF EndTurn, TypeInv, Board
    <2>2. Spends
      BY <1>2, <2>1 DEF Spends
    <2> QED BY <1>1, <1>4, <2>2
  <1> QED BY <1>5, <1>6

-----------------------------------------------------------------------------
LEMMA SameSpends ==
    ASSUME TypeInv, SamePurse(board', board)
    PROVE  Spends
  <1>1. \A p \in Player : board.points[p] \in Nat
    BY DEF TypeInv, Board
  <1> QED BY <1>1 DEF Spends, SamePurse

LEMMA RunStepKeeps ==
    ASSUME WindowInv, RunStep
    PROVE  WindowInv' /\ Spends
  <1> USE DEF WindowInv
  <1>1. TypeInv'
    BY RunStepTyped
  <1>2. PICK t \in DOMAIN stack :
          \/ AskHand(t) \/ AskAnyHero(t) \/ AskOwnHero(t) \/ AskValue(t)
          \/ AskDraw(t) \/ AskRoll(t) \/ Draw(t) \/ Discard(t) \/ Destroy(t)
          \/ Sacrifice(t) \/ Dispose(t) \/ Start(t) \/ Apply(t) \/ Land(t)
          \/ Roll(t) \/ Finish(t)
    BY DEF RunStep
  <1>3. CASE \/ AskHand(t) \/ AskAnyHero(t) \/ AskOwnHero(t) \/ AskValue(t)
             \/ AskDraw(t) \/ AskRoll(t)
    <2>1. UNCHANGED board
      BY <1>3 DEF AskHand, AskAnyHero, AskOwnHero, AskValue, AskDraw, AskRoll,
                  Confirm, Ask
    <2> QED BY <1>3, <2>1, QuestionsKeep, SameSpends DEF SamePurse
  <1>4. CASE \/ Draw(t) \/ Discard(t) \/ Destroy(t) \/ Sacrifice(t)
             \/ Dispose(t) \/ Start(t) \/ Land(t) \/ Apply(t) \/ Finish(t)
    <2>1. PlainStep
      BY <1>4, EffectsPlain, WindowStepsPlain, ApplyPlain, FinishPlain
    <2> QED BY <1>1, <2>1, PlainStepKeeps, SameSpends DEF PlainStep
  <1>5. CASE Roll(t)
    <2>1. WindowInv' /\ board' = [board EXCEPT !.used = @ \cup {stack[t].card}]
      BY <1>5, RollKeeps
    <2>2. \A p \in Player : board.points[p] \in Nat
      BY DEF TypeInv, Board
    <2>3. Spends
      BY <2>1, <2>2 DEF Spends, TypeInv, Board
    <2> QED BY <2>1, <2>3
  <1> QED BY <1>2, <1>3, <1>4, <1>5

LEMMA CommandKeeps ==
    ASSUME WindowInv, Command
    PROVE  WindowInv' /\ Spends
  <1> USE DEF WindowInv
  <1>1. TypeInv'
    BY CommandTyped
  <1>2. ASSUME NEW p \in Player
        PROVE  /\ board.hand[p] \subseteq Card /\ board.heroes[p] \subseteq Card
               /\ board.row \subseteq Monster
    BY DEF TypeInv, Board
  <1>3. CASE \E p \in Player, c \in Card : PlayHero(p, c) \/ PlayMagic(p, c)
    BY <1>3, PlaysKeep
  <1>4. CASE \E p \in Player, h \in Card : RollOnHero(p, h)
    BY <1>4, RollOnHeroKeeps
  <1>5. CASE \E p \in Player, m \in Monster : AttackMonster(p, m)
    BY <1>5, AttackKeeps
  <1>6. CASE \E p \in Player : DrawCard(p) \/ EndTurn(p)
    BY <1>6, TurnKeeps
  <1>7. CASE \E p \in Player, f \in DOMAIN frames, c \in Card :
                 \/ PlayChallenge(p, c, f)
                 \/ \E v \in ModifierValue, seat \in Player :
                        PlayModifier(p, c, v, f, seat)
    <2>1. PlainStep
      BY <1>7, SpendsPlain
    <2> QED BY <1>1, <2>1, PlainStepKeeps, SameSpends DEF PlainStep
  <1>8. CASE \E p \in Player, f \in DOMAIN frames : Pass(p, f)
    BY <1>8, PassKeeps, SameSpends
  <1>9. CASE \E f \in DOMAIN frames : Answer(f)
    BY <1>9, AnswerKeeps, SameSpends
  <1> QED
    BY <1>2, <1>3, <1>4, <1>5, <1>6, <1>7, <1>8, <1>9 DEF Command

LEMMA InitWindows == Init => WindowInv
  BY InitTyped DEF Init, WindowInv, ParkedOnOpenFrame, OneToken, PricePaid,
                   Rolling, Offering

LEMMA NextWindows == WindowInv /\ [Next]_vars => WindowInv' /\ [Spends]_vars
  <1> SUFFICES ASSUME WindowInv, [Next]_vars PROVE WindowInv' /\ [Spends]_vars
    OBVIOUS
  <1>1. CASE RunStep
    BY <1>1, RunStepKeeps
  <1>2. CASE Announce
    <2>1. WindowInv' /\ UNCHANGED board
      BY <1>2, AnnounceKeeps DEF Announce
    <2> QED BY <2>1, SameSpends DEF SamePurse, WindowInv
  <1>3. CASE Command
    BY <1>3, CommandKeeps
  <1>4. CASE \E f \in DOMAIN frames : Lapse(f)
    BY <1>4, AnswerKeeps, SameSpends DEF WindowInv
  <1>5. CASE UNCHANGED vars
    <2>1. TypeInv'
      BY <1>5, NextTyped DEF WindowInv
    <2> QED BY <1>5, <2>1 DEF vars, WindowInv, ParkedOnOpenFrame, OneToken,
                              PricePaid, Rolling, Offering
  <1> QED BY <1>1, <1>2, <1>3, <1>4, <1>5 DEF Next

(* The windows' invariant: at most one token, nothing parked on a frame     *)
(* that is gone, and every board a rollback could restore already paid for. *)
THEOREM WindowsSound == Spec => []WindowInv
  BY InitWindows, NextWindows, PTL DEF Spec

(* No wake-up is lost, on any table (task-manager.ts pauseOn and onEvent):  *)
(* what a pipeline is parked on can still settle, or is being announced.    *)
THEOREM NoWakeUpLost == Spec => []ParkedOnOpenFrame
  <1>1. WindowInv => ParkedOnOpenFrame
    BY DEF WindowInv
  <1> QED BY <1>1, WindowsSound, PTL

(* Two rolls or contests never stand at once, on any table, although        *)
(* nothing in the engine checks it (game-state.ts findOpenModifiableWindow  *)
(* takes the first it finds).                                               *)
THEOREM OneAtATime == Spec => []OneStandingWindow
  <1>1. WindowInv => OneStandingWindow
    BY DEF WindowInv, OneToken, Rolling, OneStandingWindow, IsStanding
  <1> QED BY <1>1, WindowsSound, PTL

(* No rollback refunds a price, on any table: action points and the marks   *)
(* on heroes survive every failed roll and every lost contest.              *)
THEOREM PricesStand == Spec => NothingRefunded
  <1>1. WindowInv /\ [Next]_vars => [Spends]_vars
    BY NextWindows
  <1> QED BY <1>1, WindowsSound, PTL DEF Spec, NothingRefunded, Spends

=============================================================================
