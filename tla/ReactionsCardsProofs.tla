------------------------- MODULE ReactionsCardsProofs -------------------------
(***************************************************************************)
(* What becomes of the cards that are played, on any table.  A step finds   *)
(* the slot it reads filled, a bonus finds its roll open, a roll that       *)
(* succeeds has its target, every card is in one place, and a rollback      *)
(* hands back the cards that were spent.                                    *)
(***************************************************************************)
EXTENDS ReactionsProofs, Induction, FiniteSetTheorems

-----------------------------------------------------------------------------
(* What a step waits for.  A step that reads a slot comes right after the   *)
(* question that fills it, or its pipeline was seeded when it was made.  A  *)
(* bonus on its way, and a target a roll has asked for, lie on the stack    *)
(* OVER the window they are meant for: whatever is parked at or above them  *)
(* is parked on a later frame.  So the engine cannot be quiet with nothing  *)
(* open after that window while they are on their way, and a window with    *)
(* something open after it does not settle.                                 *)

StepsOf(run) == {run.steps[i] : i \in DOMAIN run.steps}
Reads == {"Discard", "Destroy", "Sacrifice"}
Picks == {"AskHand", "AskAnyHero", "AskOwnHero"}

ReadsNext(run) == run.steps # <<>> /\ Head(run.steps) \in Reads

ReadsWhatItAsked(run) ==
    \A i \in DOMAIN run.steps :
        i > 1 /\ run.steps[i] \in Reads => run.steps[i - 1] \in Picks

SlotIsComing(run) ==
    \/ run.fed
    \/ run.on \in DOMAIN frames /\ frames[run.on].win.kind = "card"
    \/ run.on # NoFrame /\ run.on = settled.frame /\ settled.answer.slot = "pick"

SlotsFilled ==
    \A t \in DOMAIN stack :
        ReadsWhatItAsked(stack[t]) /\ (ReadsNext(stack[t]) => SlotIsComing(stack[t]))

Over(t, f) ==
    \A u \in DOMAIN stack :
        u >= t /\ stack[u].on # NoFrame => stack[u].on > f

BonusOver ==
    \A t \in DOMAIN stack :
        "Apply" \in StepsOf(stack[t]) =>
            \E f \in DOMAIN frames :
                IsStanding(f) /\ AcceptsModifierFor(f, stack[t].seat) /\ Over(t, f)

InAParty(b, h) == \E p \in Player : h \in b.heroes[p]

TargetOver ==
    \A f \in DOMAIN frames :
        LET win == frames[f].win IN
        win.kind = "roll" =>
            /\ win.margin >= 0 => win.asked
            /\ win.asked /\ win.about \in TargetHero /\ InAParty(board, win.about) =>
                 win.aimed \/ \E t \in DOMAIN stack :
                                 "Land" \in StepsOf(stack[t]) /\ Over(t, f)

StackEnds == \E n \in Nat : \A t \in DOMAIN stack : t <= n

FeedInv ==
    /\ WindowInv
    /\ StackEnds /\ settled.frame \notin DOMAIN frames
    /\ SlotsFilled /\ BonusOver /\ TargetOver

(* What is new on the stack is ready: parked nowhere, and what it reads     *)
(* first it brings along.  What is mute brings no bonus either.             *)
ReadyPipeline ==
    {run \in GoodPipeline :
        run.on = NoFrame /\ ReadsWhatItAsked(run) /\ (ReadsNext(run) => run.fed)}
MutePipeline == {run \in ReadyPipeline : "Apply" \notin StepsOf(run)}

-----------------------------------------------------------------------------
(* Pipelines, new and gone on *)

SafeSteps(steps) ==
    /\ steps \in Seq(StepName)
    /\ \A i \in DOMAIN steps :
          /\ i > 1 /\ steps[i] \in Reads => steps[i - 1] \in Picks
          /\ i = 1 => steps[i] \notin Reads
MuteSteps(steps) == \A i \in DOMAIN steps : steps[i] # "Apply"

LEMMA SafePrograms ==
    /\ SafeSteps(<<"Apply">>) /\ SafeSteps(<<"Start">>) /\ SafeSteps(<<"Draw">>)
    /\ SafeSteps(<<"Dispose">>) /\ SafeSteps(<<"AskDraw">>)
    /\ SafeSteps(<<"AskRoll">>) /\ SafeSteps(<<"Roll">>)
    /\ SafeSteps(<<"AskAnyHero", "Land">>) /\ SafeSteps(<<"AskValue", "Apply">>)
    /\ SafeSteps(<<"AskHand", "Discard">>) /\ SafeSteps(<<"AskOwnHero", "Sacrifice">>)
    /\ SafeSteps(<<"AskHand", "Discard", "AskAnyHero", "Destroy">>)
  BY StepsTyped DEF SafeSteps, Reads, Picks

(* The programs that bring no bonus, and ask for no roll and no draw. *)
MuteProgram(steps) == Plain(steps) /\ SafeSteps(steps) /\ MuteSteps(steps)

LEMMA MutePrograms ==
    /\ MuteProgram(<<"Start">>) /\ MuteProgram(<<"Draw">>)
    /\ MuteProgram(<<"Dispose">>) /\ MuteProgram(<<"AskAnyHero", "Land">>)
    /\ MuteProgram(<<"AskHand", "Discard">>)
    /\ MuteProgram(<<"AskOwnHero", "Sacrifice">>)
    /\ MuteProgram(<<"AskHand", "Discard", "AskAnyHero", "Destroy">>)
    /\ MuteSteps(<<"AskDraw">>) /\ MuteSteps(<<"AskRoll">>) /\ MuteSteps(<<"Roll">>)
  BY PlainSteps, SafePrograms DEF MuteProgram, MuteSteps

(* Whatever a pipeline's seat, slots and mark: its steps decide. *)
LEMMA ReadyBySteps ==
    ASSUME NEW run \in GoodPipeline, run.on = NoFrame, SafeSteps(run.steps)
    PROVE  /\ run \in ReadyPipeline
           /\ MuteSteps(run.steps) => run \in MutePipeline
  <1>1. ~ReadsNext(run)
    BY DEF SafeSteps, ReadsNext
  <1> QED BY <1>1 DEF ReadyPipeline, MutePipeline, ReadsWhatItAsked, SafeSteps,
                      MuteSteps, StepsOf

LEMMA HeadAndTail ==
    ASSUME NEW S, NEW s \in Seq(S), s # <<>>
    PROVE  /\ Len(s) \in Nat /\ Len(s) >= 1 /\ DOMAIN s = 1..Len(s)
           /\ Head(s) = s[1] /\ Tail(s) \in Seq(S)
           /\ DOMAIN Tail(s) = 1..(Len(s) - 1)
           /\ \A i \in 1..(Len(s) - 1) : Tail(s)[i] = s[i + 1]
           /\ Tail(s) # <<>> => Len(s) > 1 /\ Head(Tail(s)) = s[2]
  <1>1. /\ Len(s) \in Nat /\ Len(s) >= 1 /\ DOMAIN s = 1..Len(s)
        /\ Head(s) = s[1] /\ Tail(s) \in Seq(S)
        /\ DOMAIN Tail(s) = 1..(Len(s) - 1)
        /\ \A i \in 1..(Len(s) - 1) : Tail(s)[i] = s[i + 1]
    OBVIOUS
  <1>2. Tail(s) # <<>> => Len(s) > 1
    <2>1. Len(Tail(s)) = Len(s) - 1
      OBVIOUS
    <2> QED BY <1>1, <2>1
  <1>3. Tail(s) # <<>> => Head(Tail(s)) = Tail(s)[1]
    BY <1>1
  <1>4. Len(s) > 1 => Tail(s)[1] = s[2]
    BY <1>1
  <1> QED BY <1>1, <1>2, <1>3, <1>4

(* A step on: what is left was there, and what it reads now it has asked.   *)
LEMMA StepOn ==
    ASSUME TypeInv, SlotsFilled, NEW t \in DOMAIN stack, stack[t].steps # <<>>
    PROVE  LET old == stack[t]  new == Advanced(t)[t] IN
           /\ DOMAIN Advanced(t) = DOMAIN stack
           /\ \A u \in DOMAIN stack \ {t} : Advanced(t)[u] = stack[u]
           /\ new \in GoodPipeline
           /\ new.on = old.on /\ new.seat = old.seat /\ new.fed = old.fed
           /\ new.owner = old.owner /\ new.card = old.card /\ new.system = old.system
           /\ new.steps = Tail(old.steps)
           /\ StepsOf(new) \subseteq StepsOf(old)
           /\ \A s \in StepsOf(old) : s = Head(old.steps) \/ s \in StepsOf(new)
           /\ Head(old.steps) \in StepsOf(old)
           /\ ReadsWhatItAsked(new)
           /\ ReadsNext(new) => Head(old.steps) \in Picks
  <1> DEFINE old == stack[t]
             new == Advanced(t)[t]
  <1>1. old \in GoodPipeline /\ old.steps \in Seq(StepName) /\ ReadsWhatItAsked(old)
    BY StackTyped DEF SlotsFilled
  <1>2. /\ DOMAIN Advanced(t) = DOMAIN stack /\ GoodStack(Advanced(t))
        /\ \A u \in DOMAIN stack \ {t} : Advanced(t)[u] = stack[u]
        /\ new = [old EXCEPT !.steps = Tail(@)]
    BY AdvancedTyped DEF Advanced
  <1>3. /\ new.on = old.on /\ new.seat = old.seat /\ new.fed = old.fed
        /\ new.owner = old.owner /\ new.card = old.card /\ new.system = old.system
        /\ new.steps = Tail(old.steps)
    BY <1>1, <1>2 DEF GoodPipeline, PipelineType
  <1>4. new \in GoodPipeline
    BY <1>2 DEF GoodStack
  <1> HIDE DEF old, new
  <1>5. old.steps # <<>>
    BY DEF old
  <1>6. /\ Len(old.steps) \in Nat /\ Len(old.steps) >= 1
        /\ DOMAIN old.steps = 1..Len(old.steps)
        /\ Head(old.steps) = old.steps[1]
        /\ DOMAIN new.steps = 1..(Len(old.steps) - 1)
        /\ \A i \in 1..(Len(old.steps) - 1) : new.steps[i] = old.steps[i + 1]
        /\ new.steps # <<>> => Len(old.steps) > 1 /\ Head(new.steps) = old.steps[2]
    BY <1>1, <1>3, <1>5, HeadAndTail
  <1>7. ASSUME NEW i \in DOMAIN new.steps
        PROVE  /\ i \in Nat \ {0} /\ i + 1 \in DOMAIN old.steps
               /\ new.steps[i] = old.steps[i + 1]
    BY <1>6
  <1>8. StepsOf(new) \subseteq StepsOf(old) /\ Head(old.steps) \in StepsOf(old)
    <2>1. StepsOf(new) \subseteq StepsOf(old)
      BY <1>7 DEF StepsOf
    <2>2. 1 \in DOMAIN old.steps
      BY <1>6
    <2> QED BY <1>6, <2>1, <2>2 DEF StepsOf
  <1>9. ASSUME NEW s \in StepsOf(old), s # Head(old.steps) PROVE s \in StepsOf(new)
    <2>1. PICK i \in DOMAIN old.steps : s = old.steps[i]
      BY DEF StepsOf
    <2>2. i - 1 \in DOMAIN new.steps /\ new.steps[i - 1] = s
      BY <1>6, <1>9, <2>1
    <2> QED BY <2>2 DEF StepsOf
  <1>10. ReadsWhatItAsked(new)
    <2> SUFFICES ASSUME NEW i \in DOMAIN new.steps, i > 1, new.steps[i] \in Reads
                 PROVE  new.steps[i - 1] \in Picks
      BY DEF ReadsWhatItAsked
    <2>1. i - 1 \in DOMAIN new.steps /\ i + 1 > 1 /\ (i + 1) - 1 = i /\ (i - 1) + 1 = i
      BY <1>6
    <2>2. old.steps[(i + 1) - 1] \in Picks
      BY <1>1, <1>7, <2>1 DEF ReadsWhatItAsked
    <2> QED BY <1>7, <2>1, <2>2
  <1>11. ReadsNext(new) => Head(old.steps) \in Picks
    <2> SUFFICES ASSUME ReadsNext(new) PROVE old.steps[1] \in Picks
      BY <1>6
    <2>1. 2 \in DOMAIN old.steps /\ old.steps[2] \in Reads
      BY <1>6 DEF ReadsNext
    <2>2. old.steps[2 - 1] \in Picks
      BY <1>1, <2>1 DEF ReadsWhatItAsked
    <2> QED BY <2>2
  <1> QED BY <1>2, <1>3, <1>4, <1>8, <1>9, <1>10, <1>11 DEF old, new

-----------------------------------------------------------------------------
(* What an event sets off is ready, and mute unless a modifier was played.  *)

LEMMA MadeMute ==
    ASSUME NEW card \in Source, NEW owner \in Player, NEW steps, MuteProgram(steps)
    PROVE  Pipeline(card, owner, steps) \in MutePipeline
  <1>1. Pipeline(card, owner, steps) \in GoodPipeline
    BY PipelineTyped, PlainIsGood DEF MuteProgram
  <1>2. /\ Pipeline(card, owner, steps).on = NoFrame
        /\ Pipeline(card, owner, steps).steps = steps
    BY DEF Pipeline
  <1> QED BY <1>1, <1>2, ReadyBySteps DEF MuteProgram

LEMMA SerpentMute ==
    ASSUME NEW owner \in Player
    PROVE  Pipeline(Serpent, owner, <<"AskDraw">>) \in MutePipeline
  <1> DEFINE run == Pipeline(Serpent, owner, <<"AskDraw">>)
  <1>1. run \in GoodPipeline /\ run.on = NoFrame /\ run.steps = <<"AskDraw">>
    BY SerpentPipelineTyped, PlainIsGood DEF Pipeline, PlainPipeline, FreshPipeline
  <1> HIDE DEF run
  <1>2. SafeSteps(run.steps) /\ MuteSteps(run.steps)
    BY <1>1, SafePrograms, MutePrograms
  <1>3. run \in MutePipeline
    BY <1>1, <1>2, ReadyBySteps
  <1> QED BY <1>3 DEF run

LEMMA MuteSlots ==
    ASSUME NEW run \in MutePipeline
    PROVE  /\ \A seat \in Player : [run EXCEPT !.seat = seat] \in MutePipeline
           /\ [run EXCEPT !.system = TRUE] \in GoodPipeline =>
                  [run EXCEPT !.system = TRUE] \in MutePipeline
  BY DEF MutePipeline, ReadyPipeline, GoodPipeline, PipelineType, RollsAHero,
         ReadsWhatItAsked, ReadsNext, StepsOf

LEMMA OfferMute ==
    ASSUME NEW h \in Hero, NEW owner \in Player,
           NEW steps \in {<<"AskRoll">>, <<"Roll">>}
    PROVE  [Pipeline(h, owner, steps) EXCEPT !.system = TRUE] \in MutePipeline
  <1> DEFINE run == [Pipeline(h, owner, steps) EXCEPT !.system = TRUE]
  <1>1. run \in GoodPipeline
    BY HeroPipelineTyped, PlainIsGood
  <1>2. run.on = NoFrame /\ run.steps = steps
    BY DEF Pipeline
  <1> HIDE DEF run
  <1>3. SafeSteps(run.steps) /\ MuteSteps(run.steps)
    BY <1>2, SafePrograms, MutePrograms
  <1>4. run \in MutePipeline
    BY <1>1, <1>2, <1>3, ReadyBySteps
  <1> QED BY <1>4 DEF run

LEMMA RollPassingMute ==
    ASSUME NEW b \in Board, NEW h, NEW run \in RollPassingRuns(b, h)
    PROVE  /\ run \in Seq(MutePipeline)
           /\ h \in TargetHero /\ InAParty(b, h) =>
                  \E p \in Player : run = <<Pipeline(h, p, <<"AskAnyHero", "Land">>)>>
  <1>1. h \in TargetHero /\ InAParty(b, h) =>
            \E p \in Player : run = <<Pipeline(h, p, <<"AskAnyHero", "Land">>)>>
    BY DEF RollPassingRuns, InAParty
  <1>2. ASSUME run # <<>> PROVE run \in Seq(MutePipeline)
    <2>1. PICK p \in Player : run = <<Pipeline(h, p, <<"AskAnyHero", "Land">>)>>
      BY <1>2 DEF RollPassingRuns
    <2>2. h \in Source
      BY <1>2, ConstantsAssumption DEF RollPassingRuns, Source, Card
    <2>3. Pipeline(h, p, <<"AskAnyHero", "Land">>) \in MutePipeline
      BY <2>2, MutePrograms, MadeMute
    <2> QED BY <2>1, <2>3
  <1>3. CASE run = <<>>
    BY <1>1, <1>3
  <1> QED BY <1>1, <1>2, <1>3

(* The effect of a roll comes seeded with its target, or comes not at all.  *)
LEMMA RollSuccessMute ==
    ASSUME NEW b \in Board, NEW win \in GoodWindow,
           win.about \in TargetHero /\ InAParty(b, win.about) => win.aimed,
           NEW run \in RollSuccessRuns(b, win)
    PROVE  run \in Seq(MutePipeline)
  <1>1. CASE run = <<>>
    BY <1>1
  <1>2. CASE run # <<>>
    <2>1. PICK p \in Player :
              run = <<[Pipeline(win.about, p, <<"Destroy">>)
                         EXCEPT !.fed = win.aimed, !.pick = win.target]>>
      BY <1>2 DEF RollSuccessRuns
    <2>2. win.aimed = TRUE /\ win.about \in Source /\ win.target \in SUBSET Card
      BY <1>2 DEF RollSuccessRuns, InAParty, GoodWindow, WindowType
    <2> DEFINE one == Pipeline(win.about, p, <<"Destroy">>)
               two == [one EXCEPT !.fed = win.aimed, !.pick = win.target]
    <2>3. one \in PlainPipeline /\ one.steps = <<"Destroy">>
      BY <2>2, PlainSteps, PipelineTyped DEF Pipeline
    <2> HIDE DEF one
    <2>4. two \in GoodPipeline /\ two.on = NoFrame /\ two.steps = <<"Destroy">> /\ two.fed
      BY <2>2, <2>3, PlainSlots, PlainIsGood
         DEF PlainPipeline, FreshPipeline, GoodPipeline, PipelineType
    <2> HIDE DEF two
    <2>5. two \in MutePipeline
      BY <2>4 DEF MutePipeline, ReadyPipeline, ReadsWhatItAsked, ReadsNext, StepsOf
    <2> QED BY <2>1, <2>5 DEF one, two
  <1> QED BY <1>1, <1>2

(* A modifier's runs all carry the seat it was played for. *)
LEMMA ModifierPlayedReady ==
    ASSUME NEW p \in Player, NEW c \in Card, NEW v \in Int, NEW seat \in Player,
           NEW run \in ModifierPlayedRuns(p, c, v, seat)
    PROVE  run \in Seq({r \in ReadyPipeline : "Apply" \in StepsOf(r) => r.seat = seat})
  <1> DEFINE For == {r \in ReadyPipeline : "Apply" \in StepsOf(r) => r.seat = seat}
             one == Pipeline(c, p, <<"Apply">>)
             two == Pipeline(Horn, p, <<"AskValue", "Apply">>)
             mine == [one EXCEPT !.seat = seat, !.value = v]
             ask  == [two EXCEPT !.seat = seat, !.value = v]
             own  == <<mine>>
             blown == IF p \in HornSeat THEN <<ask>> ELSE <<>>
             holders == {q \in Player : Serpent \in board.slain[q]}
             serpents == IF holders = {} THEN {<<>>}
                         ELSE {<<Pipeline(Serpent, q, <<"AskDraw">>)>> :
                                  q \in holders}
  <1>1. /\ one \in PlainPipeline /\ one.steps = <<"Apply">>
        /\ two \in PlainPipeline /\ two.steps = <<"AskValue", "Apply">>
    BY PlainSteps, PipelineTyped DEF Source, Pipeline
  <1> HIDE DEF one, two
  <1>2. /\ mine \in PlainPipeline /\ mine.steps = <<"Apply">> /\ mine.seat = seat
        /\ ask \in PlainPipeline /\ ask.steps = <<"AskValue", "Apply">> /\ ask.seat = seat
    BY <1>1, PlainSlots DEF PlainPipeline, FreshPipeline, GoodPipeline, PipelineType
  <1> HIDE DEF mine, ask
  <1>3. mine \in For /\ ask \in For
    BY <1>2, SafePrograms, ReadyBySteps DEF PlainPipeline, FreshPipeline
  <1>4. \A q \in Player : Pipeline(Serpent, q, <<"AskDraw">>) \in For
    <2> TAKE q \in Player
    <2>1. Pipeline(Serpent, q, <<"AskDraw">>) \in MutePipeline
      BY SerpentMute
    <2> QED BY <2>1 DEF MutePipeline
  <1>5. run \in UNION {{own \o blown \o s, own \o s \o blown} : s \in serpents}
    BY DEF ModifierPlayedRuns, mine, ask, one, two
  <1> HIDE DEF For
  <1>6. own \in Seq(For) /\ blown \in Seq(For) /\ \A s \in serpents : s \in Seq(For)
    <2>1. own \in Seq(For) /\ blown \in Seq(For)
      BY <1>3
    <2>2. ASSUME NEW s \in serpents PROVE s \in Seq(For)
      <3>1. CASE s = <<>>
        BY <3>1
      <3>2. CASE s # <<>>
        <4>1. PICK q \in Player : s = <<Pipeline(Serpent, q, <<"AskDraw">>)>>
          BY <3>2
        <4>2. Pipeline(Serpent, q, <<"AskDraw">>) \in For
          BY <1>4
        <4> QED BY <4>1, <4>2
      <3> QED BY <3>1, <3>2
    <2> QED BY <2>1, <2>2
  <1> HIDE DEF own, blown, serpents
  <1>7. PICK s \in serpents : run \in {own \o blown \o s, own \o s \o blown}
    BY <1>5
  <1>8. own \o blown \in Seq(For) /\ own \o s \in Seq(For) /\ s \in Seq(For)
    BY <1>6, <1>7, ConcatProperties
  <1>9. own \o blown \o s \in Seq(For) /\ own \o s \o blown \in Seq(For)
    BY <1>6, <1>8, ConcatProperties
  <1> QED BY <1>7, <1>9 DEF For

LEMMA ChallengePlayedMute ==
    ASSUME NEW p \in Player, NEW c \in Card, NEW defender \in Player
    PROVE  ChallengePlayedRuns(p, c, defender) \in Seq(MutePipeline)
  <1> DEFINE one == Pipeline(c, p, <<"Start">>)
             two == Pipeline(Bloodwing, defender, <<"AskHand", "Discard">>)
             bite == [two EXCEPT !.seat = p]
             rest == IF Bloodwing \in board.slain[defender] THEN <<bite>> ELSE <<>>
  <1>1. one \in MutePipeline /\ two \in MutePipeline
    <2>1. c \in Source /\ Bloodwing \in Source
      BY DEF Source
    <2> QED BY <2>1, MutePrograms, MadeMute
  <1> HIDE DEF one, two
  <1>2. bite \in MutePipeline
    BY <1>1, MuteSlots
  <1> HIDE DEF bite
  <1>3. <<one>> \in Seq(MutePipeline) /\ rest \in Seq(MutePipeline)
    BY <1>1, <1>2
  <1>4. ChallengePlayedRuns(p, c, defender) = <<one>> \o rest
    BY DEF ChallengePlayedRuns, one, two, bite
  <1> HIDE DEF rest
  <1> QED BY <1>3, <1>4, ConcatProperties

LEMMA FrameResolvedMute ==
    ASSUME NEW b \in Board, NEW cards \in SUBSET Source,
           NEW run \in FrameResolvedRuns(b, cards)
    PROVE  run \in Seq(MutePipeline)
  <1> DEFINE effect(c, p) == Pipeline(c, p, <<"AskHand", "Discard",
                                              "AskAnyHero", "Destroy">>)
             offer(c, p) == [Pipeline(c, p, <<"AskRoll">>) EXCEPT !.system = TRUE]
  <1>1. /\ \A c \in Source, p \in Player : effect(c, p) \in MutePipeline
        /\ \A c \in Hero, p \in Player : offer(c, p) \in MutePipeline
    BY MutePrograms, MadeMute, OfferMute
  <1>2. run = <<>> \/ \E c \in cards, p \in Player :
            \/ run = <<effect(c, p)>>
            \/ c \in Hero /\ run = <<offer(c, p)>>
    BY DEF FrameResolvedRuns
  <1> HIDE DEF effect, offer
  <1>3. CASE run = <<>>
    BY <1>3
  <1>4. CASE run # <<>>
    <2>1. PICK c \in cards, p \in Player :
              run = <<effect(c, p)>> \/ (c \in Hero /\ run = <<offer(c, p)>>)
      BY <1>2, <1>4
    <2>2. effect(c, p) \in MutePipeline /\ (c \in Hero => offer(c, p) \in MutePipeline)
      BY <1>1
    <2>3. PICK r \in MutePipeline : run = <<r>>
      BY <2>1, <2>2
    <2> QED BY <2>3
  <1> QED BY <1>3, <1>4

LEMMA TaskConfirmedMute ==
    ASSUME NEW b, NEW win \in GoodWindow, win.kind = "confirm"
    PROVE  TaskConfirmedRun(b, win) \in Seq(MutePipeline)
  <1>1. win.by \in Player /\ win.about \in Hero \cup {Serpent}
    BY DEF GoodWindow, WindowType, AboutItsKind
  <1>2. Pipeline(Serpent, win.by, <<"Draw">>) \in MutePipeline
    BY <1>1, MutePrograms, MadeMute DEF Source
  <1>3. win.about # Serpent =>
            [Pipeline(win.about, win.by, <<"Roll">>) EXCEPT !.system = TRUE]
               \in MutePipeline
    BY <1>1, OfferMute
  <1> QED BY <1>2, <1>3 DEF TaskConfirmedRun

(* What lies on a stack after a push. *)
LEMMA PushedOver ==
    ASSUME NEW st, GoodStack(st), NEW t \in DOMAIN st \cup {0},
           IsNewest(t, DOMAIN st), NEW S, NEW run \in Seq(S)
    PROVE  /\ \A i \in DOMAIN Pushed(st, t, run) :
                 \/ i \in DOMAIN st /\ Pushed(st, t, run)[i] = st[i]
                 \/ Pushed(st, t, run)[i] \in S /\ i > t
           /\ \A i \in DOMAIN st :
                 i <= t /\ i \in DOMAIN Pushed(st, t, run) /\ Pushed(st, t, run)[i] = st[i]
           /\ \E n \in Nat : \A i \in DOMAIN Pushed(st, t, run) : i <= n
           /\ \A r : run = <<r>> => t + 1 \in DOMAIN Pushed(st, t, run)
                                    /\ Pushed(st, t, run)[t + 1] = r
  <1>1. t \in Nat /\ Len(run) \in Nat /\ \A i \in DOMAIN st : i \in Nat /\ i <= t
    BY DEF GoodStack, IsNewest
  <1>2. DOMAIN Pushed(st, t, run) = DOMAIN st \cup (t + 1)..(t + Len(run))
    BY DEF Pushed
  <1>3. \A i \in DOMAIN Pushed(st, t, run) :
            \/ i \in DOMAIN st /\ Pushed(st, t, run)[i] = st[i]
            \/ Pushed(st, t, run)[i] \in S /\ i > t
    <2> SUFFICES ASSUME NEW i \in DOMAIN Pushed(st, t, run)
                 PROVE  \/ i \in DOMAIN st /\ Pushed(st, t, run)[i] = st[i]
                        \/ Pushed(st, t, run)[i] \in S /\ i > t
      OBVIOUS
    <2>1. CASE i \in (t + 1)..(t + Len(run))
      BY <1>1, <2>1, PushedAt
    <2>2. CASE i \in DOMAIN st
      BY <1>1, <1>2, <2>2 DEF Pushed
    <2> QED BY <1>2, <2>1, <2>2
  <1>4. \A i \in DOMAIN st :
            i <= t /\ i \in DOMAIN Pushed(st, t, run) /\ Pushed(st, t, run)[i] = st[i]
    BY <1>1, <1>2 DEF Pushed
  <1>5. t + Len(run) \in Nat /\ \A i \in DOMAIN Pushed(st, t, run) : i <= t + Len(run)
    BY <1>1, <1>2
  <1>6. ASSUME NEW r, run = <<r>>
        PROVE  t + 1 \in DOMAIN Pushed(st, t, run) /\ Pushed(st, t, run)[t + 1] = r
    <2>1. Len(run) = 1 /\ run[1] = r /\ t + Len(run) + 1 - (t + 1) = 1
      BY <1>1, <1>6
    <2>2. t + 1 \in DOMAIN Pushed(st, t, run) /\ t + 1 > t
      BY <1>1, <1>2, <2>1
    <2> QED BY <2>1, <2>2 DEF Pushed
  <1> QED BY <1>3, <1>4, <1>5, <1>6

-----------------------------------------------------------------------------
(* How a stack goes on: what is new is mute; what was there is parked where *)
(* it was, nowhere, or on a frame that has just opened.                     *)

StackOn ==
    \A t \in DOMAIN stack' :
        \/ stack'[t] \in MutePipeline
        \/ /\ t \in DOMAIN stack
           /\ stack'[t].seat = stack[t].seat
           /\ StepsOf(stack'[t]) \subseteq StepsOf(stack[t])
           /\ \/ stack'[t].on \in {stack[t].on, NoFrame}
              \/ \A f \in DOMAIN frames : stack'[t].on > f

(* The stack as it was, under what is ready. *)
StackAndReady ==
    \A t \in DOMAIN stack' :
        \/ stack'[t] \in ReadyPipeline
        \/ t \in DOMAIN stack /\ stack'[t] = stack[t]

(* Nothing starts to read a slot. *)
SlotsOn ==
    \A t \in DOMAIN stack' :
        \/ stack'[t] \in ReadyPipeline
        \/ t \in DOMAIN stack /\ stack'[t] = stack[t]
        \/ ReadsWhatItAsked(stack'[t]) /\ ~ReadsNext(stack'[t])

(* The targets on their way still are, but for what the pipeline t brings.  *)
LandsOn(t) ==
    \A u \in DOMAIN stack \ {t} :
        "Land" \in StepsOf(stack[u]) =>
            u \in DOMAIN stack' /\ "Land" \in StepsOf(stack'[u])

(* The standing windows take the modifiers they took. *)
TakersOn ==
    \A f \in DOMAIN frames :
        frames[f].win.kind \in Standing =>
            /\ f \in DOMAIN frames'
            /\ frames'[f].win.kind = frames[f].win.kind
            /\ frames'[f].win.by = frames[f].win.by
            /\ frames[f].win.rival # {} => frames'[f].win.rival = frames[f].win.rival

(* The rolls stand as they stood, but for a target landing. *)
RollsOn ==
    \A f \in DOMAIN frames' :
        frames'[f].win.kind = "roll" =>
            /\ f \in DOMAIN frames /\ frames[f].win.kind = "roll"
            /\ frames'[f].win.about = frames[f].win.about
            /\ frames'[f].win.asked = frames[f].win.asked
            /\ frames'[f].win.margin = frames[f].win.margin
            /\ frames[f].win.aimed => frames'[f].win.aimed

CardsAskedOn ==
    \A f \in DOMAIN frames :
        frames[f].win.kind = "card" =>
            f \in DOMAIN frames' /\ frames'[f].win.kind = "card"

NoNewHero ==
    \A h \in Card : InAParty(board', h) => InAParty(board, h)

LEMMA OverOn ==
    ASSUME StackOn \/ StackAndReady, NEW t, NEW f \in DOMAIN frames, Over(t, f)
    PROVE  Over(t, f)'
  BY DEF StackOn, StackAndReady, Over, MutePipeline, ReadyPipeline

LEMMA BonusOn ==
    ASSUME BonusOver, StackOn, TakersOn
    PROVE  BonusOver'
  <1> SUFFICES ASSUME NEW t \in DOMAIN stack', "Apply" \in StepsOf(stack'[t])
               PROVE  \E f \in DOMAIN frames' :
                         IsStanding(f)' /\ AcceptsModifierFor(f, stack[t].seat)' /\ Over(t, f)'
    BY DEF BonusOver
  <1>1. /\ t \in DOMAIN stack /\ "Apply" \in StepsOf(stack[t])
        /\ stack'[t].seat = stack[t].seat
    BY DEF StackOn, MutePipeline
  <1>2. PICK f \in DOMAIN frames :
            IsStanding(f) /\ AcceptsModifierFor(f, stack[t].seat) /\ Over(t, f)
    BY <1>1 DEF BonusOver
  <1>3. f \in DOMAIN frames' /\ IsStanding(f)'
    BY <1>2 DEF TakersOn, IsStanding
  <1>4. AcceptsModifierFor(f, stack[t].seat)'
    BY <1>1, <1>2, <1>3 DEF TakersOn, IsStanding, AcceptsModifierFor
  <1> QED BY <1>2, <1>3, <1>4, OverOn

LEMMA TargetOn ==
    ASSUME TypeInv, TargetOver, StackOn \/ StackAndReady,
           LandsOn(NoFrame), RollsOn, NoNewHero
    PROVE  TargetOver'
  <1> SUFFICES ASSUME NEW f \in DOMAIN frames', frames'[f].win.kind = "roll"
               PROVE  LET win == frames'[f].win IN
                      /\ win.margin >= 0 => win.asked
                      /\ win.asked /\ win.about \in TargetHero /\ InAParty(board', win.about) =>
                           win.aimed \/ \E t \in DOMAIN stack' :
                                 "Land" \in StepsOf(stack'[t]) /\ Over(t, f)'
    BY DEF TargetOver
  <1> DEFINE win == frames[f].win
  <1>1. /\ f \in DOMAIN frames /\ win.kind = "roll"
        /\ frames'[f].win.about = win.about
        /\ frames'[f].win.asked = win.asked
        /\ frames'[f].win.margin = win.margin
        /\ win.aimed => frames'[f].win.aimed
    BY DEF RollsOn
  <1>2. /\ win.margin >= 0 => win.asked
        /\ win.asked /\ win.about \in TargetHero /\ InAParty(board, win.about) =>
             win.aimed \/ \E t \in DOMAIN stack :
                                 "Land" \in StepsOf(stack[t]) /\ Over(t, f)
    BY <1>1 DEF TargetOver
  <1>3. win.about \in TargetHero => win.about \in Card
    BY ConstantsAssumption DEF Card
  <1>4. \A t \in DOMAIN stack : "Land" \in StepsOf(stack[t]) /\ Over(t, f) =>
            t \in DOMAIN stack' /\ "Land" \in StepsOf(stack'[t]) /\ Over(t, f)'
    <2>1. NoFrame \notin DOMAIN stack
      BY DEF TypeInv, GoodStack, NoFrame
    <2> QED BY <1>1, <2>1, OverOn DEF LandsOn
  <1> HIDE DEF win
  <1> QED BY <1>1, <1>2, <1>3, <1>4 DEF NoNewHero

LEMMA SlotsStay ==
    ASSUME SlotsFilled, SlotsOn, CardsAskedOn, UNCHANGED settled
    PROVE  SlotsFilled'
  <1> SUFFICES ASSUME NEW t \in DOMAIN stack'
               PROVE  ReadsWhatItAsked(stack[t])' /\ (ReadsNext(stack[t]) => SlotIsComing(stack[t]))'
    BY DEF SlotsFilled
  <1>1. CASE stack'[t] \in ReadyPipeline
    BY <1>1 DEF ReadyPipeline, SlotIsComing, ReadsNext, ReadsWhatItAsked
  <1>2. CASE t \in DOMAIN stack /\ stack'[t] = stack[t]
    <2>1. ReadsWhatItAsked(stack[t])'
      BY <1>2 DEF SlotsFilled, ReadsWhatItAsked
    <2>2. ASSUME ReadsNext(stack[t])' PROVE SlotIsComing(stack[t])'
      <3>1. SlotIsComing(stack[t])
        BY <1>2, <2>2 DEF SlotsFilled, ReadsNext
      <3> QED BY <1>2, <3>1 DEF SlotIsComing, CardsAskedOn
    <2> QED BY <2>1, <2>2
  <1>3. CASE ReadsWhatItAsked(stack'[t]) /\ ~ReadsNext(stack'[t])
    BY <1>3 DEF ReadsNext, ReadsWhatItAsked
  <1> QED BY <1>1, <1>2, <1>3 DEF SlotsOn

(* The topmost pipeline goes one step on, and something may come on top.    *)
LEMMA AdvancedOn ==
    ASSUME TypeInv, SlotsFilled, StackEnds,
           NEW t \in DOMAIN stack, stack[t].steps # <<>>, IsNewest(t, DOMAIN stack),
           Head(stack[t].steps) \notin Picks,
           \/ stack' = Advanced(t)
           \/ \E run \in Seq(MutePipeline) : stack' = Pushed(Advanced(t), t, run)
    PROVE  /\ StackOn /\ SlotsOn /\ StackEnds'
           /\ Head(stack[t].steps) # "Land" => LandsOn(NoFrame)
           /\ LandsOn(t)
  <1> DEFINE st == Advanced(t)
  <1>1. /\ DOMAIN st = DOMAIN stack
        /\ \A u \in DOMAIN stack \ {t} : st[u] = stack[u]
        /\ st[t].on = stack[t].on /\ st[t].seat = stack[t].seat
        /\ StepsOf(st[t]) \subseteq StepsOf(stack[t])
        /\ \A s \in StepsOf(stack[t]) : s = Head(stack[t].steps) \/ s \in StepsOf(st[t])
        /\ ReadsWhatItAsked(st[t]) /\ ~ReadsNext(st[t])
        /\ GoodStack(st)
    BY StepOn, AdvancedTyped
  <1> HIDE DEF st
  <1>2. /\ \A i \in DOMAIN stack' : stack'[i] \in MutePipeline \/ (i \in DOMAIN st /\ stack'[i] = st[i])
        /\ \A i \in DOMAIN st : i \in DOMAIN stack' /\ stack'[i] = st[i]
        /\ StackEnds'
    <2>1. CASE stack' = st
      BY <1>1, <2>1 DEF StackEnds
    <2>2. CASE stack' # st
      <3>1. PICK run \in Seq(MutePipeline) : stack' = Pushed(st, t, run)
        BY <2>2 DEF st
      <3>2. t \in DOMAIN st \cup {0} /\ IsNewest(t, DOMAIN st)
        BY <1>1
      <3>3. /\ \A i \in DOMAIN Pushed(st, t, run) :
                 \/ i \in DOMAIN st /\ Pushed(st, t, run)[i] = st[i]
                 \/ Pushed(st, t, run)[i] \in MutePipeline /\ i > t
            /\ \A i \in DOMAIN st :
                 i <= t /\ i \in DOMAIN Pushed(st, t, run) /\ Pushed(st, t, run)[i] = st[i]
            /\ \E n \in Nat : \A i \in DOMAIN Pushed(st, t, run) : i <= n
        BY <1>1, <3>2, PushedOver
      <3> QED BY <3>1, <3>3 DEF StackEnds
    <2> QED BY <2>1, <2>2
  <1>3. StackOn
    BY <1>1, <1>2 DEF StackOn
  <1>4. SlotsOn
    BY <1>1, <1>2 DEF SlotsOn, MutePipeline
  <1>5. /\ Head(stack[t].steps) # "Land" => LandsOn(NoFrame)
        /\ LandsOn(t)
    BY <1>1, <1>2 DEF LandsOn
  <1> QED BY <1>2, <1>3, <1>4, <1>5

LEMMA PushedMute ==
    ASSUME TypeInv, NEW t \in DOMAIN stack \cup {0}, IsNewest(t, DOMAIN stack),
           NEW run \in Seq(MutePipeline), stack' = Pushed(stack, t, run)
    PROVE  StackOn /\ SlotsOn /\ StackEnds' /\ LandsOn(NoFrame)
  <1>1. /\ \A i \in DOMAIN stack' :
                 \/ i \in DOMAIN stack /\ stack'[i] = stack[i]
                 \/ stack'[i] \in MutePipeline /\ i > t
        /\ \A i \in DOMAIN stack : i \in DOMAIN stack' /\ stack'[i] = stack[i]
        /\ StackEnds'
    BY PushedOver DEF TypeInv, StackEnds
  <1> QED BY <1>1 DEF StackOn, SlotsOn, LandsOn, MutePipeline

-----------------------------------------------------------------------------
(* The step runner *)

LEMMA StillFed ==
    ASSUME FeedInv, WindowInv', StackOn, SlotsOn, StackEnds', TargetOver',
           TakersOn, CardsAskedOn, DOMAIN frames' = DOMAIN frames, UNCHANGED settled
    PROVE  FeedInv'
  <1>1. BonusOver' /\ SlotsFilled'
    BY BonusOn, SlotsStay DEF FeedInv
  <1>2. settled'.frame \notin DOMAIN frames'
    BY DEF FeedInv
  <1> QED BY <1>1, <1>2 DEF FeedInv

(* What moves cards brings no hero into a party. *)
LEMMA HeroesKept ==
    ASSUME NEW b \in Board
    PROVE  /\ \A cards : PutAway(b, cards).heroes = b.heroes
           /\ Refilled(b).heroes = b.heroes
           /\ \A p \in Player : \A d \in Drawn(b, p) : d.heroes = b.heroes
           /\ \A p \in Player : \A cards : Discarded(b, p, cards).heroes = b.heroes
           /\ \A cards, h : InAParty(RemovedHeroes(b, cards), h) => InAParty(b, h)
  <1>1. \A a \in Board : \A cards : PutAway(a, cards).heroes = a.heroes
    BY DEF PutAway, Board
  <1>2. \A a \in Board : Refilled(a).heroes = a.heroes
    BY DEF Refilled, Board
  <1>3. ASSUME NEW p \in Player, NEW d \in Drawn(b, p) PROVE d.heroes = b.heroes
    <2>1. CASE b.deck = {}
      BY <1>2, <2>1 DEF Drawn
    <2>2. CASE b.deck # {}
      <3>1. PICK c \in b.deck :
                d = Refilled([b EXCEPT !.deck = @ \ {c}, !.hand[p] = @ \cup {c}])
        BY <2>2 DEF Drawn
      <3> DEFINE a == [b EXCEPT !.deck = @ \ {c}, !.hand[p] = @ \cup {c}]
      <3>2. a \in Board /\ a.heroes = b.heroes
        BY DEF Board
      <3> HIDE DEF a
      <3> QED BY <1>2, <3>1, <3>2 DEF a
    <2> QED BY <2>1, <2>2
  <1>4. ASSUME NEW p \in Player, NEW cards PROVE Discarded(b, p, cards).heroes = b.heroes
    <2> DEFINE a == [b EXCEPT !.hand[p] = @ \ cards]
    <2>1. a \in Board /\ a.heroes = b.heroes
      BY DEF Board
    <2>2. Discarded(b, p, cards) = PutAway(a, cards \cap b.hand[p])
      BY DEF Discarded
    <2> HIDE DEF a
    <2> QED BY <1>1, <2>1, <2>2
  <1>5. ASSUME NEW cards, NEW h, InAParty(RemovedHeroes(b, cards), h) PROVE InAParty(b, h)
    <2> DEFINE hs == [p \in Player |-> b.heroes[p] \ cards]
               a == [b EXCEPT !.heroes = hs]
               gone == cards \cap UNION {b.heroes[p] : p \in Player}
    <2>1. a \in Board /\ a.heroes = hs
      BY DEF Board
    <2>2. RemovedHeroes(b, cards) = PutAway(a, gone)
      BY DEF RemovedHeroes
    <2> HIDE DEF a, gone
    <2>3. RemovedHeroes(b, cards).heroes = hs
      BY <1>1, <2>1, <2>2
    <2> QED BY <1>5, <2>3 DEF InAParty
  <1> QED BY <1>1, <1>2, <1>3, <1>4, <1>5

LEMMA EffectsFed ==
    ASSUME FeedInv, WindowInv', NEW t \in DOMAIN stack,
           \/ Draw(t) \/ Discard(t) \/ Destroy(t) \/ Sacrifice(t) \/ Dispose(t)
    PROVE  FeedInv'
  <1> USE DEF FeedInv, WindowInv
  <1> DEFINE run == stack[t]
             gone == {run.card} \cap board.instance[run.owner]
             left == [board EXCEPT !.instance[run.owner] = @ \ gone]
  <1>1. /\ stack[t].steps # <<>> /\ IsNewest(t, DOMAIN stack)
        /\ Head(stack[t].steps) \in Reads \cup {"Draw", "Dispose"}
        /\ stack' = Advanced(t) /\ UNCHANGED <<frames, settled>>
    BY TakesOne DEF Draw, Discard, Destroy, Sacrifice, Dispose, Do, Reads
  <1>2. board \in Board /\ stack[t].owner \in Player /\ stack[t].seat \in Player
    BY StackTyped DEF TypeInv
  <1>3. NoNewHero
    <2>1. CASE Draw(t)
      BY <1>2, <2>1, HeroesKept DEF Draw, Do, NoNewHero, InAParty
    <2>2. CASE Discard(t)
      BY <1>2, <2>2, HeroesKept DEF Discard, Do, NoNewHero, InAParty
    <2>3. CASE Destroy(t)
      BY <1>2, <2>3, HeroesKept DEF Destroy, Do, NoNewHero
    <2>4. CASE Sacrifice(t)
      BY <1>2, <2>4, HeroesKept DEF Sacrifice, Do, NoNewHero
    <2>5. CASE Dispose(t)
      <3>1. board' \in {IF gone = {} \/ IsSpentInOpenFrame(run.card)
                        THEN board ELSE PutAway(left, gone)}
        BY <2>5 DEF Dispose, Do
      <3>2. left \in Board /\ left.heroes = board.heroes
        BY <1>2 DEF Board
      <3> HIDE DEF run, gone, left
      <3>3. board'.heroes = board.heroes
        BY <1>2, <3>1, <3>2, HeroesKept
      <3> QED BY <3>3 DEF NoNewHero, InAParty
    <2> QED BY <2>1, <2>2, <2>3, <2>4, <2>5
  <1>4. /\ StackOn /\ SlotsOn /\ StackEnds' /\ LandsOn(NoFrame)
    BY <1>1, AdvancedOn DEF Reads, Picks
  <1>5. TakersOn /\ RollsOn /\ CardsAskedOn
    BY <1>1 DEF TakersOn, RollsOn, CardsAskedOn
  <1> QED BY <1>1, <1>3, <1>4, <1>5, TargetOn, StillFed

LEMMA FinishFed ==
    ASSUME FeedInv, WindowInv', NEW t \in DOMAIN stack, Finish(t)
    PROVE  FeedInv'
  <1> USE DEF FeedInv, WindowInv
  <1>1. stack[t].steps = <<>> /\ UNCHANGED <<board, frames, settled>>
    BY DEF Finish
  <1>2. StepsOf(stack[t]) = {}
    BY <1>1 DEF StepsOf
  <1>3. \/ stack' = Without(stack, {t})
        \/ \E r \in MutePipeline : stack' = [stack EXCEPT ![t] = r]
    <2>1. CASE stack' # Without(stack, {t})
      <3>1. PICK p \in Player :
              stack' = [stack EXCEPT ![t] =
                  [Pipeline(stack[t].card, p, <<"Dispose">>) EXCEPT !.system = TRUE]]
        BY <2>1 DEF Finish
      <3> DEFINE one == Pipeline(stack[t].card, p, <<"Dispose">>)
      <3>2. one \in MutePipeline /\ [one EXCEPT !.system = TRUE] \in GoodPipeline
        BY StackTyped, PlainSteps, PipelineTyped, PlainSlots, PlainIsGood,
           MutePrograms, MadeMute
      <3> HIDE DEF one
      <3>3. [one EXCEPT !.system = TRUE] \in MutePipeline
        BY <3>2, MuteSlots
      <3> QED BY <3>1, <3>3 DEF one
    <2> QED BY <2>1
  <1>4. /\ \A u \in DOMAIN stack' :
              \/ stack'[u] \in MutePipeline
              \/ u \in DOMAIN stack /\ stack'[u] = stack[u]
        /\ DOMAIN stack' \subseteq DOMAIN stack
        /\ \A u \in DOMAIN stack \ {t} : u \in DOMAIN stack' /\ stack'[u] = stack[u]
    BY <1>3 DEF Without
  <1>5. StackOn /\ SlotsOn /\ StackEnds' /\ LandsOn(NoFrame)
    BY <1>2, <1>4 DEF StackOn, SlotsOn, StackEnds, LandsOn, MutePipeline
  <1>6. TakersOn /\ RollsOn /\ CardsAskedOn /\ NoNewHero
    BY <1>1 DEF TakersOn, RollsOn, CardsAskedOn, NoNewHero
  <1> QED BY <1>1, <1>5, <1>6, TargetOn, StillFed

LEMMA StartFed ==
    ASSUME FeedInv, WindowInv', NEW t \in DOMAIN stack, Start(t)
    PROVE  FeedInv'
  <1> USE DEF FeedInv, WindowInv
  <1>1. /\ stack[t].steps # <<>> /\ IsNewest(t, DOMAIN stack)
        /\ Head(stack[t].steps) = "Start"
        /\ stack' = Advanced(t) /\ UNCHANGED <<board, settled>>
    BY TakesOne DEF Start
  <1>2. StackOn /\ SlotsOn /\ StackEnds' /\ LandsOn(NoFrame)
    BY <1>1, AdvancedOn DEF Picks
  <1>3. \A f \in DOMAIN frames : frames[f] \in [snap : Board, win : WindowType]
    BY DEF TypeInv, GoodFrames, GoodWindow
  <1>4. /\ DOMAIN frames' = DOMAIN frames
        /\ \A f \in DOMAIN frames :
              \/ frames'[f].win = frames[f].win
              \/ /\ frames[f].win.kind = "challenge" /\ frames[f].win.rival = {}
                 /\ frames'[f].win.kind = "challenge"
                 /\ frames'[f].win.by = frames[f].win.by
    <2>1. CASE frames' = frames
      BY <2>1
    <2>2. CASE frames' # frames
      <3>1. PICK f \in DOMAIN frames, m \in Margin :
              /\ frames[f].win.kind = "challenge" /\ frames[f].win.rival = {}
              /\ frames' = [frames EXCEPT ![f].win.rival = {stack[t].owner},
                                          ![f].win.margin = m, ![f].win.passes = {}]
        BY <2>2 DEF Start
      <3> DEFINE w == [frames[f].win EXCEPT !.rival = {stack[t].owner},
                          !.margin = m, !.passes = {}]
      <3>4. frames'[f].win = w
        BY <1>3, <3>1
      <3>5. w.kind = frames[f].win.kind /\ w.by = frames[f].win.by
        BY <1>3 DEF WindowType
      <3> HIDE DEF w
      <3>2. /\ frames'[f].win.kind = frames[f].win.kind
            /\ frames'[f].win.by = frames[f].win.by
        BY <3>4, <3>5
      <3>3. /\ DOMAIN frames' = DOMAIN frames
            /\ \A g \in DOMAIN frames : g # f => frames'[g] = frames[g]
        BY <3>1
      <3> QED BY <3>1, <3>2, <3>3
    <2> QED BY <2>1, <2>2
  <1>5. TakersOn /\ RollsOn /\ CardsAskedOn /\ NoNewHero
    BY <1>1, <1>4 DEF TakersOn, RollsOn, CardsAskedOn, NoNewHero
  <1> QED BY <1>1, <1>2, <1>4, <1>5, TargetOn, StillFed

(* The window a target or a bonus lands in is the only one standing.        *)
LEMMA OneRoll ==
    ASSUME WindowInv, NEW f \in DOMAIN frames, NEW g \in DOMAIN frames,
           frames[f].win.kind \in Standing, frames[g].win.kind \in Standing
    PROVE  f = g
  BY DEF WindowInv, OneToken, Rolling

LEMMA LandFed ==
    ASSUME FeedInv, WindowInv', NEW t \in DOMAIN stack, Land(t)
    PROVE  FeedInv'
  <1> USE DEF FeedInv, WindowInv
  <1>1. /\ stack[t].steps # <<>> /\ IsNewest(t, DOMAIN stack)
        /\ Head(stack[t].steps) = "Land"
        /\ stack' = Advanced(t) /\ UNCHANGED <<board, settled>>
    BY TakesOne DEF Land
  <1>2. StackOn /\ SlotsOn /\ StackEnds' /\ LandsOn(t)
    BY <1>1, AdvancedOn DEF Picks
  <1>3. \A f \in DOMAIN frames : frames[f] \in [snap : Board, win : WindowType]
    BY DEF TypeInv, GoodFrames, GoodWindow
  <1>4. /\ DOMAIN frames' = DOMAIN frames
        /\ \A f \in DOMAIN frames :
              /\ frames'[f].win.kind = frames[f].win.kind
              /\ frames'[f].win.by = frames[f].win.by
              /\ frames'[f].win.about = frames[f].win.about
              /\ frames'[f].win.rival = frames[f].win.rival
              /\ frames'[f].win.asked = frames[f].win.asked
              /\ frames'[f].win.margin = frames[f].win.margin
              /\ frames[f].win.kind = "roll" => frames'[f].win.aimed
    <2>1. CASE \E f \in DOMAIN frames :
             /\ frames[f].win.kind \in {"roll", "attack"}
             /\ frames' = [frames EXCEPT ![f].win.aimed = TRUE,
                                         ![f].win.target = stack[t].pick,
                                         ![f].win.passes = {}]
      <3>1. PICK f \in DOMAIN frames :
             /\ frames[f].win.kind \in {"roll", "attack"}
             /\ frames' = [frames EXCEPT ![f].win.aimed = TRUE,
                                         ![f].win.target = stack[t].pick,
                                         ![f].win.passes = {}]
        BY <2>1
      <3>2. /\ frames'[f].win.kind = frames[f].win.kind
            /\ frames'[f].win.by = frames[f].win.by
            /\ frames'[f].win.about = frames[f].win.about
            /\ frames'[f].win.rival = frames[f].win.rival
            /\ frames'[f].win.asked = frames[f].win.asked
            /\ frames'[f].win.margin = frames[f].win.margin
            /\ frames'[f].win.aimed
        <4> DEFINE w == [frames[f].win EXCEPT !.aimed = TRUE,
                            !.target = stack[t].pick, !.passes = {}]
        <4>1. frames'[f].win = w
          BY <1>3, <3>1
        <4>2. /\ w.kind = frames[f].win.kind /\ w.by = frames[f].win.by
              /\ w.about = frames[f].win.about /\ w.rival = frames[f].win.rival
              /\ w.asked = frames[f].win.asked /\ w.margin = frames[f].win.margin
              /\ w.aimed
          BY <1>3 DEF WindowType
        <4> HIDE DEF w
        <4> QED BY <4>1, <4>2
      <3>3. /\ DOMAIN frames' = DOMAIN frames
            /\ \A g \in DOMAIN frames : g # f => frames'[g] = frames[g]
        BY <3>1
      <3>4. \A g \in DOMAIN frames : frames[g].win.kind = "roll" => g = f
        BY <3>1, OneRoll DEF Standing
      <3> QED BY <3>2, <3>3, <3>4
    <2>2. CASE ~\E f \in DOMAIN frames : frames[f].win.kind \in {"roll", "attack"}
      BY <2>2 DEF Land
    <2> QED BY <2>1, <2>2 DEF Land
  <1>5. TakersOn /\ CardsAskedOn
    BY <1>4 DEF TakersOn, CardsAskedOn
  <1>6. TargetOver'
    BY <1>4 DEF TargetOver
  <1> QED BY <1>1, <1>2, <1>4, <1>5, <1>6, StillFed

LEMMA ApplyFed ==
    ASSUME FeedInv, WindowInv', NEW t \in DOMAIN stack, Apply(t)
    PROVE  FeedInv'
  <1> USE DEF FeedInv, WindowInv
  <1>1. /\ stack[t].steps # <<>> /\ IsNewest(t, DOMAIN stack)
        /\ Head(stack[t].steps) = "Apply" /\ UNCHANGED <<board, settled>>
    BY TakesOne DEF Apply
  <1>2. NoNewHero
    BY <1>1 DEF NoNewHero
  <1>3. CASE stack' = Advanced(t) /\ UNCHANGED frames
    <2>1. StackOn /\ SlotsOn /\ StackEnds' /\ LandsOn(NoFrame)
      BY <1>1, <1>3, AdvancedOn DEF Picks
    <2>2. TakersOn /\ RollsOn /\ CardsAskedOn
      BY <1>3 DEF TakersOn, RollsOn, CardsAskedOn
    <2> QED BY <1>1, <1>2, <1>3, <2>1, <2>2, TargetOn, StillFed
  <1>4. CASE ~(stack' = Advanced(t) /\ UNCHANGED frames)
    <2>1. PICK f \in DOMAIN frames :
            /\ frames[f].win.kind \in Standing
            /\ LET win == frames[f].win
                   run == stack[t]
                   worth == IF win.kind = "challenge" /\ run.seat # win.by
                            THEN -run.value ELSE run.value
                   passing == /\ win.kind = "roll" /\ ~win.asked
                              /\ win.margin + worth >= 0
               IN  /\ frames' = [frames EXCEPT
                         ![f].win.margin = @ + worth,
                         ![f].win.passes = {},
                         ![f].win.asked = @ \/ passing]
                   /\ \E run2 \in IF passing THEN RollPassingRuns(board, win.about)
                                  ELSE {<<>>} :
                          stack' = Pushed(Advanced(t), t, run2)
      BY <1>4 DEF Apply, IsStanding
    <2> DEFINE win == frames[f].win
               worth == IF win.kind = "challenge" /\ stack[t].seat # win.by
                        THEN -stack[t].value ELSE stack[t].value
               m == win.margin + worth
               passing == win.kind = "roll" /\ ~win.asked /\ m >= 0
               yes == win.asked \/ passing
               w == [win EXCEPT !.margin = m, !.passes = {}, !.asked = yes]
    <2>2. frames[f] \in [snap : Board, win : WindowType]
      BY DEF TypeInv, GoodFrames, GoodWindow
    <2>3. frames' = [frames EXCEPT ![f].win = w]
      <3>1. frames' = [frames EXCEPT ![f].win.margin = m, ![f].win.passes = {},
                                     ![f].win.asked = yes]
        BY <2>1, <2>2
      <3> HIDE DEF m, yes
      <3> QED BY <2>2, <3>1
    <2>4. PICK run2 \in IF passing THEN RollPassingRuns(board, win.about) ELSE {<<>>} :
              stack' = Pushed(Advanced(t), t, run2)
      BY <2>1
    <2>5. /\ w.kind = win.kind /\ w.by = win.by /\ w.about = win.about
          /\ w.rival = win.rival /\ w.aimed = win.aimed
          /\ w.margin = m /\ w.asked = yes
      BY <2>2 DEF WindowType
    <2>6. DOMAIN frames' = DOMAIN frames /\ frames'[f].win = w
          /\ \A g \in DOMAIN frames : g # f => frames'[g] = frames[g]
      BY <2>2, <2>3
    <2> DEFINE h == win.about
               asks == h \in TargetHero /\ InAParty(board, h) =>
                          \E p \in Player :
                              run2 = <<Pipeline(h, p, <<"AskAnyHero", "Land">>)>>
    <2>7. run2 \in Seq(MutePipeline) /\ (passing => asks)
      <3>1. CASE passing
        <4>1. board \in Board /\ run2 \in RollPassingRuns(board, h)
          BY <2>4, <3>1 DEF TypeInv
        <4> HIDE DEF h
        <4>2. run2 \in Seq(MutePipeline) /\ asks
          BY <4>1, RollPassingMute
        <4> HIDE DEF asks
        <4> QED BY <4>2
      <3>2. CASE ~passing
        <4>1. run2 = <<>>
          BY <2>4, <3>2
        <4> HIDE DEF asks
        <4> QED BY <3>2, <4>1
      <3> QED BY <3>1, <3>2
    <2> HIDE DEF w
    <2>8. StackOn /\ SlotsOn /\ StackEnds' /\ LandsOn(NoFrame)
      BY <1>1, <2>4, <2>7, AdvancedOn DEF Picks
    <2>9. TakersOn /\ CardsAskedOn
      BY <2>5, <2>6 DEF TakersOn, CardsAskedOn
    <2>10. ASSUME win.kind = "roll", yes, win.about \in TargetHero, InAParty(board', win.about)
           PROVE  win.aimed \/ \E u \in DOMAIN stack' :
                                  "Land" \in StepsOf(stack'[u]) /\ Over(u, f)'
      <3>1. CASE win.asked
        <4>1. win.aimed \/ \E u \in DOMAIN stack :
                              "Land" \in StepsOf(stack[u]) /\ Over(u, f)
          BY <1>1, <2>10, <3>1 DEF TargetOver
        <4>2. NoFrame \notin DOMAIN stack
          BY DEF TypeInv, GoodStack, NoFrame
        <4> QED BY <2>8, <4>1, <4>2, OverOn DEF LandsOn
      <3>2. CASE ~win.asked
        <4>1. PICK p \in Player : run2 = <<Pipeline(win.about, p, <<"AskAnyHero", "Land">>)>>
          BY <1>1, <2>7, <2>10, <3>2
        <4> DEFINE target == Pipeline(win.about, p, <<"AskAnyHero", "Land">>)
        <4>2. /\ DOMAIN Advanced(t) = DOMAIN stack /\ GoodStack(Advanced(t))
              /\ t \in Nat
          BY <1>1, AdvancedTyped DEF TypeInv, GoodStack
        <4>3. /\ \A i \in DOMAIN stack' :
                    i \in DOMAIN Advanced(t) \/ stack'[i] \in MutePipeline
              /\ \A i \in DOMAIN Advanced(t) : i <= t
              /\ t + 1 \in DOMAIN stack' /\ stack'[t + 1] = target
          <5> DEFINE st == Advanced(t)
          <5>1. /\ GoodStack(st) /\ t \in DOMAIN st \cup {0} /\ IsNewest(t, DOMAIN st)
                /\ run2 \in Seq(MutePipeline) /\ run2 = <<target>>
                /\ stack' = Pushed(st, t, run2)
            BY <1>1, <2>4, <2>7, <4>1, <4>2
          <5> HIDE DEF st, target
          <5>2. /\ \A i \in DOMAIN stack' : i \in DOMAIN st \/ stack'[i] \in MutePipeline
                /\ \A i \in DOMAIN st : i <= t
                /\ t + 1 \in DOMAIN stack' /\ stack'[t + 1] = target
            <6>1. /\ \A i \in DOMAIN Pushed(st, t, run2) :
                        \/ i \in DOMAIN st /\ Pushed(st, t, run2)[i] = st[i]
                        \/ Pushed(st, t, run2)[i] \in MutePipeline /\ i > t
                  /\ \A i \in DOMAIN st : i <= t
              <7> HIDE <5>1
              <7>1. GoodStack(st) /\ t \in DOMAIN st \cup {0} /\ IsNewest(t, DOMAIN st)
                    /\ run2 \in Seq(MutePipeline)
                BY <5>1
              <7> QED BY <7>1, PushedOver
            <6>2. /\ t + 1 \in DOMAIN Pushed(st, t, run2)
                  /\ Pushed(st, t, run2)[t + 1] = target
              <7>1. DOMAIN Pushed(st, t, run2) = DOMAIN st \cup (t + 1)..(t + 1)
                BY <5>1 DEF Pushed
              <7>2. t + 1 \in DOMAIN Pushed(st, t, run2) /\ t + 1 > t /\ run2[1] = target
                    /\ t + Len(run2) + 1 - (t + 1) = 1
                BY <4>2, <5>1, <7>1
              <7> QED BY <7>2 DEF Pushed
            <6> HIDE DEF st
            <6> QED BY <5>1, <6>1, <6>2
          <5> QED BY <5>2 DEF st
        <4>4. "Land" \in StepsOf(target)
          <5>1. target.steps = <<"AskAnyHero", "Land">>
            BY DEF Pipeline
          <5> HIDE DEF target
          <5>2. 2 \in DOMAIN target.steps /\ target.steps[2] = "Land"
            BY <5>1
          <5> QED BY <5>2 DEF StepsOf
        <4> HIDE DEF target
        <4>5. Over(t + 1, f)'
          <5> SUFFICES ASSUME NEW u \in DOMAIN stack', u >= t + 1
                       PROVE  stack'[u].on = NoFrame
            BY DEF Over
          <5>1. stack'[u] \in MutePipeline
            BY <4>2, <4>3 DEF TypeInv, GoodStack
          <5> QED BY <5>1 DEF MutePipeline, ReadyPipeline
        <4> QED BY <4>3, <4>4, <4>5
      <3> QED BY <3>1, <3>2
    <2>11. win.kind = "roll" /\ m >= 0 => yes
      OBVIOUS
    <2> HIDE DEF yes, m, win
    <2>12. \A g \in DOMAIN frames : frames[g].win.kind = "roll" => g = f
      BY <2>1, OneRoll DEF Standing
    <2>13. \A g \in DOMAIN frames' : frames'[g].win.kind = "roll" => g = f /\ win.kind = "roll"
      BY <2>5, <2>6, <2>12 DEF win
    <2>14. TargetOver'
      <3> SUFFICES ASSUME NEW g \in DOMAIN frames', frames'[g].win.kind = "roll"
                   PROVE  LET v == frames'[g].win IN
                          /\ v.margin >= 0 => v.asked
                          /\ v.asked /\ v.about \in TargetHero /\ InAParty(board', v.about) =>
                               v.aimed \/ \E u \in DOMAIN stack' :
                                     "Land" \in StepsOf(stack'[u]) /\ Over(u, g)'
        BY DEF TargetOver
      <3>1. g = f /\ win.kind = "roll"
        BY <2>13
      <3> QED BY <2>5, <2>6, <2>10, <2>11, <3>1
    <2> QED BY <1>1, <2>6, <2>8, <2>9, <2>14, StillFed
  <1> QED BY <1>3, <1>4

-----------------------------------------------------------------------------
(* A question opens over what stands. *)

LEMMA AskFed ==
    ASSUME FeedInv, WindowInv', NEW t \in DOMAIN stack, stack[t].steps # <<>>,
           NEW win, Ask(t, win), win.kind \in Question,
           Head(stack[t].steps) # "Land",
           Head(stack[t].steps) \in Picks => win.kind = "card"
    PROVE  FeedInv'
  <1> USE DEF FeedInv, WindowInv
  <1>1. PICK k \in DOMAIN frames \cup {0, settled.frame} :
          /\ IsNewest(k, DOMAIN frames \cup {settled.frame})
          /\ frames' = Opened(k + 1, win)
          /\ stack' = [Advanced(t) EXCEPT ![t].on = k + 1]
          /\ UNCHANGED <<board, settled>>
    BY DEF Ask
  <1> DEFINE n == k + 1
             st == Advanced(t)
  <1>2. /\ n \in Nat \ {0} /\ n > settled.frame
        /\ \A f \in DOMAIN frames : n > f
    <2>1. k \in Nat /\ settled.frame \in Nat /\ DOMAIN frames \subseteq Nat
      BY NewestFrame DEF TypeInv, GoodFrames, SettledType
    <2> QED BY <1>1, <2>1 DEF IsNewest
  <1>3. /\ DOMAIN st = DOMAIN stack
        /\ \A u \in DOMAIN stack \ {t} : st[u] = stack[u]
        /\ st[t] \in GoodPipeline /\ st[t].seat = stack[t].seat
        /\ StepsOf(st[t]) \subseteq StepsOf(stack[t])
        /\ \A s \in StepsOf(stack[t]) : s = Head(stack[t].steps) \/ s \in StepsOf(st[t])
        /\ ReadsWhatItAsked(st[t])
        /\ ReadsNext(st[t]) => Head(stack[t].steps) \in Picks
    BY StepOn
  <1>4. /\ DOMAIN stack' = DOMAIN stack
        /\ \A u \in DOMAIN stack \ {t} : stack'[u] = stack[u]
        /\ stack'[t].on = n /\ stack'[t].steps = st[t].steps
        /\ stack'[t].seat = stack[t].seat
    <2>1. stack'[t] = [st[t] EXCEPT !.on = n]
      BY <1>1, <1>3
    <2>2. /\ stack'[t].on = n /\ stack'[t].steps = st[t].steps
          /\ stack'[t].seat = st[t].seat
      BY <1>3, <2>1 DEF GoodPipeline, PipelineType
    <2> QED BY <1>1, <1>3, <2>2
  <1>5. /\ DOMAIN frames' = DOMAIN frames \cup {n} /\ n \notin DOMAIN frames
        /\ frames'[n].win = win
        /\ \A f \in DOMAIN frames : frames'[f] = frames[f]
    <2>1. n \notin DOMAIN frames
      BY <1>2 DEF TypeInv, GoodFrames
    <2> QED BY <1>1, <2>1 DEF Opened
  <1> HIDE DEF n, st
  <1>6. StackEnds' /\ settled'.frame \notin DOMAIN frames'
    <2>1. settled.frame # n
      BY <1>2 DEF TypeInv, SettledType
    <2> QED BY <1>1, <1>4, <1>5, <2>1 DEF StackEnds
  <1>7. StackOn
    <2> SUFFICES ASSUME NEW u \in DOMAIN stack'
                 PROVE  /\ u \in DOMAIN stack /\ stack'[u].seat = stack[u].seat
                        /\ StepsOf(stack'[u]) \subseteq StepsOf(stack[u])
                        /\ \/ stack'[u].on = stack[u].on
                           \/ \A f \in DOMAIN frames : stack'[u].on > f
      BY DEF StackOn
    <2>1. CASE u = t
      <3>1. StepsOf(stack'[t]) = StepsOf(st[t])
        BY <1>4 DEF StepsOf
      <3> QED BY <1>2, <1>3, <1>4, <2>1, <3>1
    <2>2. CASE u # t
      BY <1>4, <2>2
    <2> QED BY <2>1, <2>2
  <1>8. TakersOn /\ CardsAskedOn /\ NoNewHero
    BY <1>1, <1>5 DEF TakersOn, CardsAskedOn, NoNewHero
  <1>9. RollsOn
    BY <1>5 DEF RollsOn, Question
  <1>10. LandsOn(NoFrame)
    <2>1. StepsOf(stack'[t]) = StepsOf(st[t])
      BY <1>4 DEF StepsOf
    <2> QED BY <1>3, <1>4, <2>1 DEF LandsOn
  <1>11. SlotsFilled'
    <2> SUFFICES ASSUME NEW u \in DOMAIN stack'
                 PROVE  ReadsWhatItAsked(stack[u])' /\ (ReadsNext(stack[u]) => SlotIsComing(stack[u]))'
      BY DEF SlotsFilled
    <2>1. CASE u = t
      <3>1. ReadsWhatItAsked(stack[t])'
        BY <1>3, <1>4 DEF ReadsWhatItAsked
      <3>2. ReadsNext(stack[t])' => win.kind = "card"
        BY <1>3, <1>4 DEF ReadsNext
      <3>3. win.kind = "card" => SlotIsComing(stack[t])'
        BY <1>4, <1>5 DEF SlotIsComing
      <3> QED BY <2>1, <3>1, <3>2, <3>3
    <2>2. CASE u # t
      <3>1. u \in DOMAIN stack /\ stack'[u] = stack[u]
        BY <1>4, <2>2
      <3>2. ReadsWhatItAsked(stack[u])'
        BY <3>1 DEF SlotsFilled, ReadsWhatItAsked
      <3>3. ReadsNext(stack[u])' => SlotIsComing(stack[u])
        BY <3>1 DEF SlotsFilled, ReadsNext
      <3>4. SlotIsComing(stack[u]) => SlotIsComing(stack[u])'
        BY <1>1, <1>5, <3>1 DEF SlotIsComing
      <3> QED BY <3>2, <3>3, <3>4
    <2> QED BY <2>1, <2>2
  <1> QED BY <1>6, <1>7, <1>8, <1>9, <1>10, <1>11, BonusOn, TargetOn

LEMMA QuestionsFed ==
    ASSUME FeedInv, WindowInv', NEW t \in DOMAIN stack,
           \/ AskHand(t) \/ AskAnyHero(t) \/ AskOwnHero(t) \/ AskValue(t)
           \/ AskDraw(t) \/ AskRoll(t)
    PROVE  FeedInv'
  <1>1. stack[t].steps # <<>>
    BY TakesOne DEF AskHand, AskAnyHero, AskOwnHero, AskValue, AskDraw, AskRoll
  <1>2. CASE AskHand(t) \/ AskAnyHero(t) \/ AskOwnHero(t)
    <2> DEFINE w(p, offers) == [Window("card", p, stack[t].card) EXCEPT !.offers = offers]
    <2>1. Head(stack[t].steps) # "Land"
      BY <1>2, TakesOne DEF AskHand, AskAnyHero, AskOwnHero
    <2>3. \E p, offers : Ask(t, w(p, offers))
      <3>1. CASE AskHand(t)
        BY <3>1 DEF AskHand
      <3>2. CASE AskAnyHero(t)
        BY <3>2 DEF AskAnyHero
      <3>3. CASE AskOwnHero(t)
        BY <3>3 DEF AskOwnHero
      <3> QED BY <1>2, <3>1, <3>2, <3>3
    <2>2. \A p, offers : w(p, offers).kind = "card"
      BY DEF Window
    <2> HIDE DEF w
    <2> QED BY <1>1, <2>1, <2>2, <2>3, AskFed DEF Question
  <1>3. CASE AskValue(t)
    <2> DEFINE w(v) == [Window("value", stack[t].owner, stack[t].card) EXCEPT !.silent = v]
    <2>1. Head(stack[t].steps) \notin Picks \cup {"Land"}
      BY <1>3, TakesOne DEF AskValue, Picks
    <2>3. \E v : Ask(t, w(v))
      BY <1>3 DEF AskValue
    <2>2. \A v : w(v).kind = "value"
      BY DEF Window
    <2> HIDE DEF w
    <2> QED BY <1>1, <2>1, <2>2, <2>3, AskFed DEF Question
  <1>4. CASE AskDraw(t) \/ AskRoll(t)
    <2> DEFINE w == Window("confirm", stack[t].owner, stack[t].card)
    <2>1. Head(stack[t].steps) \notin Picks \cup {"Land"} /\ Ask(t, w)
      BY <1>4, TakesOne DEF AskDraw, AskRoll, Confirm, Picks
    <2>2. w.kind = "confirm"
      BY DEF Window
    <2> HIDE DEF w
    <2> QED BY <1>1, <2>1, <2>2, AskFed DEF Question
  <1> QED BY <1>2, <1>3, <1>4

-----------------------------------------------------------------------------
(* A roll opens; what asks for its target comes over it, and nothing is     *)
(* parked there yet.                                                        *)

LEMMA OpenRollFed ==
    ASSUME FeedInv, WindowInv', Rolling(frames) = {},
           NEW b \in Board, b.heroes = board.heroes,
           NEW st, GoodStack(st),
           NEW t \in DOMAIN st \cup {0}, IsNewest(t, DOMAIN st),
           \A u \in DOMAIN st :
               /\ "Apply" \notin StepsOf(st[u])
               /\ ReadsWhatItAsked(st[u])
               /\ ReadsNext(st[u]) => u \in DOMAIN stack /\ st[u] = stack[u],
           NEW n \in Nat, n \notin DOMAIN frames, n # settled.frame,
           NEW p, NEW h, OpenRoll(b, st, t, n, p, h), UNCHANGED settled
    PROVE  FeedInv'
  <1> USE DEF FeedInv, WindowInv
  <1>1. PICK m \in Margin :
          /\ board' = [b EXCEPT !.used = @ \cup {h}]
          /\ frames' = [g \in DOMAIN frames \cup {n} |->
                IF g = n THEN [snap |-> board', win |-> RollWindow(p, h, m)]
                ELSE frames[g]]
          /\ \E run \in IF m >= 0 THEN RollPassingRuns(b, h) ELSE {<<>>} :
                 stack' = Pushed(st, t, run)
    BY DEF OpenRoll
  <1>2. PICK run \in IF m >= 0 THEN RollPassingRuns(b, h) ELSE {<<>>} :
            stack' = Pushed(st, t, run)
    BY <1>1
  <1> DEFINE asks == h \in TargetHero /\ InAParty(b, h) =>
                         \E q \in Player :
                             run = <<Pipeline(h, q, <<"AskAnyHero", "Land">>)>>
  <1>3. run \in Seq(MutePipeline) /\ (m >= 0 => asks)
    <2>1. CASE m >= 0
      <3>1. run \in RollPassingRuns(b, h)
        BY <1>2, <2>1
      <3>2. run \in Seq(MutePipeline) /\ asks
        BY <3>1, RollPassingMute
      <3> QED BY <3>2
    <2>2. CASE ~(m >= 0)
      <3>1. run = <<>>
        BY <1>2, <2>2
      <3> HIDE DEF asks
      <3> QED BY <2>2, <3>1
    <2> QED BY <2>1, <2>2
  <1>4. /\ DOMAIN frames' = DOMAIN frames \cup {n}
        /\ frames'[n].win = RollWindow(p, h, m)
        /\ \A g \in DOMAIN frames : frames'[g] = frames[g]
    BY <1>1
  <1>5. LET win == RollWindow(p, h, m) IN
        /\ win.kind = "roll" /\ win.about = h /\ win.margin = m
        /\ win.asked = (m >= 0)
    BY DEF RollWindow, Window
  <1>6. /\ \A i \in DOMAIN stack' :
              \/ i \in DOMAIN st /\ stack'[i] = st[i]
              \/ stack'[i] \in MutePipeline /\ i > t
        /\ \A i \in DOMAIN st : i <= t
        /\ \E k \in Nat : \A i \in DOMAIN stack' : i <= k
        /\ \A r : run = <<r>> => t + 1 \in DOMAIN stack' /\ stack'[t + 1] = r
    BY <1>2, <1>3, PushedOver
  <1>7. StackEnds' /\ settled'.frame \notin DOMAIN frames'
    BY <1>4, <1>6 DEF StackEnds
  <1>8. SlotsFilled'
    <2> SUFFICES ASSUME NEW i \in DOMAIN stack'
                 PROVE  ReadsWhatItAsked(stack[i])' /\ (ReadsNext(stack[i]) => SlotIsComing(stack[i]))'
      BY DEF SlotsFilled
    <2>1. CASE stack'[i] \in MutePipeline
      BY <2>1 DEF MutePipeline, ReadyPipeline, SlotIsComing, ReadsNext, ReadsWhatItAsked
    <2>2. CASE i \in DOMAIN st /\ stack'[i] = st[i]
      <3>1. ReadsWhatItAsked(stack[i])'
        BY <2>2 DEF ReadsWhatItAsked
      <3>2. ASSUME ReadsNext(stack[i])' PROVE SlotIsComing(stack[i])'
        <4>1. i \in DOMAIN stack /\ stack'[i] = stack[i] /\ SlotIsComing(stack[i])
          BY <2>2, <3>2 DEF SlotsFilled, ReadsNext
        <4> QED BY <1>4, <4>1 DEF SlotIsComing
      <3> QED BY <3>1, <3>2
    <2> QED BY <1>6, <2>1, <2>2
  <1>9. BonusOver'
    <2>1. \A i \in DOMAIN stack' : "Apply" \notin StepsOf(stack'[i])
      BY <1>6 DEF MutePipeline
    <2> QED BY <2>1 DEF BonusOver
  <1>10. ASSUME m >= 0, h \in TargetHero, InAParty(board', h)
         PROVE  \E u \in DOMAIN stack' : "Land" \in StepsOf(stack'[u]) /\ Over(u, n)'
    <2>1. InAParty(b, h)
      <3>1. board'.heroes = b.heroes
        BY <1>1 DEF Board
      <3> QED BY <1>10, <3>1 DEF InAParty
    <2>2. PICK q \in Player : run = <<Pipeline(h, q, <<"AskAnyHero", "Land">>)>>
      BY <1>3, <1>10, <2>1
    <2> DEFINE target == Pipeline(h, q, <<"AskAnyHero", "Land">>)
    <2>3. t + 1 \in DOMAIN stack' /\ stack'[t + 1] = target
      BY <1>6, <2>2
    <2>4. "Land" \in StepsOf(target)
      <3>1. target.steps = <<"AskAnyHero", "Land">>
        BY DEF Pipeline
      <3> HIDE DEF target
      <3>2. 2 \in DOMAIN target.steps /\ target.steps[2] = "Land"
        BY <3>1
      <3> QED BY <3>2 DEF StepsOf
    <2> HIDE DEF target
    <2>5. Over(t + 1, n)'
      <3> SUFFICES ASSUME NEW u \in DOMAIN stack', u >= t + 1
                   PROVE  stack'[u].on = NoFrame
        BY DEF Over
      <3>1. t \in Nat /\ u \in Nat
        BY DEF GoodStack, TypeInv
      <3>2. stack'[u] \in MutePipeline
        BY <1>6, <3>1
      <3> QED BY <3>2 DEF MutePipeline, ReadyPipeline
    <2> QED BY <2>3, <2>4, <2>5
  <1>11. TargetOver'
    <2> SUFFICES ASSUME NEW f \in DOMAIN frames', frames'[f].win.kind = "roll"
                 PROVE  LET win == frames'[f].win IN
                        /\ win.margin >= 0 => win.asked
                        /\ win.asked /\ win.about \in TargetHero /\ InAParty(board', win.about) =>
                             win.aimed \/ \E u \in DOMAIN stack' :
                                 "Land" \in StepsOf(stack'[u]) /\ Over(u, f)'
      BY DEF TargetOver
    <2>1. f = n
      <3>1. CASE f \in DOMAIN frames
        BY <1>4, <3>1 DEF Rolling, Standing
      <3> QED BY <1>4, <3>1
    <2> QED BY <1>4, <1>5, <1>10, <2>1
  <1> QED BY <1>7, <1>8, <1>9, <1>11

LEMMA NoBonusNow ==
    ASSUME FeedInv, Rolling(frames) = {}, NEW t \in DOMAIN stack
    PROVE  "Apply" \notin StepsOf(stack[t])
  BY DEF FeedInv, BonusOver, IsStanding, Rolling

LEMMA RollFed ==
    ASSUME FeedInv, WindowInv', NEW t \in DOMAIN stack, Roll(t)
    PROVE  FeedInv'
  <1> USE DEF FeedInv, WindowInv
  <1>1. /\ stack[t].steps # <<>> /\ Head(stack[t].steps) = "Roll"
        /\ IsNewest(t, DOMAIN stack) /\ UNCHANGED settled
    BY TakesOne DEF Roll
  <1>2. Rolling(frames) = {}
    <2>1. 1 \in DOMAIN stack[t].steps /\ stack[t].steps[1] = "Roll"
      BY <1>1, StackTyped
    <2>2. t \in Offering(stack)
      BY <2>1 DEF Offering, Offers
    <2> QED BY <2>2 DEF OneToken
  <1>3. PICK k \in DOMAIN frames \cup {0, settled.frame} :
            /\ IsNewest(k, DOMAIN frames \cup {settled.frame})
            /\ OpenRoll(board, [Advanced(t) EXCEPT ![t].on = k + 1], t, k + 1,
                        stack[t].owner, stack[t].card)
    BY DEF Roll
  <1> DEFINE n == k + 1
             st == [Advanced(t) EXCEPT ![t].on = n]
  <1>4. n \in Nat /\ n \in Nat \ {0} /\ n \notin DOMAIN frames /\ n # settled.frame
    <2>1. k \in Nat /\ settled.frame \in Nat /\ DOMAIN frames \subseteq Nat
      BY NewestFrame DEF TypeInv, GoodFrames, SettledType
    <2> QED BY <1>3, <2>1 DEF IsNewest
  <1>5. /\ DOMAIN Advanced(t) = DOMAIN stack
        /\ \A u \in DOMAIN stack \ {t} : Advanced(t)[u] = stack[u]
        /\ Advanced(t)[t] \in GoodPipeline
        /\ StepsOf(Advanced(t)[t]) \subseteq StepsOf(stack[t])
        /\ ReadsWhatItAsked(Advanced(t)[t]) /\ ~ReadsNext(Advanced(t)[t])
    BY <1>1, StepOn DEF Picks
  <1>6. /\ GoodStack(st) /\ DOMAIN st = DOMAIN stack
        /\ \A u \in DOMAIN stack \ {t} : st[u] = stack[u]
        /\ st[t].steps = Advanced(t)[t].steps
    <2>1. /\ DOMAIN st = DOMAIN stack
          /\ \A u \in DOMAIN stack \ {t} : st[u] = stack[u]
          /\ st[t] = [Advanced(t)[t] EXCEPT !.on = n]
      BY <1>5
    <2>2. st[t].steps = Advanced(t)[t].steps
      BY <1>5, <2>1 DEF GoodPipeline, PipelineType
    <2>3. GoodStack(st)
      BY <1>1, <1>4, AdvancedTyped, ParkedTyped
    <2> QED BY <2>1, <2>2, <2>3
  <1>7. OpenRoll(board, st, t, n, stack[t].owner, stack[t].card)
    BY <1>3
  <1> HIDE DEF n, st
  <1>8. \A u \in DOMAIN st :
               /\ "Apply" \notin StepsOf(st[u])
               /\ ReadsWhatItAsked(st[u])
               /\ ReadsNext(st[u]) => u \in DOMAIN stack /\ st[u] = stack[u]
    <2> TAKE u \in DOMAIN st
    <2>1. CASE u = t
      <3>1. /\ StepsOf(st[t]) = StepsOf(Advanced(t)[t])
            /\ ReadsWhatItAsked(st[t]) /\ ~ReadsNext(st[t])
        BY <1>5, <1>6 DEF StepsOf, ReadsWhatItAsked, ReadsNext
      <3> QED BY <1>2, <1>5, <2>1, <3>1, NoBonusNow
    <2>2. CASE u # t
      BY <1>2, <1>6, <2>2, NoBonusNow DEF SlotsFilled
    <2> QED BY <2>1, <2>2
  <1>9. board \in Board /\ t \in DOMAIN st \cup {0} /\ IsNewest(t, DOMAIN st)
    BY <1>1, <1>6 DEF TypeInv
  <1> QED BY <1>1, <1>2, <1>4, <1>6, <1>7, <1>8, <1>9, OpenRollFed

LEMMA RollOnHeroFed ==
    ASSUME FeedInv, WindowInv', NEW p \in Player, NEW h \in Card, RollOnHero(p, h)
    PROVE  FeedInv'
  <1> USE DEF FeedInv, WindowInv
  <1>1. /\ CanSpend(p, 1) /\ OpenRoll(Paid(p, 1), stack, 0, 1, p, h)
        /\ UNCHANGED settled
    BY DEF RollOnHero
  <1>2. DOMAIN stack = {} /\ DOMAIN frames = {} /\ settled = Nothing
    BY <1>1 DEF CanSpend, Idle, IsBusy, Quiet
  <1>3. Rolling(frames) = {} /\ GoodStack(stack)
        /\ 1 \in Nat /\ 1 \notin DOMAIN frames /\ 1 # settled.frame
        /\ 0 \in DOMAIN stack \cup {0} /\ IsNewest(0, DOMAIN stack)
    BY <1>2 DEF Rolling, TypeInv, IsNewest, Nothing, NoFrame
  <1>4. Paid(p, 1) \in Board /\ Paid(p, 1).heroes = board.heroes
    BY <1>1, PaidTyped DEF Paid, TypeInv, Board
  <1> QED BY <1>1, <1>2, <1>3, <1>4, OpenRollFed

-----------------------------------------------------------------------------
(* FrameResolved is announced: what was parked on the frame has its slot.   *)

LEMMA WokenOn ==
    ASSUME TypeInv, NEW u \in DOMAIN stack
    PROVE  LET old == stack[u]  new == Woken(old) IN
           /\ new.seat = old.seat /\ new.steps = old.steps
           /\ old.on # settled.frame => new = old
           /\ old.on = settled.frame => new.on = NoFrame
           /\ old.fed => new.fed
           /\ old.on = settled.frame /\ settled.answer.slot = "pick" => new.fed
  <1> DEFINE old == stack[u]
             v == IF settled.answer.slot = "value" THEN settled.answer.value ELSE old.value
             b == old.fed \/ settled.answer.slot = "pick"
             cards == IF settled.answer.slot = "pick" THEN settled.answer.pick ELSE old.pick
  <1>1. old \in GoodPipeline
    BY StackTyped
  <1>2. CASE old.on # settled.frame
    BY <1>2 DEF Woken
  <1>3. CASE old.on = settled.frame
    <2> DEFINE new == [old EXCEPT !.on = NoFrame, !.value = v, !.fed = b, !.pick = cards]
    <2>1. Woken(old) = new
      BY <1>3 DEF Woken
    <2>2. new.seat = old.seat /\ new.steps = old.steps /\ new.on = NoFrame /\ new.fed = b
      BY <1>1 DEF GoodPipeline, PipelineType
    <2> HIDE DEF new
    <2> QED BY <1>3, <2>1, <2>2
  <1> QED BY <1>2, <1>3

LEMMA AnnounceFed ==
    ASSUME FeedInv, WindowInv', Announce
    PROVE  FeedInv'
  <1> USE DEF FeedInv, WindowInv
  <1> DEFINE awake == [i \in DOMAIN stack |-> Woken(stack[i])]
  <1>1. GoodStack(awake) /\ DOMAIN awake = DOMAIN stack
    BY WokenTyped DEF TypeInv, GoodStack
  <1>2. PICK t \in DOMAIN stack \cup {0},
             run \in FrameResolvedRuns(board, settled.cards) :
            IsNewest(t, DOMAIN stack) /\ stack' = Pushed(awake, t, run)
    BY DEF Announce
  <1>3. run \in Seq(MutePipeline)
    BY <1>2, FrameResolvedMute DEF TypeInv, SettledType
  <1>4. settled' = Nothing /\ UNCHANGED <<board, frames>>
    BY DEF Announce
  <1>5. \A u \in DOMAIN stack : awake[u] = Woken(stack[u])
    OBVIOUS
  <1> HIDE DEF awake
  <1>6. /\ \A i \in DOMAIN stack' :
              \/ i \in DOMAIN stack /\ stack'[i] = Woken(stack[i])
              \/ stack'[i] \in MutePipeline
        /\ \A i \in DOMAIN stack : i \in DOMAIN stack' /\ stack'[i] = Woken(stack[i])
        /\ StackEnds'
    BY <1>1, <1>2, <1>3, <1>5, PushedOver DEF StackEnds
  <1>7. \A i \in DOMAIN stack : StepsOf(Woken(stack[i])) = StepsOf(stack[i])
    BY WokenOn DEF StepsOf
  <1>8. StackOn
    BY <1>6, <1>7, WokenOn DEF StackOn
  <1>9. LandsOn(NoFrame)
    BY <1>6, <1>7 DEF LandsOn
  <1>10. TakersOn /\ RollsOn /\ NoNewHero
    BY <1>4 DEF TakersOn, RollsOn, NoNewHero
  <1>11. SlotsFilled'
    <2> SUFFICES ASSUME NEW i \in DOMAIN stack'
                 PROVE  ReadsWhatItAsked(stack[i])' /\ (ReadsNext(stack[i]) => SlotIsComing(stack[i]))'
      BY DEF SlotsFilled
    <2>1. CASE stack'[i] \in MutePipeline
      BY <2>1 DEF MutePipeline, ReadyPipeline, SlotIsComing, ReadsNext, ReadsWhatItAsked
    <2>2. CASE i \in DOMAIN stack /\ stack'[i] = Woken(stack[i])
      <3>1. /\ stack'[i].steps = stack[i].steps
            /\ stack[i].on # settled.frame => stack'[i] = stack[i]
            /\ stack[i].fed => stack'[i].fed
            /\ stack[i].on = settled.frame /\ settled.answer.slot = "pick" => stack'[i].fed
        BY <2>2, WokenOn
      <3>2. ReadsWhatItAsked(stack[i])'
        BY <2>2, <3>1 DEF SlotsFilled, ReadsWhatItAsked
      <3>3. ASSUME ReadsNext(stack[i])' PROVE SlotIsComing(stack[i])'
        <4>1. SlotIsComing(stack[i])
          BY <2>2, <3>1, <3>3 DEF SlotsFilled, ReadsNext
        <4> QED BY <1>4, <3>1, <4>1 DEF SlotIsComing
      <3> QED BY <3>2, <3>3
    <2> QED BY <1>6, <2>1, <2>2
  <1>12. settled'.frame \notin DOMAIN frames'
    BY <1>4 DEF Nothing, TypeInv, GoodFrames, NoFrame
  <1> QED BY <1>6, <1>8, <1>9, <1>10, <1>11, <1>12, BonusOn, TargetOn

-----------------------------------------------------------------------------
(* A window settles.  The topmost pipeline of a quiet engine waits for an   *)
(* open frame, so nothing lies over the newest one.                         *)

LEMMA Topmost ==
    ASSUME TypeInv, StackEnds, NEW t \in DOMAIN stack
    PROVE  \E u \in DOMAIN stack : u >= t /\ IsNewest(u, DOMAIN stack)
  <1>1. PICK n \in Nat : \A u \in DOMAIN stack : u <= n
    BY DEF StackEnds
  <1> DEFINE Below == {n - u : u \in DOMAIN stack}
  <1>2. DOMAIN stack \subseteq Nat
    BY DEF TypeInv, GoodStack
  <1>3. Below \in SUBSET Nat /\ Below # {}
    BY <1>1, <1>2
  <1>4. PICK k \in Below : \A m \in Below : ~(m < k)
    <2> HIDE DEF Below
    <2> QED BY <1>3, LeastElement
  <1>5. PICK u \in DOMAIN stack : k = n - u
    BY <1>4
  <1>6. \A v \in DOMAIN stack : v <= u
    <2> TAKE v \in DOMAIN stack
    <2>1. n - v \in Below
      OBVIOUS
    <2>2. ~(n - v < n - u)
      BY <1>4, <1>5, <2>1
    <2> QED BY <1>1, <1>2, <2>2
  <1>7. u >= t
    BY <1>2, <1>6
  <1> QED BY <1>6, <1>7 DEF IsNewest

LEMMA NothingOver ==
    ASSUME FeedInv, Quiet, NEW f \in DOMAIN frames, ~HasOpenFramesAfter(f),
           NEW t \in DOMAIN stack
    PROVE  ~Over(t, f)
  <1> USE DEF FeedInv, WindowInv
  <1>1. PICK u \in DOMAIN stack : u >= t /\ IsNewest(u, DOMAIN stack)
    BY Topmost
  <1>2. stack[u].on # NoFrame
    BY <1>1 DEF Quiet, Running, IsRunnable, IsTop
  <1>3. settled.frame = NoFrame
    BY QuietMeans DEF Nothing
  <1>4. stack[u].on \in DOMAIN frames
    BY <1>2, <1>3 DEF ParkedOnOpenFrame
  <1> QED BY <1>1, <1>2, <1>4 DEF Over, HasOpenFramesAfter

(* The frame is gone; the stack has lost some pipelines, or has mute ones   *)
(* on top.                                                                  *)
LEMMA SettleFed ==
    ASSUME FeedInv, WindowInv', Quiet, NEW f \in DOMAIN frames,
           frames' = Without(frames, {f}), settled'.frame = f,
           \A u \in DOMAIN stack' :
               \/ stack'[u] \in MutePipeline
               \/ u \in DOMAIN stack /\ stack'[u] = stack[u],
           StackEnds',
           frames[f].win.kind = "card" => settled'.answer.slot = "pick",
           \/ frames[f].win.kind \in Standing /\ ~HasOpenFramesAfter(f)
           \/ frames[f].win.kind \in Question /\ NoNewHero /\ LandsOn(NoFrame)
    PROVE  FeedInv'
  <1> USE DEF FeedInv, WindowInv
  <1>1. settled.frame = NoFrame
    BY QuietMeans DEF Nothing
  <1>2. /\ DOMAIN frames' = DOMAIN frames \ {f}
        /\ \A g \in DOMAIN frames' : frames'[g] = frames[g]
    BY DEF Without
  <1>3. settled'.frame \notin DOMAIN frames'
    BY <1>2
  <1>4. SlotsFilled'
    <2> SUFFICES ASSUME NEW i \in DOMAIN stack'
                 PROVE  ReadsWhatItAsked(stack[i])' /\ (ReadsNext(stack[i]) => SlotIsComing(stack[i]))'
      BY DEF SlotsFilled
    <2>1. CASE stack'[i] \in MutePipeline
      BY <2>1 DEF MutePipeline, ReadyPipeline, SlotIsComing, ReadsNext, ReadsWhatItAsked
    <2>2. CASE i \in DOMAIN stack /\ stack'[i] = stack[i]
      <3>1. ReadsWhatItAsked(stack[i])'
        BY <2>2 DEF SlotsFilled, ReadsWhatItAsked
      <3>2. ASSUME ReadsNext(stack[i])' PROVE SlotIsComing(stack[i])'
        <4>1. SlotIsComing(stack[i])
          BY <2>2, <3>2 DEF SlotsFilled, ReadsNext
        <4>2. \/ stack[i].fed
              \/ stack[i].on \in DOMAIN frames /\ frames[stack[i].on].win.kind = "card"
          BY <1>1, <4>1 DEF SlotIsComing
        <4>3. CASE stack[i].on = f
          <5>1. f # NoFrame
            BY DEF TypeInv, GoodFrames, NoFrame
          <5> QED BY <2>2, <4>2, <4>3, <5>1 DEF SlotIsComing
        <4> QED BY <1>2, <2>2, <4>2, <4>3 DEF SlotIsComing
      <3> QED BY <3>1, <3>2
    <2> QED BY <2>1, <2>2
  <1>5. CASE frames[f].win.kind \in Standing /\ ~HasOpenFramesAfter(f)
    <2>1. \A g \in DOMAIN frames' : frames'[g].win.kind \notin Standing
      BY <1>2, <1>5, OneRoll
    <2>2. TargetOver'
      BY <2>1 DEF TargetOver, Standing
    <2>3. \A t \in DOMAIN stack : "Apply" \notin StepsOf(stack[t])
      <3> SUFFICES ASSUME NEW t \in DOMAIN stack, "Apply" \in StepsOf(stack[t])
                   PROVE  FALSE
        OBVIOUS
      <3>1. PICK g \in DOMAIN frames : IsStanding(g) /\ Over(t, g)
        BY DEF BonusOver
      <3>2. g = f
        BY <1>5, <3>1, OneRoll DEF IsStanding
      <3> QED BY <1>5, <3>1, <3>2, NothingOver
    <2>4. BonusOver'
      BY <2>3 DEF BonusOver, MutePipeline
    <2> QED BY <1>3, <1>4, <2>2, <2>4
  <1>6. CASE frames[f].win.kind \in Question /\ NoNewHero /\ LandsOn(NoFrame)
    <2>1. StackOn
      BY DEF StackOn
    <2>2. frames[f].win.kind \notin Standing
      BY <1>6 DEF Question, Standing
    <2>3. TakersOn
      BY <1>2, <2>2 DEF TakersOn
    <2>4. RollsOn
      BY <1>2 DEF RollsOn
    <2> QED BY <1>3, <1>4, <1>6, <2>1, <2>3, <2>4, BonusOn, TargetOn
  <1> QED BY <1>5, <1>6

LEMMA HeroesStay ==
    ASSUME TypeInv, NEW f \in DOMAIN frames
    PROVE  Released(f) \in Board /\ Released(f).heroes = board.heroes
  <1> DEFINE a == [board EXCEPT !.instance =
                        [p \in Player |-> board.instance[p] \ Spent(f)[p]]]
  <1>1. Released(f) \in Board
    BY ReleasedType DEF TypeInv
  <1>2. a \in Board /\ a.heroes = board.heroes
    BY DEF TypeInv, Board
  <1>3. Released(f) = PutAway(a, AllSpent(f))
    BY DEF Released
  <1> HIDE DEF a
  <1> QED BY <1>1, <1>2, <1>3, HeroesKept

(* Mute pipelines on a stack. *)
LEMMA MuteOnTop ==
    ASSUME NEW st, GoodStack(st), NEW t \in DOMAIN st \cup {0},
           IsNewest(t, DOMAIN st), NEW run \in Seq(MutePipeline),
           stack' = Pushed(st, t, run)
    PROVE  /\ \A u \in DOMAIN stack' :
                 \/ stack'[u] \in MutePipeline
                 \/ u \in DOMAIN st /\ stack'[u] = st[u]
           /\ \A u \in DOMAIN st : u \in DOMAIN stack' /\ stack'[u] = st[u]
           /\ StackEnds'
  <1>1. /\ \A i \in DOMAIN stack' :
              \/ i \in DOMAIN st /\ stack'[i] = st[i]
              \/ stack'[i] \in MutePipeline /\ i > t
        /\ \A i \in DOMAIN st : i <= t /\ i \in DOMAIN stack' /\ stack'[i] = st[i]
        /\ \E n \in Nat : \A i \in DOMAIN stack' : i <= n
    BY PushedOver
  <1> QED BY <1>1 DEF StackEnds

LEMMA ResolveStandingFed ==
    ASSUME FeedInv, WindowInv', Quiet, NEW f \in DOMAIN frames, ResolveStanding(f)
    PROVE  FeedInv'
  <1> USE DEF FeedInv, WindowInv
  <1> DEFINE win == frames[f].win
             left == Without(stack, Parked(stack, f))
             Gone(st) == \A u \in DOMAIN st :
                            \/ st[u] \in MutePipeline
                            \/ u \in DOMAIN stack /\ st[u] = stack[u]
  <1>1. /\ frames' = Without(frames, {f}) /\ ~HasOpenFramesAfter(f)
        /\ \/ win.kind = "roll" /\ SettleRoll(f)
           \/ win.kind = "attack" /\ SettleAttack(f)
           \/ win.kind = "challenge" /\ SettleUncontested(f)
           \/ win.kind = "challenge" /\ SettleContest(f)
    BY DEF ResolveStanding
  <1>2. settled'.frame = f
    BY <1>1 DEF SettleRoll, SettleAttack, SettleUncontested, SettleContest, Nothing
  <1>3. /\ GoodStack(left) /\ Gone(left)
        /\ \E n \in Nat : \A u \in DOMAIN left : u <= n
    <2>1. GoodStack(left)
      BY WithoutStack DEF TypeInv
    <2>2. Gone(left)
      BY DEF Without
    <2>3. DOMAIN left \subseteq DOMAIN stack
      BY DEF Without
    <2> HIDE DEF left
    <2> QED BY <2>1, <2>2, <2>3 DEF StackEnds
  <1>4. CASE stack' = left \/ stack' = stack
    <2>1. Gone(stack') /\ StackEnds'
      BY <1>3, <1>4 DEF StackEnds
    <2>2. win.kind \in Standing /\ win.kind # "card"
      BY <1>1 DEF Standing
    <2> QED BY <1>1, <1>2, <2>1, <2>2, SettleFed
  <1>5. ASSUME NEW st \in {stack, left}, NEW t \in DOMAIN st \cup {0},
               IsNewest(t, DOMAIN st), NEW run \in Seq(MutePipeline),
               stack' = Pushed(st, t, run)
        PROVE  FeedInv'
    <2>1. GoodStack(st) /\ Gone(st)
      BY <1>3 DEF TypeInv
    <2> HIDE DEF left
    <2>2. Gone(stack') /\ StackEnds'
      <3>1. /\ \A u \in DOMAIN stack' :
                 \/ stack'[u] \in MutePipeline
                 \/ u \in DOMAIN st /\ stack'[u] = st[u]
            /\ StackEnds'
        BY <1>5, <2>1, MuteOnTop
      <3> QED BY <2>1, <3>1
    <2>3. win.kind \in Standing /\ win.kind # "card"
      BY <1>1 DEF Standing
    <2> QED BY <1>1, <1>2, <2>2, <2>3, SettleFed
  <1>6. CASE SettleRoll(f) /\ win.kind = "roll" /\ win.margin >= 0
    <2>1. PICK t \in DOMAIN stack \cup {0},
               run \in RollSuccessRuns(Released(f), win) :
              IsNewest(t, DOMAIN stack) /\ stack' = Pushed(stack, t, run)
      BY <1>6 DEF SettleRoll
    <2>2. win.about \in TargetHero /\ InAParty(Released(f), win.about) => win.aimed
      <3> SUFFICES ASSUME win.about \in TargetHero, InAParty(Released(f), win.about), ~win.aimed
                   PROVE  FALSE
        OBVIOUS
      <3>1. InAParty(board, win.about)
        BY HeroesStay DEF InAParty
      <3>2. PICK u \in DOMAIN stack : Over(u, f)
        BY <1>6, <3>1 DEF TargetOver
      <3> QED BY <1>1, <3>2, NothingOver
    <2>3. win \in GoodWindow /\ Released(f) \in Board
      BY HeroesStay DEF TypeInv, GoodFrames
    <2>4. run \in Seq(MutePipeline)
      <3> DEFINE b == Released(f)
      <3>1. b \in Board /\ win \in GoodWindow /\ run \in RollSuccessRuns(b, win)
            /\ (win.about \in TargetHero /\ InAParty(b, win.about) => win.aimed)
        BY <2>1, <2>2, <2>3
      <3> HIDE DEF b, win
      <3> QED BY <3>1, RollSuccessMute
    <2> QED BY <1>5, <2>1, <2>4
  <1>7. CASE SettleRoll(f) /\ ~(win.margin >= 0)
    <2>1. stack' = left
      BY <1>7 DEF SettleRoll
    <2> QED BY <1>4, <2>1
  <1>8. CASE SettleAttack(f) /\ win.kind = "attack"
    <2> DEFINE bite == Pipeline(win.about, win.by, <<"AskOwnHero", "Sacrifice">>)
    <2>1. \/ stack' = stack \/ stack' = left
          \/ \E t \in DOMAIN left \cup {0} :
                IsNewest(t, DOMAIN left) /\ stack' = Pushed(left, t, <<bite>>)
      BY <1>8 DEF SettleAttack
    <2>2. <<bite>> \in Seq(MutePipeline)
      <3>1. bite \in MutePipeline
        BY FramesTyped, MutePrograms, MadeMute
      <3> HIDE DEF bite
      <3> QED BY <3>1
    <2> HIDE DEF bite
    <2> QED BY <1>4, <1>5, <2>1, <2>2
  <1>9. CASE SettleUncontested(f)
    <2>1. stack' = stack
      BY <1>9 DEF SettleUncontested
    <2> QED BY <1>4, <2>1
  <1>10. CASE SettleContest(f)
    <2>1. stack' = stack \/ stack' = left
      BY <1>10 DEF SettleContest
    <2> QED BY <1>4, <2>1
  <1> QED BY <1>1, <1>6, <1>7, <1>8, <1>9, <1>10

LEMMA ResolveQuestionFed ==
    ASSUME FeedInv, WindowInv', Quiet, NEW f \in DOMAIN frames, NEW answer, NEW yes,
           frames[f].win.kind \in Question,
           yes => frames[f].win.kind = "confirm",
           frames[f].win.kind = "card" => answer.slot = "pick",
           ResolveQuestion(f, answer, yes)
    PROVE  FeedInv'
  <1> USE DEF FeedInv, WindowInv
  <1> DEFINE win == frames[f].win
             run == TaskConfirmedRun(Released(f), win)
  <1>1. /\ frames' = Without(frames, {f}) /\ board' = Released(f)
        /\ settled'.frame = f /\ settled'.answer = answer
    BY DEF ResolveQuestion
  <1>2. NoNewHero
    BY <1>1, HeroesStay DEF NoNewHero, InAParty
  <1>3. /\ \A u \in DOMAIN stack' :
              \/ stack'[u] \in MutePipeline
              \/ u \in DOMAIN stack /\ stack'[u] = stack[u]
        /\ StackEnds' /\ LandsOn(NoFrame)
    <2>1. CASE stack' = stack
      BY <2>1 DEF StackEnds, LandsOn
    <2>2. CASE stack' # stack
      <3>1. yes
        BY <2>2 DEF ResolveQuestion
      <3>2. PICK t \in DOMAIN stack \cup {0} :
                IsNewest(t, DOMAIN stack) /\ stack' = Pushed(stack, t, run)
        BY <2>2 DEF ResolveQuestion
      <3>3. run \in Seq(MutePipeline)
        BY <3>1, TaskConfirmedMute DEF TypeInv, GoodFrames
      <3> HIDE DEF run
      <3>4. GoodStack(stack)
        BY DEF TypeInv
      <3>5. /\ \A u \in DOMAIN stack' :
                 \/ stack'[u] \in MutePipeline
                 \/ u \in DOMAIN stack /\ stack'[u] = stack[u]
            /\ \A u \in DOMAIN stack : u \in DOMAIN stack' /\ stack'[u] = stack[u]
            /\ StackEnds'
        BY <3>2, <3>3, <3>4, MuteOnTop
      <3> QED BY <3>5 DEF LandsOn
    <2> QED BY <2>1, <2>2
  <1> QED BY <1>1, <1>2, <1>3, SettleFed

LEMMA AnswerFed ==
    ASSUME FeedInv, WindowInv', NEW f \in DOMAIN frames, Answer(f) \/ Lapse(f)
    PROVE  FeedInv'
  <1>1. Quiet
    BY DEF Answer, Lapse
  <1>2. CASE ResolveStanding(f)
    BY <1>1, <1>2, ResolveStandingFed
  <1>3. CASE \E answer : /\ ResolveQuestion(f, answer, FALSE)
                         /\ frames[f].win.kind \in Question
                         /\ frames[f].win.kind = "card" => answer.slot = "pick"
    BY <1>1, <1>3, ResolveQuestionFed
  <1>4. CASE /\ frames[f].win.kind = "confirm"
             /\ \E yes \in BOOLEAN : ResolveQuestion(f, NoAnswer, yes)
    BY <1>1, <1>4, ResolveQuestionFed DEF Question
  <1>5. \A cards : CardAnswer(cards).slot = "pick"
    BY DEF CardAnswer, NoAnswer
  <1>6. CASE frames[f].win.kind \in {"value", "card"}
             /\ \E answer : ResolveQuestion(f, answer, FALSE)
                            /\ (frames[f].win.kind = "card" => answer.slot = "pick")
    BY <1>3, <1>6 DEF Question
  <1>7. CASE Answer(f)
    BY <1>4, <1>5, <1>6, <1>7 DEF Answer
  <1>8. CASE Lapse(f)
    BY <1>2, <1>4, <1>5, <1>6, <1>8 DEF Lapse
  <1> QED BY <1>7, <1>8

-----------------------------------------------------------------------------
(* Seats *)

(* Nothing but who has passed changes in a window. *)
LEMMA PassesOnly ==
    ASSUME TypeInv, NEW f \in DOMAIN frames, NEW seats,
           frames' = [frames EXCEPT ![f].win.passes = seats]
    PROVE  /\ DOMAIN frames' = DOMAIN frames
           /\ TakersOn /\ RollsOn /\ CardsAskedOn
  <1> DEFINE w == [frames[f].win EXCEPT !.passes = seats]
  <1>1. frames[f] \in [snap : Board, win : WindowType]
    BY DEF TypeInv, GoodFrames, GoodWindow
  <1>2. frames'[f].win = w
    BY <1>1
  <1>3. /\ w.kind = frames[f].win.kind /\ w.by = frames[f].win.by
        /\ w.about = frames[f].win.about /\ w.rival = frames[f].win.rival
        /\ w.asked = frames[f].win.asked /\ w.margin = frames[f].win.margin
        /\ w.aimed = frames[f].win.aimed
    BY <1>1 DEF WindowType
  <1>4. /\ DOMAIN frames' = DOMAIN frames
        /\ \A g \in DOMAIN frames : g # f => frames'[g] = frames[g]
    OBVIOUS
  <1> HIDE DEF w
  <1> QED BY <1>2, <1>3, <1>4 DEF TakersOn, RollsOn, CardsAskedOn

LEMMA PassFed ==
    ASSUME FeedInv, WindowInv', NEW p \in Player, NEW f \in DOMAIN frames, Pass(p, f)
    PROVE  FeedInv'
  <1> USE DEF FeedInv, WindowInv
  <1>1. CASE ResolveStanding(f)
    BY <1>1, ResolveStandingFed DEF Pass
  <1>2. CASE ~ResolveStanding(f)
    <2>1. PICK seats : frames' = [frames EXCEPT ![f].win.passes = seats]
      BY <1>2 DEF Pass
    <2>2. UNCHANGED <<board, stack, settled>>
      BY <1>2 DEF Pass
    <2>3. StackOn /\ SlotsOn /\ StackEnds' /\ LandsOn(NoFrame) /\ NoNewHero
      BY <2>2 DEF StackOn, SlotsOn, StackEnds, LandsOn, NoNewHero
    <2>4. DOMAIN frames' = DOMAIN frames /\ TakersOn /\ RollsOn /\ CardsAskedOn
      BY <2>1, PassesOnly
    <2> QED BY <2>2, <2>3, <2>4, TargetOn, StillFed
  <1> QED BY <1>1, <1>2

LEMMA SpendCardOn ==
    ASSUME TypeInv, NEW p \in Player, NEW c, NEW f \in DOMAIN frames, SpendCard(p, c, f)
    PROVE  /\ DOMAIN frames' = DOMAIN frames
           /\ TakersOn /\ RollsOn /\ CardsAskedOn /\ NoNewHero
  <1>1. frames' = [frames EXCEPT ![f].win.passes = {}]
    BY DEF SpendCard
  <1>2. board'.heroes = board.heroes
    BY DEF SpendCard, TypeInv, Board
  <1> QED BY <1>1, <1>2, PassesOnly DEF NoNewHero, InAParty

LEMMA PlayModifierFed ==
    ASSUME FeedInv, WindowInv', NEW p \in Player, NEW c \in Card, NEW v \in ModifierValue,
           NEW f \in DOMAIN frames, NEW seat \in Player, PlayModifier(p, c, v, f, seat)
    PROVE  FeedInv'
  <1> USE DEF FeedInv, WindowInv
  <1> DEFINE For == {r \in ReadyPipeline : "Apply" \in StepsOf(r) => r.seat = seat}
  <1>1. /\ IsStanding(f) /\ AcceptsModifierFor(f, seat)
        /\ SpendCard(p, c, f) /\ UNCHANGED settled
    BY DEF PlayModifier
  <1>2. PICK t \in DOMAIN stack \cup {0}, run \in ModifierPlayedRuns(p, c, v, seat) :
            IsNewest(t, DOMAIN stack) /\ stack' = Pushed(stack, t, run)
    BY DEF PlayModifier
  <1>3. run \in Seq(For)
    <2>1. v \in Int
      BY ConstantsAssumption
    <2> QED BY <1>2, <2>1, ModifierPlayedReady
  <1>4. DOMAIN frames' = DOMAIN frames
        /\ TakersOn /\ RollsOn /\ CardsAskedOn /\ NoNewHero
    BY <1>1, SpendCardOn
  <1>5. /\ \A i \in DOMAIN stack' :
              \/ i \in DOMAIN stack /\ stack'[i] = stack[i]
              \/ stack'[i] \in For /\ i > t
        /\ \A i \in DOMAIN stack : i <= t /\ i \in DOMAIN stack' /\ stack'[i] = stack[i]
        /\ StackEnds'
    <2> HIDE DEF For
    <2>1. GoodStack(stack)
      BY DEF TypeInv
    <2> QED BY <1>2, <1>3, <2>1, PushedOver DEF StackEnds
  <1>6. StackAndReady /\ SlotsOn /\ LandsOn(NoFrame)
    BY <1>5 DEF StackAndReady, SlotsOn, LandsOn
  <1>7. ASSUME NEW i \in DOMAIN stack', "Apply" \in StepsOf(stack'[i])
        PROVE  \E g \in DOMAIN frames :
                   /\ IsStanding(g) /\ AcceptsModifierFor(g, stack'[i].seat)
                   /\ Over(i, g)'
    <2>1. CASE i \in DOMAIN stack /\ stack'[i] = stack[i]
      <3>1. PICK g \in DOMAIN frames :
                IsStanding(g) /\ AcceptsModifierFor(g, stack[i].seat) /\ Over(i, g)
        BY <1>7, <2>1 DEF BonusOver
      <3> QED BY <1>6, <2>1, <3>1, OverOn
    <2>2. CASE stack'[i] \in For /\ i > t
      <3>1. stack'[i].seat = seat
        BY <1>7, <2>2
      <3>2. Over(i, f)'
        <4> SUFFICES ASSUME NEW u \in DOMAIN stack', u >= i PROVE stack'[u].on = NoFrame
          BY DEF Over
        <4>1. t \in Nat /\ u \in Nat /\ i \in Nat
          BY DEF TypeInv, GoodStack
        <4>2. stack'[u] \in For
          BY <1>5, <2>2, <4>1
        <4> QED BY <4>2 DEF ReadyPipeline
      <3> QED BY <1>1, <3>1, <3>2
    <2> QED BY <1>5, <2>1, <2>2
  <1>8. BonusOver'
    <2> SUFFICES ASSUME NEW i \in DOMAIN stack', "Apply" \in StepsOf(stack'[i])
                 PROVE  \E g \in DOMAIN frames' :
                         IsStanding(g)' /\ AcceptsModifierFor(g, stack[i].seat)' /\ Over(i, g)'
      BY DEF BonusOver
    <2>1. PICK g \in DOMAIN frames :
                   /\ IsStanding(g) /\ AcceptsModifierFor(g, stack'[i].seat)
                   /\ Over(i, g)'
      BY <1>7
    <2>2. g \in DOMAIN frames' /\ IsStanding(g)'
      BY <1>4, <2>1 DEF TakersOn, IsStanding
    <2>3. AcceptsModifierFor(g, stack[i].seat)'
      BY <1>4, <2>1, <2>2 DEF TakersOn, IsStanding, AcceptsModifierFor
    <2> QED BY <2>1, <2>2, <2>3
  <1>9. SlotsFilled' /\ TargetOver'
    BY <1>1, <1>4, <1>6, SlotsStay, TargetOn
  <1> QED BY <1>1, <1>4, <1>5, <1>8, <1>9

LEMMA PlayChallengeFed ==
    ASSUME FeedInv, WindowInv', NEW p \in Player, NEW c \in Card,
           NEW f \in DOMAIN frames, PlayChallenge(p, c, f)
    PROVE  FeedInv'
  <1> USE DEF FeedInv, WindowInv
  <1> DEFINE run == ChallengePlayedRuns(p, c, frames[f].win.by)
  <1>1. /\ SpendCard(p, c, f) /\ UNCHANGED settled
        /\ \E t \in DOMAIN stack \cup {0} :
              IsNewest(t, DOMAIN stack) /\ stack' = Pushed(stack, t, run)
    BY DEF PlayChallenge
  <1>2. run \in Seq(MutePipeline)
    BY FramesTyped, ChallengePlayedMute
  <1> HIDE DEF run
  <1>3. StackOn /\ SlotsOn /\ StackEnds' /\ LandsOn(NoFrame)
    BY <1>1, <1>2, PushedMute
  <1>4. DOMAIN frames' = DOMAIN frames
        /\ TakersOn /\ RollsOn /\ CardsAskedOn /\ NoNewHero
    BY <1>1, SpendCardOn
  <1> QED BY <1>1, <1>3, <1>4, TargetOn, StillFed

(* On an idle board nothing is on its way. *)
LEMMA IdleFed ==
    ASSUME FeedInv, WindowInv', Idle, UNCHANGED <<stack, settled>>,
           \/ UNCHANGED frames
           \/ \E b, win : OpenOver(b, win) /\ win.kind \in {"challenge", "attack"}
    PROVE  FeedInv'
  <1> USE DEF FeedInv, WindowInv
  <1>1. DOMAIN stack = {} /\ DOMAIN frames = {} /\ settled = Nothing
    BY DEF Idle, IsBusy, Quiet
  <1>2. /\ DOMAIN frames' \subseteq {1}
        /\ \A f \in DOMAIN frames' : frames'[f].win.kind # "roll"
    BY <1>1 DEF OpenOver
  <1>3. StackEnds' /\ SlotsFilled' /\ BonusOver'
    BY <1>1 DEF StackEnds, SlotsFilled, BonusOver
  <1>4. TargetOver'
    BY <1>2 DEF TargetOver
  <1>5. settled'.frame \notin DOMAIN frames'
    BY <1>1, <1>2 DEF Nothing, NoFrame
  <1> QED BY <1>3, <1>4, <1>5

LEMMA PlaysFed ==
    ASSUME FeedInv, WindowInv', NEW p \in Player,
           \/ \E c : PlayHero(p, c) \/ PlayMagic(p, c)
           \/ \E m : AttackMonster(p, m)
           \/ DrawCard(p) \/ EndTurn(p)
    PROVE  FeedInv'
  <1>1. Idle /\ UNCHANGED <<stack, settled>>
    BY DEF PlayHero, PlayMagic, AttackMonster, DrawCard, EndTurn, CanSpend
  <1>2. CASE DrawCard(p) \/ EndTurn(p)
    BY <1>1, <1>2, IdleFed DEF DrawCard, EndTurn
  <1>3. CASE \E c : PlayHero(p, c) \/ PlayMagic(p, c)
    <2>1. PICK c, b : OpenOver(b, Window("challenge", p, c))
      BY <1>3 DEF PlayHero, PlayMagic
    <2>2. Window("challenge", p, c).kind = "challenge"
      BY DEF Window
    <2> QED BY <1>1, <2>1, <2>2, IdleFed
  <1>4. CASE \E m : AttackMonster(p, m)
    <2>1. PICK m, d : OpenOver(board', [Window("attack", p, m) EXCEPT !.margin = d])
      BY <1>4 DEF AttackMonster
    <2>2. [Window("attack", p, m) EXCEPT !.margin = d].kind = "attack"
      BY DEF Window
    <2> QED BY <1>1, <2>1, <2>2, IdleFed
  <1> QED BY <1>2, <1>3, <1>4

-----------------------------------------------------------------------------
LEMMA RunStepFed ==
    ASSUME FeedInv, WindowInv', RunStep
    PROVE  FeedInv'
  BY QuestionsFed, EffectsFed, StartFed, ApplyFed, LandFed, RollFed, FinishFed
     DEF RunStep

LEMMA CommandFed ==
    ASSUME FeedInv, WindowInv', Command
    PROVE  FeedInv'
  <1>1. ASSUME NEW p \in Player
        PROVE  board.hand[p] \subseteq Card /\ board.heroes[p] \subseteq Card
    BY DEF FeedInv, WindowInv, TypeInv, Board
  <1>2. CASE \E p \in Player :
                 \/ \E c : PlayHero(p, c) \/ PlayMagic(p, c)
                 \/ \E m : AttackMonster(p, m)
                 \/ DrawCard(p) \/ EndTurn(p)
    BY <1>2, PlaysFed
  <1>3. CASE \E p \in Player, h \in Card : RollOnHero(p, h)
    BY <1>3, RollOnHeroFed
  <1>4. CASE \E p \in Player, f \in DOMAIN frames, c \in Card, v \in ModifierValue,
                seat \in Player : PlayModifier(p, c, v, f, seat)
    BY <1>4, PlayModifierFed
  <1>5. CASE \E p \in Player, f \in DOMAIN frames, c \in Card : PlayChallenge(p, c, f)
    BY <1>5, PlayChallengeFed
  <1>6. CASE \E p \in Player, f \in DOMAIN frames : Pass(p, f)
    BY <1>6, PassFed
  <1>7. CASE \E f \in DOMAIN frames : Answer(f)
    BY <1>7, AnswerFed
  <1> QED BY <1>1, <1>2, <1>3, <1>4, <1>5, <1>6, <1>7 DEF Command

LEMMA InitFed == Init => FeedInv
  <1> SUFFICES ASSUME Init PROVE FeedInv
    OBVIOUS
  <1>1. DOMAIN frames = {} /\ DOMAIN stack = {}
    BY DEF Init
  <1>2. StackEnds /\ SlotsFilled /\ BonusOver /\ TargetOver
    BY <1>1 DEF StackEnds, SlotsFilled, BonusOver, TargetOver
  <1> QED BY <1>1, <1>2, InitWindows DEF FeedInv

LEMMA NextFed == FeedInv /\ [Next]_vars => FeedInv'
  <1> SUFFICES ASSUME FeedInv, [Next]_vars PROVE FeedInv'
    OBVIOUS
  <1>1. WindowInv'
    BY NextWindows DEF FeedInv
  <1>2. CASE RunStep
    BY <1>1, <1>2, RunStepFed
  <1>3. CASE Announce
    BY <1>1, <1>3, AnnounceFed
  <1>4. CASE Command
    BY <1>1, <1>4, CommandFed
  <1>5. CASE \E f \in DOMAIN frames : Lapse(f)
    BY <1>1, <1>5, AnswerFed
  <1>6. CASE UNCHANGED vars
    <2>1. StackEnds' /\ settled'.frame \notin DOMAIN frames'
      BY <1>6 DEF FeedInv, vars, StackEnds
    <2>2. SlotsFilled'
      BY <1>6 DEF FeedInv, vars, SlotsFilled, ReadsWhatItAsked, ReadsNext, SlotIsComing
    <2>3. BonusOver' /\ TargetOver'
      BY <1>6 DEF FeedInv, vars, BonusOver, TargetOver, IsStanding,
                  AcceptsModifierFor, Over
    <2> QED BY <1>1, <2>1, <2>2, <2>3 DEF FeedInv
  <1> QED BY <1>2, <1>3, <1>4, <1>5, <1>6 DEF Next

(* The invariant, on any table: slots are filled before they are read, and  *)
(* bonuses and targets lie over the window they are meant for.              *)
THEOREM FedSound == Spec => []FeedInv
  BY InitFed, NextFed, PTL DEF Spec

(* On any table the throws of DiscardTask, DestroyTask and SacrificeTask,   *)
(* for a slot nothing has written (tasks.ts), are dead code: whatever order *)
(* seats answer, pass and fall silent in, a step that reads a slot finds it *)
(* written.                                                                 *)
THEOREM StepsAreFed == Spec => []NoStepUnfed
  <1>1. FeedInv => NoStepUnfed
    <2> SUFFICES ASSUME FeedInv, NEW t \in DOMAIN stack, IsRunnable(t),
                        stack[t].steps # <<>>,
                        Head(stack[t].steps) \in {"Discard", "Destroy", "Sacrifice"}
                 PROVE  stack[t].fed
      BY DEF NoStepUnfed
    <2>1. ReadsNext(stack[t]) /\ stack[t].on = NoFrame
      BY DEF ReadsNext, Reads, IsRunnable
    <2>2. SlotIsComing(stack[t])
      BY <2>1 DEF FeedInv, SlotsFilled
    <2>3. NoFrame \notin DOMAIN frames
      BY DEF FeedInv, WindowInv, TypeInv, GoodFrames, NoFrame
    <2> QED BY <2>1, <2>2, <2>3 DEF SlotIsComing
  <1> QED BY <1>1, FedSound, PTL

(* On any table a modifier that was paid for finds its roll still open.     *)
(* ApplyModifierTask (modifier-tasks.ts) provides for the bonus arriving    *)
(* late and drops it; that never happens, since no window settles while a   *)
(* question, the Horn's own included, stands over it.                       *)
THEOREM BonusesCome == Spec => []NoBonusComesLate
  <1>1. FeedInv => NoBonusComesLate
    <2> SUFFICES ASSUME FeedInv, NEW t \in DOMAIN stack, Takes(t, "Apply")
                 PROVE  \E f \in DOMAIN frames :
                            IsStanding(f) /\ AcceptsModifierFor(f, stack[t].seat)
      BY DEF NoBonusComesLate
    <2>1. "Apply" \in StepsOf(stack[t])
      <3>1. /\ stack[t].steps \in Seq(StepName) /\ stack[t].steps # <<>>
            /\ Head(stack[t].steps) = "Apply"
        BY StackTyped DEF Takes, FeedInv, WindowInv
      <3>2. 1 \in DOMAIN stack[t].steps /\ stack[t].steps[1] = "Apply"
        BY <3>1
      <3> QED BY <3>2 DEF StepsOf
    <2> QED BY <2>1 DEF FeedInv, BonusOver
  <1> QED BY <1>1, FedSound, PTL

-----------------------------------------------------------------------------
(* Every card in one place.  A rollback puts back a board that is several   *)
(* commands old, so the invariant speaks of the snapshots as well: whatever *)
(* is in a hand, or was spent, while a window stands, was in that hand when *)
(* the window opened.  That is not so of a card drawn under the window, as  *)
(* Crowned Serpent has it: the theorems suppose that no card is.            *)

NoDrawUnderWindow ==
    (\E f \in DOMAIN frames : IsStanding(f)) =>
        \A t \in DOMAIN stack : ~Takes(t, "Draw")

WithSeat(b, p) == b.hand[p] \cup b.instance[p] \cup b.heroes[p]
WithSeats(b, c) == \E p \in Player : c \in WithSeat(b, p)

Once(b, c) ==
    /\ \A p, q \in Player : c \in WithSeat(b, p) /\ c \in WithSeat(b, q) => p = q
    /\ \A p \in Player :
          /\ ~(c \in b.hand[p] /\ c \in b.instance[p])
          /\ ~(c \in b.hand[p] /\ c \in b.heroes[p])
          /\ ~(c \in b.instance[p] /\ c \in b.heroes[p])
    /\ IF WithSeats(b, c) THEN c \notin b.deck /\ b.discard[c] = 0
       ELSE IF c \in b.deck THEN b.discard[c] = 0 ELSE b.discard[c] = 1

Nowhere(b, c) == ~WithSeats(b, c) /\ c \notin b.deck /\ b.discard[c] = 0

MonsterOnce(b, m) ==
    /\ \A p, q \in Player : m \in b.slain[p] /\ m \in b.slain[q] => p = q
    /\ IF \E p \in Player : m \in b.slain[p]
       THEN m \notin b.row /\ m \notin b.monsterDeck
       ELSE (m \in b.row) # (m \in b.monsterDeck)

AllOnce(b) ==
    /\ \A c \in Card : Once(b, c)
    /\ \A m \in Monster : MonsterOnce(b, m)

(* What a rollback of the standing window f needs of its snapshot. *)
SnapKept(f) ==
    LET snap == frames[f].snap  win == frames[f].win IN
    /\ \A p \in Player :
          /\ snap.instance[p] = {}
          /\ board.hand[p] \subseteq snap.hand[p]
          /\ board.instance[p] \ SubjectOf(win) \subseteq snap.hand[p]
    /\ \A c \in Card : IF c \in SubjectOf(win) THEN Nowhere(snap, c) ELSE Once(snap, c)
    /\ \A m \in Monster : MonsterOnce(snap, m)

SnapsKept == \A f \in DOMAIN frames : IsStanding(f) => SnapKept(f)

(* A contest stands under everything else, and a card that is contested in  *)
(* front of its seat is a magic card.                                       *)
ContestsFirst ==
    \A f \in DOMAIN frames :
        frames[f].win.kind = "challenge" =>
            /\ \A g \in DOMAIN frames : g >= f
            /\ \A p \in Player :
                  frames[f].win.about \in board.instance[p] => frames[f].win.about \in Magic

PreyInRow ==
    \A f \in DOMAIN frames :
        frames[f].win.kind = "attack" => frames[f].win.about \in board.row

(* When no window stands, a card in front of a seat is a magic card at      *)
(* work: its effect is about to come, on the stack, or being put away.  It  *)
(* lay there before any question that is open was asked.                    *)
Carries(run, c, p) ==
    run.card = c /\ (~run.system \/ (run.owner = p /\ run.steps = <<"Dispose">>))

AtWork(c, p) ==
    \/ c \in settled.cards /\ c \in Magic
    \/ \E t \in DOMAIN stack : Carries(stack[t], c, p)

PlayedAtWork ==
    (\A f \in DOMAIN frames : ~IsStanding(f)) =>
        \A p \in Player : \A c \in board.instance[p] :
            AtWork(c, p) /\ \A g \in DOMAIN frames : c \in frames[g].snap.instance[p]

(* Nothing lies in front of a seat when a hero is offered its roll, and     *)
(* nothing but the card a contest was about when that has settled.          *)
NothingPlayed == \A p \in Player : board.instance[p] = {}

OffersClean ==
    \/ NothingPlayed
    \/ /\ Offering(stack) = {}
       /\ \A f \in Rolling(frames) : frames[f].win.kind # "confirm"

ContestClean ==
    settled.cards # {} =>
        \E c \in Card : settled.cards = {c} /\ \A p \in Player : board.instance[p] \subseteq {c}

CardsInv ==
    /\ WindowInv
    /\ AllOnce(board)
    /\ SnapsKept /\ ContestsFirst /\ PreyInRow
    /\ PlayedAtWork /\ OffersClean /\ ContestClean

-----------------------------------------------------------------------------
(* Boards.  What moves a card from one place to another keeps it in one.    *)

SameZones(d, b) ==
    /\ d.hand = b.hand /\ d.instance = b.instance /\ d.heroes = b.heroes
    /\ d.deck = b.deck /\ d.discard = b.discard
SameMonsters(d, b) ==
    d.slain = b.slain /\ d.row = b.row /\ d.monsterDeck = b.monsterDeck

LEMMA SameZonesOnce ==
    ASSUME NEW b, NEW d, SameZones(d, b), NEW c, Once(b, c)
    PROVE  Once(d, c)
  BY DEF SameZones, Once, WithSeats, WithSeat

LEMMA SameMonstersOnce ==
    ASSUME NEW b, NEW d, SameMonsters(d, b), NEW m, MonsterOnce(b, m)
    PROVE  MonsterOnce(d, m)
  BY DEF SameMonsters, MonsterOnce

(* Some cards are put away: those that are with a seat no more. *)
PutsAway(b, d) ==
    /\ \A p \in Player :
          /\ d.hand[p] \subseteq b.hand[p]
          /\ d.instance[p] \subseteq b.instance[p]
          /\ d.heroes[p] \subseteq b.heroes[p]
    /\ d.deck = b.deck
    /\ \A c \in Card :
          d.discard[c] = b.discard[c]
                           + IF WithSeats(b, c) /\ ~WithSeats(d, c) THEN 1 ELSE 0

LEMMA PutsAwayOnce ==
    ASSUME NEW b, NEW d, PutsAway(b, d), NEW c \in Card, Once(b, c)
    PROVE  Once(d, c)
  <1>1. \A p \in Player : c \in WithSeat(d, p) => c \in WithSeat(b, p)
    BY DEF PutsAway, WithSeat
  <1>2. WithSeats(d, c) => WithSeats(b, c)
    BY <1>1 DEF WithSeats
  <1>3. d.discard[c] = b.discard[c] + IF WithSeats(b, c) /\ ~WithSeats(d, c) THEN 1 ELSE 0
    BY DEF PutsAway
  <1>4. IF WithSeats(d, c) THEN c \notin d.deck /\ d.discard[c] = 0
        ELSE IF c \in d.deck THEN d.discard[c] = 0 ELSE d.discard[c] = 1
    BY <1>2, <1>3 DEF Once, PutsAway
  <1>5. \A p \in Player :
          /\ ~(c \in d.hand[p] /\ c \in d.instance[p])
          /\ ~(c \in d.hand[p] /\ c \in d.heroes[p])
          /\ ~(c \in d.instance[p] /\ c \in d.heroes[p])
    BY DEF PutsAway, Once
  <1>6. \A p, q \in Player : c \in WithSeat(d, p) /\ c \in WithSeat(d, q) => p = q
    BY <1>1 DEF Once
  <1> QED BY <1>4, <1>5, <1>6 DEF Once

LEMMA PutAwayFields ==
    ASSUME NEW b, NEW cards
    PROVE  /\ PutAway(b, cards).hand = b.hand /\ PutAway(b, cards).instance = b.instance
           /\ PutAway(b, cards).heroes = b.heroes /\ PutAway(b, cards).deck = b.deck
           /\ b \in Board =>
                \A c \in Card : PutAway(b, cards).discard[c]
                                  = b.discard[c] + IF c \in cards THEN 1 ELSE 0
           /\ SameMonsters(PutAway(b, cards), b)
  BY DEF PutAway, SameMonsters, Board

(* Whose cards a board holds where: the parts Once reads. *)
LEMMA RefilledOnce ==
    ASSUME NEW b \in Board, AllOnce(b)
    PROVE  /\ AllOnce(Refilled(b))
           /\ Refilled(b).hand = b.hand /\ Refilled(b).instance = b.instance
           /\ Refilled(b).row = b.row
  <1> DEFINE d == [b EXCEPT !.deck = {c \in Card : b.discard[c] > 0},
                            !.discard = [c \in Card |-> 0]]
  <1>1. /\ d.hand = b.hand /\ d.instance = b.instance /\ d.heroes = b.heroes
        /\ d.deck = {c \in Card : b.discard[c] > 0}
        /\ \A c \in Card : d.discard[c] = 0
        /\ SameMonsters(d, b)
    BY DEF Board, SameMonsters
  <1>2. Refilled(b) = IF b.deck = {} THEN d ELSE b
    BY DEF Refilled
  <1> HIDE DEF d
  <1>3. ASSUME NEW c \in Card, b.deck = {} PROVE Once(d, c)
    <2>1. Once(b, c)
      BY DEF AllOnce
    <2>2. WithSeats(d, c) <=> WithSeats(b, c)
      BY <1>1 DEF WithSeats, WithSeat
    <2>3. IF WithSeats(d, c) THEN c \notin d.deck /\ d.discard[c] = 0
          ELSE IF c \in d.deck THEN d.discard[c] = 0 ELSE d.discard[c] = 1
      BY <1>1, <1>3, <2>1, <2>2 DEF Once
    <2>4. \A p, q \in Player : c \in WithSeat(d, p) /\ c \in WithSeat(d, q) => p = q
      BY <1>1, <2>1 DEF Once, WithSeat
    <2>5. \A p \in Player :
            /\ ~(c \in d.hand[p] /\ c \in d.instance[p])
            /\ ~(c \in d.hand[p] /\ c \in d.heroes[p])
            /\ ~(c \in d.instance[p] /\ c \in d.heroes[p])
      BY <1>1, <2>1 DEF Once
    <2> QED BY <2>3, <2>4, <2>5 DEF Once
  <1>4. ASSUME NEW m \in Monster PROVE MonsterOnce(d, m)
    BY <1>1, SameMonstersOnce DEF AllOnce
  <1> QED BY <1>1, <1>2, <1>3, <1>4 DEF AllOnce, SameMonsters

LEMMA DrawnOnce ==
    ASSUME NEW b \in Board, AllOnce(b), NEW p \in Player, NEW d \in Drawn(b, p)
    PROVE  AllOnce(d) /\ d.instance = b.instance /\ d.row = b.row
  <1>1. CASE b.deck = {}
    BY <1>1, RefilledOnce DEF Drawn
  <1>2. CASE b.deck # {}
    <2>1. PICK c \in b.deck :
            d = Refilled([b EXCEPT !.deck = @ \ {c}, !.hand[p] = @ \cup {c}])
      BY <1>2 DEF Drawn
    <2> DEFINE a == [b EXCEPT !.deck = @ \ {c}, !.hand[p] = @ \cup {c}]
    <2>2. /\ a \in Board /\ c \in Card
          /\ \A q \in Player : a.hand[q] = IF q = p THEN b.hand[q] \cup {c} ELSE b.hand[q]
          /\ a.instance = b.instance /\ a.heroes = b.heroes
          /\ a.deck = b.deck \ {c} /\ a.discard = b.discard /\ SameMonsters(a, b)
      BY DEF Board, SameMonsters
    <2> HIDE DEF a
    <2>3. ASSUME NEW e \in Card PROVE Once(a, e)
      <3>1. Once(b, e)
        BY DEF AllOnce
      <3>2. CASE e = c
        <4>1. ~WithSeats(b, c) /\ b.discard[c] = 0
          BY <3>1, <3>2 DEF Once
        <4>2. c \in WithSeat(a, p) /\ \A q \in Player \ {p} : c \notin WithSeat(a, q)
          BY <2>2, <4>1 DEF WithSeats, WithSeat
        <4>3. c \notin a.instance[p] /\ c \notin a.heroes[p]
          BY <2>2, <4>1 DEF WithSeats, WithSeat
        <4>4. WithSeats(a, c)
          BY <4>2 DEF WithSeats
        <4>5. \A q \in Player \ {p} : c \notin a.hand[q] /\ c \notin a.instance[q] /\ c \notin a.heroes[q]
          BY <4>2 DEF WithSeat
        <4> QED BY <2>2, <3>2, <4>1, <4>2, <4>3, <4>4, <4>5 DEF Once
      <3>3. CASE e # c
        <4>1. \A q \in Player : e \in WithSeat(a, q) <=> e \in WithSeat(b, q)
          BY <2>2, <3>3 DEF WithSeat
        <4>2. WithSeats(a, e) <=> WithSeats(b, e)
          BY <4>1 DEF WithSeats
        <4>3. \A q \in Player : e \in a.hand[q] <=> e \in b.hand[q]
          BY <2>2, <3>3
        <4> QED BY <2>2, <3>1, <3>3, <4>1, <4>2, <4>3 DEF Once
      <3> QED BY <3>2, <3>3
    <2>4. \A m \in Monster : MonsterOnce(a, m)
      BY <2>2, SameMonstersOnce DEF AllOnce
    <2>5. AllOnce(a)
      BY <2>3, <2>4 DEF AllOnce
    <2>6. d = Refilled(a)
      BY <2>1 DEF a
    <2> QED BY <2>2, <2>5, <2>6, RefilledOnce DEF SameMonsters
  <1> QED BY <1>1, <1>2

LEMMA PutsAwayAll ==
    ASSUME NEW b, NEW d, PutsAway(b, d), SameMonsters(d, b), AllOnce(b)
    PROVE  AllOnce(d)
  BY PutsAwayOnce, SameMonstersOnce DEF AllOnce

LEMMA DiscardedOnce ==
    ASSUME NEW b \in Board, AllOnce(b), NEW p \in Player, NEW cards
    PROVE  LET d == Discarded(b, p, cards) IN
           /\ AllOnce(d) /\ d.instance = b.instance /\ d.row = b.row
           /\ \A q \in Player : d.hand[q] \subseteq b.hand[q]
  <1> DEFINE a == [b EXCEPT !.hand[p] = @ \ cards]
             d == PutAway(a, cards \cap b.hand[p])
  <1>1. /\ a \in Board
        /\ \A q \in Player : a.hand[q] = IF q = p THEN b.hand[q] \ cards ELSE b.hand[q]
        /\ a.instance = b.instance /\ a.heroes = b.heroes /\ a.row = b.row
        /\ a.deck = b.deck /\ a.discard = b.discard /\ SameMonsters(a, b)
    BY DEF Board, SameMonsters
  <1> HIDE DEF a
  <1>2. /\ d.hand = a.hand /\ d.instance = a.instance /\ d.heroes = a.heroes
        /\ d.deck = a.deck /\ SameMonsters(d, a)
        /\ \A c \in Card : d.discard[c]
                 = a.discard[c] + IF c \in cards \cap b.hand[p] THEN 1 ELSE 0
    BY <1>1, PutAwayFields
  <1>3. Discarded(b, p, cards) = d
    BY DEF Discarded, a
  <1> HIDE DEF d
  <1>4. ASSUME NEW c \in Card
        PROVE  (WithSeats(b, c) /\ ~WithSeats(d, c)) <=> c \in cards \cap b.hand[p]
    <2>1. Once(b, c)
      BY DEF AllOnce
    <2>2. \A q \in Player : d.hand[q] = IF q = p THEN b.hand[q] \ cards ELSE b.hand[q]
      BY <1>1, <1>2
    <2>3. CASE c \in cards \cap b.hand[p]
      <3>1. c \notin WithSeat(d, p)
        BY <1>1, <1>2, <2>1, <2>2, <2>3 DEF WithSeat, Once
      <3>2. \A q \in Player \ {p} : c \notin WithSeat(b, q)
        BY <2>1, <2>3 DEF Once, WithSeat
      <3>3. \A q \in Player \ {p} : c \notin WithSeat(d, q)
        BY <1>1, <1>2, <2>2, <3>2 DEF WithSeat
      <3>4. c \in WithSeat(b, p)
        BY <2>3 DEF WithSeat
      <3> QED BY <2>3, <3>1, <3>3, <3>4 DEF WithSeats
    <2>4. CASE c \notin cards \cap b.hand[p]
      <3>1. \A q \in Player : c \in WithSeat(b, q) => c \in WithSeat(d, q)
        BY <1>1, <1>2, <2>2, <2>4 DEF WithSeat
      <3> QED BY <2>4, <3>1 DEF WithSeats
    <2> QED BY <2>3, <2>4
  <1>5. PutsAway(b, d)
    BY <1>1, <1>2, <1>4 DEF PutsAway
  <1>6. SameMonsters(d, b)
    BY <1>1, <1>2 DEF SameMonsters
  <1>7. /\ AllOnce(d) /\ d.instance = b.instance /\ d.row = b.row
        /\ \A q \in Player : d.hand[q] \subseteq b.hand[q]
    BY <1>1, <1>2, <1>5, <1>6, PutsAwayAll DEF PutsAway, SameMonsters
  <1> QED BY <1>3, <1>7

LEMMA RemovedHeroesOnce ==
    ASSUME NEW b \in Board, AllOnce(b), NEW cards
    PROVE  LET d == RemovedHeroes(b, cards) IN
           /\ AllOnce(d) /\ d.instance = b.instance /\ d.row = b.row
           /\ d.hand = b.hand
  <1> DEFINE a == [b EXCEPT !.heroes = [p \in Player |-> b.heroes[p] \ cards]]
             gone == cards \cap UNION {b.heroes[p] : p \in Player}
             d == PutAway(a, gone)
  <1>1. /\ a \in Board
        /\ \A q \in Player : a.heroes[q] = b.heroes[q] \ cards
        /\ a.instance = b.instance /\ a.hand = b.hand /\ a.row = b.row
        /\ a.deck = b.deck /\ a.discard = b.discard /\ SameMonsters(a, b)
    BY DEF Board, SameMonsters
  <1> HIDE DEF a
  <1>2. /\ d.hand = a.hand /\ d.instance = a.instance /\ d.heroes = a.heroes
        /\ d.deck = a.deck /\ SameMonsters(d, a)
        /\ \A c \in Card : d.discard[c]
                 = a.discard[c] + IF c \in gone THEN 1 ELSE 0
    BY <1>1, PutAwayFields
  <1>3. RemovedHeroes(b, cards) = d
    BY DEF RemovedHeroes, a
  <1> HIDE DEF d
  <1>4. ASSUME NEW c \in Card
        PROVE  (WithSeats(b, c) /\ ~WithSeats(d, c)) <=> c \in gone
    <2>1. Once(b, c)
      BY DEF AllOnce
    <2>2. CASE c \in gone
      <3>1. PICK p \in Player : c \in b.heroes[p] /\ c \in cards
        BY <2>2
      <3>2. c \in WithSeat(b, p) /\ c \notin WithSeat(d, p)
        BY <1>1, <1>2, <2>1, <3>1 DEF WithSeat, Once
      <3>3. \A q \in Player \ {p} : c \notin WithSeat(b, q)
        BY <2>1, <3>2 DEF Once
      <3>4. \A q \in Player \ {p} : c \notin WithSeat(d, q)
        BY <1>1, <1>2, <3>3 DEF WithSeat
      <3> QED BY <2>2, <3>2, <3>4 DEF WithSeats
    <2>3. CASE c \notin gone
      <3>1. \A q \in Player : c \in WithSeat(b, q) => c \in WithSeat(d, q)
        BY <1>1, <1>2, <2>3 DEF WithSeat
      <3> QED BY <2>3, <3>1 DEF WithSeats
    <2> QED BY <2>2, <2>3
  <1>5. PutsAway(b, d)
    <2> HIDE DEF gone
    <2> QED BY <1>1, <1>2, <1>4 DEF PutsAway
  <1>6. SameMonsters(d, b)
    BY <1>1, <1>2 DEF SameMonsters
  <1>7. AllOnce(d) /\ d.instance = b.instance /\ d.row = b.row /\ d.hand = b.hand
    BY <1>1, <1>2, <1>5, <1>6, PutsAwayAll DEF SameMonsters
  <1> QED BY <1>3, <1>7

(* Cards taken out of the piles in front of the seats, and put away. *)
LEMMA TakenFromPlay ==
    ASSUME NEW b \in Board, AllOnce(b), NEW gone \in [Player -> SUBSET Card],
           \A p \in Player : gone[p] \subseteq b.instance[p],
           NEW a \in Board, SameMonsters(a, b), a.row = b.row,
           a.hand = b.hand, a.heroes = b.heroes, a.deck = b.deck, a.discard = b.discard,
           \A p \in Player : a.instance[p] = b.instance[p] \ gone[p],
           NEW cards, cards = UNION {gone[p] : p \in Player}
    PROVE  LET d == PutAway(a, cards) IN
           /\ AllOnce(d) /\ d.hand = b.hand /\ d.row = b.row
           /\ \A p \in Player : d.instance[p] = b.instance[p] \ gone[p]
  <1> DEFINE d == PutAway(a, cards)
  <1>1. /\ d.hand = b.hand /\ d.instance = a.instance /\ d.heroes = b.heroes
        /\ d.deck = b.deck /\ SameMonsters(d, b)
        /\ \A c \in Card : d.discard[c] = b.discard[c] + IF c \in cards THEN 1 ELSE 0
    <2>1. SameMonsters(d, a)
      BY PutAwayFields
    <2>2. \A c \in Card : d.discard[c] = b.discard[c] + IF c \in cards THEN 1 ELSE 0
      BY PutAwayFields
    <2>3. d.hand = b.hand /\ d.instance = a.instance /\ d.heroes = b.heroes /\ d.deck = b.deck
      BY PutAwayFields
    <2> HIDE DEF d
    <2> QED BY <2>1, <2>2, <2>3 DEF SameMonsters
  <1> HIDE DEF d
  <1>2. ASSUME NEW c \in Card
        PROVE  (WithSeats(b, c) /\ ~WithSeats(d, c)) <=> c \in cards
    <2>1. Once(b, c)
      BY DEF AllOnce
    <2>2. CASE c \in cards
      <3>1. PICK p \in Player : c \in gone[p]
        BY <2>2
      <3>2. c \in WithSeat(b, p) /\ c \notin WithSeat(d, p)
        BY <1>1, <2>1, <3>1 DEF WithSeat, Once
      <3>3. \A q \in Player \ {p} : c \notin WithSeat(b, q)
        BY <2>1, <3>2 DEF Once
      <3>4. \A q \in Player \ {p} : c \notin WithSeat(d, q)
        BY <1>1, <3>3 DEF WithSeat
      <3> QED BY <2>2, <3>2, <3>4 DEF WithSeats
    <2>3. CASE c \notin cards
      <3>1. \A q \in Player : c \in WithSeat(b, q) => c \in WithSeat(d, q)
        BY <1>1, <2>3 DEF WithSeat
      <3> QED BY <2>3, <3>1 DEF WithSeats
    <2> QED BY <2>2, <2>3
  <1>3. PutsAway(b, d)
    BY <1>1, <1>2 DEF PutsAway
  <1>4. AllOnce(d)
    BY <1>1, <1>3, PutsAwayAll
  <1>5. d.hand = b.hand /\ d.row = b.row /\ \A p \in Player : d.instance[p] = b.instance[p] \ gone[p]
    BY <1>1 DEF SameMonsters
  <1> QED BY <1>4, <1>5 DEF d

LEMMA SpentTyped ==
    ASSUME TypeInv, NEW f \in DOMAIN frames
    PROVE  /\ Spent(f) \in [Player -> SUBSET Card]
           /\ \A p \in Player :
                Spent(f)[p] = (board.instance[p] \ frames[f].snap.instance[p])
                                 \ SubjectOf(frames[f].win)
  BY DEF TypeInv, Board, Spent

LEMMA ReleasedOnce ==
    ASSUME TypeInv, AllOnce(board), NEW f \in DOMAIN frames
    PROVE  LET d == Released(f) IN
           /\ AllOnce(d) /\ d.hand = board.hand /\ d.row = board.row
           /\ \A p \in Player : d.instance[p] = board.instance[p] \ Spent(f)[p]
  <1> DEFINE gone == Spent(f)
             a == [board EXCEPT !.instance = [p \in Player |-> board.instance[p] \ gone[p]]]
  <1>1. gone \in [Player -> SUBSET Card] /\ \A p \in Player : gone[p] \subseteq board.instance[p]
    BY SpentTyped
  <1>2. board \in Board
    BY DEF TypeInv
  <1>3. Released(f) = PutAway(a, AllSpent(f)) /\ AllSpent(f) = UNION {gone[p] : p \in Player}
    BY DEF Released, AllSpent
  <1> HIDE DEF gone
  <1>4. /\ a \in Board /\ SameMonsters(a, board) /\ a.row = board.row
        /\ a.hand = board.hand /\ a.heroes = board.heroes
        /\ a.deck = board.deck /\ a.discard = board.discard
        /\ \A p \in Player : a.instance[p] = board.instance[p] \ gone[p]
    BY <1>1, <1>2 DEF Board, SameMonsters
  <1> HIDE DEF a
  <1> DEFINE cards == AllSpent(f)
             d == PutAway(a, cards)
  <1>5. cards = UNION {gone[p] : p \in Player}
    BY <1>3
  <1> HIDE DEF cards
  <1>6. /\ AllOnce(d) /\ d.hand = board.hand /\ d.row = board.row
        /\ \A p \in Player : d.instance[p] = board.instance[p] \ gone[p]
    BY <1>1, <1>2, <1>4, <1>5, TakenFromPlay
  <1>7. Released(f) = d
    BY <1>3 DEF cards
  <1> HIDE DEF d
  <1> QED BY <1>6, <1>7 DEF gone

(* What a rollback puts back: every card is in one place, but the one the   *)
(* contest was about, which is nowhere yet.                                 *)
LEMMA RestoredOnce ==
    ASSUME TypeInv, NEW f \in DOMAIN frames, SnapKept(f)
    PROVE  LET d == Restored(f) IN
           /\ \A c \in Card : IF c \in SubjectOf(frames[f].win) THEN Nowhere(d, c) ELSE Once(d, c)
           /\ \A m \in Monster : MonsterOnce(d, m)
           /\ \A p \in Player : d.instance[p] = {}
  <1> DEFINE gone == Spent(f)
             snap == frames[f].snap
             a == [snap EXCEPT !.hand = [p \in Player |-> snap.hand[p] \ gone[p]]]
             cards == AllSpent(f)
             d == PutAway(a, cards)
  <1>1. gone \in [Player -> SUBSET Card] /\ \A p \in Player : gone[p] \subseteq snap.hand[p]
    BY SpentTyped DEF SnapKept
  <1>2. snap \in Board
    BY FramesTyped
  <1>3. Restored(f) = d /\ cards = UNION {gone[p] : p \in Player}
    BY DEF Restored, AllSpent
  <1>4. /\ \A p \in Player : snap.instance[p] = {}
        /\ \A c \in Card : IF c \in SubjectOf(frames[f].win) THEN Nowhere(snap, c) ELSE Once(snap, c)
        /\ \A m \in Monster : MonsterOnce(snap, m)
    BY DEF SnapKept
  <1> HIDE DEF gone, snap, cards
  <1>5. /\ a \in Board /\ SameMonsters(a, snap)
        /\ a.instance = snap.instance /\ a.heroes = snap.heroes
        /\ a.deck = snap.deck /\ a.discard = snap.discard
        /\ \A p \in Player : a.hand[p] = snap.hand[p] \ gone[p]
    BY <1>1, <1>2 DEF Board, SameMonsters
  <1> HIDE DEF a
  <1>6. /\ d.hand = a.hand /\ d.instance = snap.instance /\ d.heroes = snap.heroes
        /\ d.deck = snap.deck /\ SameMonsters(d, snap)
        /\ \A c \in Card : d.discard[c] = snap.discard[c] + IF c \in cards THEN 1 ELSE 0
    <2>1. SameMonsters(d, a)
      BY PutAwayFields
    <2>2. \A c \in Card : d.discard[c] = snap.discard[c] + IF c \in cards THEN 1 ELSE 0
      BY <1>5, PutAwayFields
    <2>3. d.hand = a.hand /\ d.instance = snap.instance /\ d.heroes = snap.heroes /\ d.deck = snap.deck
      BY <1>5, PutAwayFields
    <2> HIDE DEF d
    <2> QED BY <1>5, <2>1, <2>2, <2>3 DEF SameMonsters
  <1> HIDE DEF d
  <1>7. ASSUME NEW c \in Card
        PROVE  (WithSeats(snap, c) /\ ~WithSeats(d, c)) <=> c \in cards
    <2>1. Once(snap, c) \/ Nowhere(snap, c)
      BY <1>4
    <2>2. CASE c \in cards
      <3>1. PICK p \in Player : c \in gone[p]
        BY <1>3, <2>2
      <3>2. c \in WithSeat(snap, p)
        BY <1>1, <3>1 DEF WithSeat
      <3>3. Once(snap, c)
        BY <2>1, <3>2 DEF Nowhere, WithSeats
      <3>4. c \notin WithSeat(d, p)
        BY <1>1, <1>5, <1>6, <3>1, <3>3 DEF WithSeat, Once
      <3>5. \A q \in Player \ {p} : c \notin WithSeat(snap, q)
        BY <3>2, <3>3 DEF Once
      <3>6. \A q \in Player \ {p} : c \notin WithSeat(d, q)
        BY <1>5, <1>6, <3>5 DEF WithSeat
      <3> QED BY <2>2, <3>2, <3>4, <3>6 DEF WithSeats
    <2>3. CASE c \notin cards
      <3>1. \A q \in Player : c \in WithSeat(snap, q) => c \in WithSeat(d, q)
        BY <1>3, <1>5, <1>6, <2>3 DEF WithSeat
      <3> QED BY <2>3, <3>1 DEF WithSeats
    <2> QED BY <2>2, <2>3
  <1>8. PutsAway(snap, d)
    BY <1>5, <1>6, <1>7 DEF PutsAway
  <1>9. ASSUME NEW c \in Card, Nowhere(snap, c) PROVE Nowhere(d, c)
    <2>1. ~WithSeats(snap, c) /\ c \notin snap.deck /\ snap.discard[c] = 0
      BY <1>9 DEF Nowhere
    <2>2. ~WithSeats(d, c)
      BY <1>8, <2>1 DEF PutsAway, WithSeats, WithSeat
    <2>3. d.discard[c] = 0
      BY <1>6, <1>7, <2>1
    <2> QED BY <1>6, <2>1, <2>2, <2>3 DEF Nowhere
  <1>10. \A c \in Card : IF c \in SubjectOf(frames[f].win) THEN Nowhere(d, c) ELSE Once(d, c)
    BY <1>4, <1>8, <1>9, PutsAwayOnce
  <1>11. \A m \in Monster : MonsterOnce(d, m)
    BY <1>4, <1>6, SameMonstersOnce
  <1>12. \A p \in Player : d.instance[p] = {}
    BY <1>4, <1>6
  <1> QED BY <1>3, <1>10, <1>11, <1>12

(* ... and then it is put away. *)
LEMMA LostOnce ==
    ASSUME NEW b \in Board, NEW c \in Card, Nowhere(b, c),
           \A e \in Card \ {c} : Once(b, e), \A m \in Monster : MonsterOnce(b, m)
    PROVE  LET d == PutAway(b, {c}) IN
           AllOnce(d) /\ d.instance = b.instance
  <1> DEFINE d == PutAway(b, {c})
  <1>1. /\ d.hand = b.hand /\ d.instance = b.instance /\ d.heroes = b.heroes
        /\ d.deck = b.deck /\ SameMonsters(d, b)
        /\ \A e \in Card : d.discard[e] = b.discard[e] + IF e \in {c} THEN 1 ELSE 0
    BY PutAwayFields
  <1> HIDE DEF d
  <1>2. \A p \in Player : \A e : e \in WithSeat(d, p) <=> e \in WithSeat(b, p)
    BY <1>1 DEF WithSeat
  <1>3. \A e : WithSeats(d, e) <=> WithSeats(b, e)
    BY <1>2 DEF WithSeats
  <1>4. Once(d, c)
    <2>1. ~WithSeats(d, c) /\ d.discard[c] = 1 /\ c \notin d.deck
      BY <1>1, <1>3 DEF Nowhere, Board
    <2> QED BY <2>1 DEF Once, WithSeats, WithSeat
  <1>5. ASSUME NEW e \in Card \ {c} PROVE Once(d, e)
    <2>1. Once(b, e) /\ d.discard[e] = b.discard[e]
      BY <1>1 DEF Board
    <2> QED BY <1>1, <1>2, <1>3, <2>1 DEF Once
  <1>6. \A m \in Monster : MonsterOnce(d, m)
    BY <1>1, SameMonstersOnce
  <1>7. AllOnce(d) /\ d.instance = b.instance
    BY <1>1, <1>4, <1>5, <1>6 DEF AllOnce
  <1> QED BY <1>7 DEF d

LEMMA SlainOnce ==
    ASSUME NEW b \in Board, AllOnce(b), NEW m \in Monster, m \in b.row,
           NEW p \in Player, NEW d \in Slain(b, m, p)
    PROVE  AllOnce(d) /\ d.instance = b.instance
  <1> DEFINE won == [b EXCEPT !.row = @ \ {m}, !.slain[p] = @ \cup {m}]
  <1>1. /\ won.row = b.row \ {m} /\ won.monsterDeck = b.monsterDeck
        /\ \A q \in Player : won.slain[q] = IF q = p THEN b.slain[q] \cup {m} ELSE b.slain[q]
        /\ SameZones(won, b)
        /\ won \in Board
    BY DEF Board, SameZones
  <1>2. \/ d = won
        \/ \E n \in b.monsterDeck :
              d = [won EXCEPT !.row = @ \cup {n}, !.monsterDeck = @ \ {n}]
    BY DEF Slain
  <1> HIDE DEF won
  <1>3. \E N \in SUBSET b.monsterDeck :
           /\ d.row = won.row \cup N /\ d.monsterDeck = won.monsterDeck \ N
           /\ d.slain = won.slain /\ SameZones(d, won)
    <2>1. CASE d = won
      <3>1. {} \in SUBSET b.monsterDeck /\ won.row \cup {} = won.row /\ won.monsterDeck \ {} = won.monsterDeck
        OBVIOUS
      <3> QED BY <2>1, <3>1 DEF SameZones
    <2>2. CASE \E n \in b.monsterDeck :
              d = [won EXCEPT !.row = @ \cup {n}, !.monsterDeck = @ \ {n}]
      <3>1. PICK n \in b.monsterDeck :
              d = [won EXCEPT !.row = @ \cup {n}, !.monsterDeck = @ \ {n}]
        BY <2>2
      <3>2. /\ d.row = won.row \cup {n} /\ d.monsterDeck = won.monsterDeck \ {n}
            /\ d.slain = won.slain /\ SameZones(d, won)
        BY <1>1, <3>1 DEF SameZones, Board
      <3> QED BY <3>2
    <2> QED BY <1>2, <2>1, <2>2
  <1>4. PICK N \in SUBSET b.monsterDeck :
           /\ d.row = won.row \cup N /\ d.monsterDeck = won.monsterDeck \ N
           /\ d.slain = won.slain /\ SameZones(d, won)
    BY <1>3
  <1>5. ASSUME NEW e \in Monster PROVE MonsterOnce(d, e)
    <2>1. MonsterOnce(b, e)
      BY DEF AllOnce
    <2>2. \A q \in Player : d.slain[q] = IF q = p THEN b.slain[q] \cup {m} ELSE b.slain[q]
      BY <1>1, <1>4
    <2>3. CASE e = m
      <3>1. /\ \A q \in Player : m \notin b.slain[q]
            /\ m \notin b.monsterDeck
        BY <2>1, <2>3 DEF MonsterOnce
      <3>2. /\ \A q \in Player : m \in d.slain[q] <=> q = p
            /\ m \notin d.row /\ m \notin d.monsterDeck
        BY <1>1, <1>4, <2>2, <3>1
      <3> QED BY <2>3, <3>2 DEF MonsterOnce
    <2>4. CASE e # m
      <3>1. /\ \A q \in Player : e \in d.slain[q] <=> e \in b.slain[q]
            /\ e \in d.row <=> (e \in b.row \/ e \in N)
            /\ e \in d.monsterDeck <=> (e \in b.monsterDeck /\ e \notin N)
            /\ e \in N => e \in b.monsterDeck
        BY <1>1, <1>4, <2>2, <2>4
      <3> QED BY <2>1, <3>1 DEF MonsterOnce
    <2> QED BY <2>3, <2>4
  <1>6. SameZones(d, b)
    BY <1>1, <1>4 DEF SameZones
  <1>7. \A c \in Card : Once(d, c)
    BY <1>6, SameZonesOnce DEF AllOnce
  <1> QED BY <1>5, <1>6, <1>7 DEF AllOnce, SameZones

-----------------------------------------------------------------------------
(* Steps.  Either a window stands when the step is done, or none does.      *)

LEMMA WindowStands ==
    ASSUME WindowInv', NEW n \in DOMAIN frames', frames'[n].win.kind \in Standing,
           AllOnce(board'), SnapKept(n)',
           frames'[n].win.kind = "attack" => frames'[n].win.about \in board'.row,
           frames'[n].win.kind = "challenge" =>
              /\ \A g \in DOMAIN frames' : g >= n
              /\ \A p \in Player :
                    frames'[n].win.about \in board'.instance[p] => frames'[n].win.about \in Magic
    PROVE  CardsInv'
  <1>1. OneToken'
    BY DEF WindowInv
  <1>2. n \in Rolling(frames')
    BY DEF Rolling
  <1>3. \A f \in DOMAIN frames' : frames'[f].win.kind \in Standing => f = n
    BY <1>1, <1>2 DEF OneToken, Rolling
  <1>4. SnapsKept' /\ ContestsFirst' /\ PreyInRow'
    BY <1>3 DEF SnapsKept, ContestsFirst, PreyInRow, IsStanding, Standing
  <1>5. PlayedAtWork'
    BY DEF PlayedAtWork, IsStanding
  <1>6. OffersClean'
    <2>1. Offering(stack') = {}
      BY <1>1, <1>2 DEF OneToken
    <2>2. \A f \in Rolling(frames') : frames'[f].win.kind # "confirm"
      BY <1>1, <1>2 DEF OneToken, Standing
    <2> QED BY <2>1, <2>2 DEF OffersClean
  <1>7. ContestClean'
    BY <1>1, <1>2 DEF OneToken, ContestClean
  <1> QED BY <1>4, <1>5, <1>6, <1>7 DEF CardsInv

LEMMA NoneStands ==
    ASSUME WindowInv', \A f \in DOMAIN frames' : frames'[f].win.kind \notin Standing,
           AllOnce(board'), PlayedAtWork', OffersClean', ContestClean'
    PROVE  CardsInv'
  <1>1. SnapsKept' /\ ContestsFirst' /\ PreyInRow'
    BY DEF SnapsKept, ContestsFirst, PreyInRow, IsStanding, Standing
  <1> QED BY <1>1 DEF CardsInv

LEMMA NothingLies ==
    ASSUME WindowInv', \A f \in DOMAIN frames' : frames'[f].win.kind \notin Standing,
           AllOnce(board'), NothingPlayed',
           settled'.cards = {} \/ \E c \in Card : settled'.cards = {c}
    PROVE  CardsInv'
  <1>1. PlayedAtWork' /\ OffersClean' /\ ContestClean'
    BY DEF PlayedAtWork, OffersClean, ContestClean, NothingPlayed
  <1> QED BY <1>1, NoneStands

(* A step that opens no window and settles none. *)
CarriersStay ==
    \A t \in DOMAIN stack, c \in Card, p \in Player :
        Carries(stack[t], c, p) /\ c \in board'.instance[p] =>
            \E u \in DOMAIN stack' : Carries(stack'[u], c, p)

LEMMA StepKeepsCards ==
    ASSUME CardsInv, WindowInv', SameWindows, UNCHANGED settled,
           AllOnce(board'), board'.row = board.row,
           Offering(stack') \subseteq Offering(stack),
           (\E f \in DOMAIN frames : frames[f].win.kind \in Standing) =>
               \A p \in Player :
                  /\ board'.hand[p] \subseteq board.hand[p]
                  /\ board'.instance[p] \subseteq board.instance[p] \cup board.hand[p],
           (\A f \in DOMAIN frames : frames[f].win.kind \notin Standing) =>
               /\ \A p \in Player : board'.instance[p] \subseteq board.instance[p]
               /\ CarriersStay
    PROVE  CardsInv'
  <1>1. CASE \E f \in DOMAIN frames : frames[f].win.kind \in Standing
    <2>1. PICK f \in DOMAIN frames : frames[f].win.kind \in Standing
      BY <1>1
    <2>2. /\ f \in DOMAIN frames' /\ DOMAIN frames' = DOMAIN frames
          /\ frames'[f].win.kind = frames[f].win.kind
          /\ frames'[f].win.about = frames[f].win.about
          /\ frames'[f].snap = frames[f].snap
      BY DEF SameWindows
    <2>3. SubjectOf(frames'[f].win) = SubjectOf(frames[f].win)
      BY <2>2 DEF SubjectOf
    <2>4. SnapKept(f)
      BY <2>1 DEF CardsInv, SnapsKept, IsStanding
    <2>5. \A p \in Player :
            /\ board'.hand[p] \subseteq board.hand[p]
            /\ board'.instance[p] \subseteq board.instance[p] \cup board.hand[p]
      BY <1>1
    <2>6. SnapKept(f)'
      <3>1. \A p \in Player :
              /\ frames[f].snap.instance[p] = {}
              /\ board'.hand[p] \subseteq frames[f].snap.hand[p]
              /\ board'.instance[p] \ SubjectOf(frames[f].win) \subseteq frames[f].snap.hand[p]
        BY <2>4, <2>5 DEF SnapKept
      <3> QED BY <2>2, <2>3, <2>4, <3>1 DEF SnapKept
    <2>7. frames'[f].win.kind = "attack" => frames'[f].win.about \in board'.row
      BY <2>1, <2>2 DEF CardsInv, PreyInRow
    <2>8. frames'[f].win.kind = "challenge" =>
              /\ \A g \in DOMAIN frames' : g >= f
              /\ \A p \in Player :
                    frames'[f].win.about \in board'.instance[p] => frames'[f].win.about \in Magic
      <3> SUFFICES ASSUME frames[f].win.kind = "challenge"
                   PROVE  /\ \A g \in DOMAIN frames : g >= f
                          /\ \A p \in Player :
                               frames[f].win.about \in board'.instance[p] => frames[f].win.about \in Magic
        BY <2>2
      <3>1. /\ \A g \in DOMAIN frames : g >= f
            /\ \A p \in Player :
                  frames[f].win.about \in board.instance[p] => frames[f].win.about \in Magic
        BY DEF CardsInv, ContestsFirst
      <3>2. \A p \in Player : frames[f].win.about \notin board.hand[p]
        <4>1. frames[f].win.about \in Card /\ frames[f].win.about \in SubjectOf(frames[f].win)
          BY FramesTyped DEF CardsInv, WindowInv, SubjectOf
        <4>2. Nowhere(frames[f].snap, frames[f].win.about)
          BY <2>4, <4>1 DEF SnapKept
        <4> QED BY <2>4, <4>2 DEF SnapKept, Nowhere, WithSeats, WithSeat
      <3> QED BY <2>5, <3>1, <3>2
    <2> QED BY <2>1, <2>2, <2>6, <2>7, <2>8, WindowStands
  <1>2. CASE \A f \in DOMAIN frames : frames[f].win.kind \notin Standing
    <2>1. /\ \A p \in Player : board'.instance[p] \subseteq board.instance[p]
          /\ CarriersStay
      BY <1>2
    <2>2. \A f \in DOMAIN frames' :
            /\ f \in DOMAIN frames /\ frames'[f].win.kind = frames[f].win.kind
            /\ frames'[f].win.about = frames[f].win.about
            /\ frames'[f].snap = frames[f].snap
      BY DEF SameWindows
    <2>3. PlayedAtWork'
      <3> SUFFICES ASSUME NEW p \in Player, NEW c \in board'.instance[p]
                   PROVE  /\ AtWork(c, p)'
                          /\ \A g \in DOMAIN frames' : c \in frames'[g].snap.instance[p]
        BY DEF PlayedAtWork
      <3>1. /\ AtWork(c, p)
            /\ \A g \in DOMAIN frames : c \in frames[g].snap.instance[p]
        BY <1>2, <2>1 DEF CardsInv, PlayedAtWork, IsStanding
      <3>2. c \in Card
        BY DEF CardsInv, WindowInv, TypeInv, Board
      <3>3. AtWork(c, p)'
        BY <2>1, <3>1, <3>2 DEF AtWork, CarriersStay
      <3> QED BY <2>2, <3>1, <3>3
    <2>4. OffersClean'
      <3>1. CASE NothingPlayed
        BY <2>1, <3>1 DEF NothingPlayed, OffersClean
      <3>2. CASE /\ Offering(stack) = {}
                 /\ \A f \in Rolling(frames) : frames[f].win.kind # "confirm"
        BY <2>2, <3>2 DEF OffersClean, Rolling
      <3> QED BY <3>1, <3>2 DEF CardsInv, OffersClean
    <2>5. ContestClean'
      BY <2>1 DEF CardsInv, ContestClean
    <2>6. \A f \in DOMAIN frames' : frames'[f].win.kind \notin Standing
      BY <1>2, <2>2
    <2>7. AllOnce(board') /\ WindowInv'
      OBVIOUS
    <2> QED BY <2>3, <2>4, <2>5, <2>6, <2>7, NoneStands
  <1> QED BY <1>1, <1>2

LEMMA PlainOffers ==
    ASSUME PlainStep
    PROVE  SameWindows /\ UNCHANGED settled /\ Offering(stack') \subseteq Offering(stack)
  BY DEF PlainStep, Descends, Offering

(* A pipeline that goes on still carries its card, unless what it did was   *)
(* to put the card away.                                                    *)
LEMMA AdvancedCarries ==
    ASSUME TypeInv, NEW t \in DOMAIN stack, stack[t].steps # <<>>,
           NEW u \in DOMAIN stack, NEW c, NEW p, Carries(stack[u], c, p),
           u = t /\ stack[t].system => Head(stack[t].steps) # "Dispose"
    PROVE  u \in DOMAIN Advanced(t) /\ Carries(Advanced(t)[u], c, p)
  <1>1. /\ DOMAIN Advanced(t) = DOMAIN stack
        /\ u # t => Advanced(t)[u] = stack[u]
        /\ Advanced(t)[t].card = stack[t].card /\ Advanced(t)[t].system = stack[t].system
    BY StackTyped DEF Advanced, GoodPipeline, PipelineType
  <1>2. CASE u # t
    BY <1>1, <1>2
  <1>3. CASE u = t
    <2>1. Head(<<"Dispose">>) = "Dispose"
      OBVIOUS
    <2>2. ~stack[t].system
      BY <1>3, <2>1 DEF Carries
    <2> QED BY <1>1, <1>3, <2>2 DEF Carries
  <1> QED BY <1>2, <1>3

LEMMA EffectsKeepCards ==
    ASSUME CardsInv, WindowInv', NEW t \in DOMAIN stack,
           Draw(t) => \A f \in DOMAIN frames : frames[f].win.kind \notin Standing,
           \/ Draw(t) \/ Discard(t) \/ Destroy(t) \/ Sacrifice(t)
    PROVE  CardsInv'
  <1> DEFINE run == stack[t]
  <1>1. TypeInv /\ board \in Board /\ AllOnce(board)
    BY DEF CardsInv, WindowInv, TypeInv
  <1>2. SameWindows /\ UNCHANGED settled /\ Offering(stack') \subseteq Offering(stack)
    BY <1>1, EffectsPlain, PlainOffers
  <1>3. run.owner \in Player /\ run.seat \in Player
    BY <1>1, StackTyped
  <1>4. /\ AllOnce(board') /\ board'.instance = board.instance /\ board'.row = board.row
        /\ Draw(t) \/ \A p \in Player : board'.hand[p] \subseteq board.hand[p]
    <2>1. CASE Draw(t)
      BY <1>1, <1>3, <2>1, DrawnOnce DEF Draw, Do
    <2>2. CASE Discard(t)
      <3>1. board' = Discarded(board, run.seat, run.pick)
        BY <2>2 DEF Discard, Do
      <3> HIDE DEF run
      <3> QED BY <1>1, <1>3, <3>1, DiscardedOnce
    <2>3. CASE Destroy(t) \/ Sacrifice(t)
      <3>1. \E cards : board' = RemovedHeroes(board, cards)
        BY <2>3 DEF Destroy, Sacrifice, Do
      <3> QED BY <1>1, <3>1, RemovedHeroesOnce
    <2> QED BY <2>1, <2>2, <2>3
  <1>5. CarriersStay
    <2>1. /\ stack' = Advanced(t) /\ stack[t].steps # <<>>
          /\ Head(stack[t].steps) # "Dispose"
      BY TakesOne DEF Draw, Discard, Destroy, Sacrifice, Do
    <2> QED BY <1>1, <2>1, AdvancedCarries DEF CarriersStay
  <1> QED BY <1>2, <1>4, <1>5, StepKeepsCards

LEMMA DisposeKeepsCards ==
    ASSUME CardsInv, WindowInv', NEW t \in DOMAIN stack, Dispose(t)
    PROVE  CardsInv'
  <1> DEFINE card == stack[t].card
             owner == stack[t].owner
             cards == {card} \cap board.instance[owner]
             a == [board EXCEPT !.instance[owner] = @ \ cards]
  <1>1. TypeInv /\ board \in Board /\ AllOnce(board)
    BY DEF CardsInv, WindowInv, TypeInv
  <1>2. SameWindows /\ UNCHANGED settled /\ Offering(stack') \subseteq Offering(stack)
    BY <1>1, EffectsPlain, PlainOffers
  <1>3. owner \in Player
    BY <1>1, StackTyped
  <1>4. /\ Takes(t, "Dispose") /\ stack' = Advanced(t)
        /\ board' = IF cards = {} \/ IsSpentInOpenFrame(card) THEN board
                    ELSE PutAway(a, cards)
    BY DEF Dispose, Do
  <1>5. /\ AllOnce(PutAway(a, cards)) /\ PutAway(a, cards).hand = board.hand
        /\ PutAway(a, cards).row = board.row
        /\ \A p \in Player : PutAway(a, cards).instance[p]
                = board.instance[p] \ (IF p = owner THEN cards ELSE {})
    <2> DEFINE gone == [p \in Player |-> IF p = owner THEN cards ELSE {}]
    <2>1. /\ a \in Board /\ SameMonsters(a, board) /\ a.row = board.row
          /\ a.hand = board.hand /\ a.heroes = board.heroes
          /\ a.deck = board.deck /\ a.discard = board.discard
          /\ \A p \in Player : a.instance[p] = board.instance[p] \ gone[p]
      <3> HIDE DEF owner, card
      <3> QED BY <1>1, <1>3 DEF Board, SameMonsters
    <2>2. /\ gone \in [Player -> SUBSET Card]
          /\ \A p \in Player : gone[p] \subseteq board.instance[p]
      <3> HIDE DEF owner, card
      <3> QED BY <1>1, <1>3 DEF Board
    <2>3. cards = UNION {gone[p] : p \in Player}
      <3> HIDE DEF owner, card, cards
      <3> QED BY <1>3
    <2>4. \A p \in Player : gone[p] = IF p = owner THEN cards ELSE {}
      OBVIOUS
    <2> HIDE DEF a, cards, gone
    <2> DEFINE d == PutAway(a, cards)
    <2>5. /\ AllOnce(d) /\ d.hand = board.hand /\ d.row = board.row
          /\ \A p \in Player : d.instance[p] = board.instance[p] \ gone[p]
      BY <1>1, <2>1, <2>2, <2>3, TakenFromPlay
    <2> HIDE DEF d
    <2>6. \A p \in Player : d.instance[p] = board.instance[p] \ (IF p = owner THEN cards ELSE {})
      BY <2>4, <2>5
    <2> QED BY <2>5, <2>6 DEF d
  <1> HIDE DEF a
  <1>6. /\ AllOnce(board') /\ board'.hand = board.hand /\ board'.row = board.row
        /\ \A p \in Player : board'.instance[p] \subseteq board.instance[p]
    <2>1. CASE board' = board
      BY <1>1, <2>1
    <2>2. CASE board' = PutAway(a, cards)
      <3> HIDE DEF cards
      <3> QED BY <1>5, <2>2
    <2> QED BY <1>4, <2>1, <2>2
  <1>7. ASSUME \A f \in DOMAIN frames : frames[f].win.kind \notin Standing
        PROVE  CarriersStay
    <2> SUFFICES ASSUME NEW u \in DOMAIN stack, NEW c \in Card, NEW p \in Player,
                        Carries(stack[u], c, p), c \in board'.instance[p]
                 PROVE  \E v \in DOMAIN stack' : Carries(stack'[v], c, p)
      BY DEF CarriersStay
    <2>1. ~(u = t /\ stack[t].system)
      <3> SUFFICES ASSUME u = t, stack[t].system PROVE FALSE
        OBVIOUS
      <3>1. c = card /\ p = owner
        BY DEF Carries
      <3>2. c \in board.instance[p]
        BY <1>6
      <3>3. cards # {}
        BY <3>1, <3>2
      <3>4. ~IsSpentInOpenFrame(card)
        <4> SUFFICES ASSUME NEW f \in DOMAIN frames, c \in AllSpent(f) PROVE FALSE
          BY <3>1 DEF IsSpentInOpenFrame
        <4>1. PICK q \in Player : c \in Spent(f)[q]
          BY DEF AllSpent
        <4>2. c \in board.instance[q] /\ c \notin frames[f].snap.instance[q]
          BY <1>1, <4>1, SpentTyped
        <4> QED BY <1>7, <4>2 DEF CardsInv, PlayedAtWork, IsStanding
      <3>5. board' = PutAway(a, cards)
        BY <1>4, <3>3, <3>4
      <3>6. c \notin board'.instance[p]
        <4>1. c \in cards
          BY <3>1, <3>2
        <4> HIDE DEF cards
        <4> QED BY <1>5, <3>1, <3>5, <4>1
      <3> QED BY <3>6
    <2> QED BY <1>1, <1>4, <2>1, TakesOne, AdvancedCarries
  <1>8. \A p \in Player : board'.hand[p] \subseteq board.hand[p]
    BY <1>6
  <1> QED BY <1>2, <1>6, <1>7, <1>8, StepKeepsCards

LEMMA StartLandKeepCards ==
    ASSUME CardsInv, WindowInv', NEW t \in DOMAIN stack, Start(t) \/ Land(t)
    PROVE  CardsInv'
  <1>1. TypeInv /\ AllOnce(board)
    BY DEF CardsInv, WindowInv
  <1>2. SameWindows /\ UNCHANGED settled /\ Offering(stack') \subseteq Offering(stack)
    BY <1>1, WindowStepsPlain, PlainOffers
  <1>3. /\ stack' = Advanced(t) /\ stack[t].steps # <<>>
        /\ Head(stack[t].steps) # "Dispose" /\ UNCHANGED board
    <2>1. /\ stack' = Advanced(t) /\ UNCHANGED board
          /\ Takes(t, "Start") \/ Takes(t, "Land")
      BY DEF Start, Land
    <2> QED BY <2>1, TakesOne
  <1>4. CarriersStay
    BY <1>1, <1>3, AdvancedCarries DEF CarriersStay
  <1> QED BY <1>1, <1>2, <1>3, <1>4, StepKeepsCards

LEMMA ApplyKeepsCards ==
    ASSUME CardsInv, WindowInv', NEW t \in DOMAIN stack, Apply(t)
    PROVE  CardsInv'
  <1>1. TypeInv /\ AllOnce(board) /\ board \in Board
    BY DEF CardsInv, WindowInv, TypeInv
  <1>2. SameWindows /\ UNCHANGED settled /\ Offering(stack') \subseteq Offering(stack)
    BY <1>1, ApplyPlain, PlainOffers
  <1>3. /\ stack[t].steps # <<>> /\ IsNewest(t, DOMAIN stack)
        /\ Head(stack[t].steps) # "Dispose" /\ UNCHANGED board
    <2>1. Takes(t, "Apply") /\ UNCHANGED board
      BY DEF Apply
    <2> QED BY <2>1, TakesOne
  <1>4. \/ stack' = Advanced(t)
        \/ \E run \in Seq(PlainPipeline) : stack' = Pushed(Advanced(t), t, run)
    <2>1. \/ stack' = Advanced(t)
          \/ \E run, h : /\ run \in RollPassingRuns(board, h) \/ run = <<>>
                         /\ stack' = Pushed(Advanced(t), t, run)
      BY DEF Apply
    <2>2. <<>> \in Seq(PlainPipeline)
      OBVIOUS
    <2> QED BY <1>1, <2>1, <2>2, RollPassingTyped
  <1>5. CarriersStay
    <2>1. \A u \in DOMAIN Advanced(t) : u \in DOMAIN stack' /\ stack'[u] = Advanced(t)[u]
      <3>1. CASE stack' = Advanced(t)
        BY <3>1
      <3>2. CASE \E run \in Seq(PlainPipeline) : stack' = Pushed(Advanced(t), t, run)
        <4> DEFINE st == Advanced(t)
        <4>1. GoodStack(st) /\ DOMAIN st = DOMAIN stack
          BY <1>1, <1>3, AdvancedTyped
        <4> HIDE DEF st
        <4>2. PICK run \in Seq(PlainPipeline) : stack' = Pushed(st, t, run)
          BY <3>2 DEF st
        <4>3. t \in DOMAIN st \cup {0} /\ IsNewest(t, DOMAIN st)
          BY <1>3, <4>1
        <4>4. \A u \in DOMAIN st : u \in DOMAIN stack' /\ stack'[u] = st[u]
          BY <4>1, <4>2, <4>3, PushedOver
        <4> QED BY <4>4 DEF st
      <3> QED BY <1>4, <3>1, <3>2
    <2> QED BY <1>1, <1>3, <2>1, AdvancedCarries DEF CarriersStay
  <1> QED BY <1>1, <1>2, <1>3, <1>5, StepKeepsCards

LEMMA FinishKeepsCards ==
    ASSUME CardsInv, WindowInv', NEW t \in DOMAIN stack, Finish(t)
    PROVE  CardsInv'
  <1> DEFINE run == stack[t]
             rest == Without(stack, {t})
             done == /\ ~run.system
                     /\ \A i \in DOMAIN rest : rest[i].card = run.card => rest[i].system
             holders == {p \in Player : run.card \in board.instance[p]}
             last(p) == [Pipeline(run.card, p, <<"Dispose">>) EXCEPT !.system = TRUE]
  <1>1. TypeInv /\ AllOnce(board)
    BY DEF CardsInv, WindowInv
  <1>2. SameWindows /\ UNCHANGED settled /\ Offering(stack') \subseteq Offering(stack)
    BY <1>1, FinishPlain, PlainOffers
  <1>3. /\ run.steps = <<>> /\ UNCHANGED board
        /\ IF done /\ holders # {}
           THEN \E p \in holders : stack' = [stack EXCEPT ![t] = last(p)]
           ELSE stack' = rest
    BY DEF Finish
  <1>4. \A u \in DOMAIN stack \ {t} : u \in DOMAIN stack' /\ stack'[u] = stack[u]
    <2> HIDE DEF last, done, holders
    <2> QED BY <1>3 DEF Without
  <1>5. CarriersStay
    <2> SUFFICES ASSUME NEW u \in DOMAIN stack, NEW c \in Card, NEW p \in Player,
                        Carries(stack[u], c, p), c \in board'.instance[p]
                 PROVE  \E v \in DOMAIN stack' : Carries(stack'[v], c, p)
      BY DEF CarriersStay
    <2>1. CASE u # t
      BY <1>4, <2>1
    <2>2. CASE u = t
      <3>1. ~run.system /\ run.card = c
        BY <1>3, <2>2 DEF Carries
      <3>2. p \in holders
        BY <1>3, <3>1
      <3>3. CASE done
        <4>1. PICK q \in holders : stack' = [stack EXCEPT ![t] = last(q)]
          BY <1>3, <3>2, <3>3
        <4>2. q = p
          <5>1. Once(board, c) /\ q \in Player /\ c \in board.instance[q] /\ c \in board.instance[p]
            BY <1>1, <3>1, <3>2 DEF AllOnce
          <5> QED BY <5>1 DEF Once, WithSeat
        <4>3. Carries(last(p), c, p)
          BY <3>1 DEF Carries, Pipeline
        <4>4. t \in DOMAIN stack' /\ stack'[t] = last(q)
          <5> HIDE DEF last
          <5> QED BY <4>1
        <4> HIDE DEF last
        <4> QED BY <4>2, <4>3, <4>4
      <3>4. CASE ~done
        <4>1. PICK i \in DOMAIN rest : rest[i].card = c /\ ~rest[i].system
          BY <3>1, <3>4
        <4>2. i \in DOMAIN stack \ {t} /\ rest[i] = stack[i]
          BY <4>1 DEF Without
        <4> QED BY <1>4, <4>1, <4>2 DEF Carries
      <3> QED BY <3>3, <3>4
    <2> QED BY <2>1, <2>2
  <1> QED BY <1>1, <1>2, <1>3, <1>5, StepKeepsCards

LEMMA QuestionAsked ==
    ASSUME TypeInv, NEW t \in DOMAIN stack,
           \/ AskHand(t) \/ AskAnyHero(t) \/ AskOwnHero(t) \/ AskValue(t)
           \/ AskDraw(t) \/ AskRoll(t)
    PROVE  /\ stack[t].steps # <<>> /\ Head(stack[t].steps) # "Dispose"
           /\ \E win : /\ Ask(t, win) /\ win.kind \in Question
                       /\ win.kind = "confirm" /\ win.about # Serpent => Offers(stack[t])
  <1>1. CASE AskHand(t) \/ AskAnyHero(t) \/ AskOwnHero(t)
    <2>1. /\ Takes(t, "AskHand") \/ Takes(t, "AskAnyHero") \/ Takes(t, "AskOwnHero")
          /\ \E p, offers : Ask(t, [Window("card", p, stack[t].card) EXCEPT !.offers = offers])
      BY <1>1 DEF AskHand, AskAnyHero, AskOwnHero
    <2>2. PICK p, offers : Ask(t, [Window("card", p, stack[t].card) EXCEPT !.offers = offers])
      BY <2>1
    <2> DEFINE win == [Window("card", p, stack[t].card) EXCEPT !.offers = offers]
    <2>3. win.kind = "card"
      BY DEF Window
    <2>4. Ask(t, win)
      BY <2>2
    <2> HIDE DEF win
    <2> QED BY <2>1, <2>3, <2>4, TakesOne DEF Question
  <1>2. CASE AskValue(t)
    <2>1. Takes(t, "AskValue")
      BY <1>2 DEF AskValue
    <2>2. PICK v : Ask(t, [Window("value", stack[t].owner, stack[t].card) EXCEPT !.silent = v])
      BY <1>2 DEF AskValue
    <2> DEFINE win == [Window("value", stack[t].owner, stack[t].card) EXCEPT !.silent = v]
    <2>3. win.kind = "value"
      BY DEF Window
    <2>4. Ask(t, win)
      BY <2>2
    <2> HIDE DEF win
    <2> QED BY <2>1, <2>3, <2>4, TakesOne DEF Question
  <1>3. CASE AskDraw(t) \/ AskRoll(t)
    <2> DEFINE win == Window("confirm", stack[t].owner, stack[t].card)
    <2>1. Ask(t, win) /\ (Takes(t, "AskDraw") \/ Takes(t, "AskRoll"))
      BY <1>3 DEF AskDraw, AskRoll, Confirm
    <2>2. win.kind = "confirm" /\ win.about = stack[t].card
      BY DEF Window
    <2>3. stack[t].steps # <<>> /\ Head(stack[t].steps) \in {"AskDraw", "AskRoll"}
      BY <2>1, TakesOne
    <2>4. win.about # Serpent => Offers(stack[t])
      <3>1. /\ 1 \in DOMAIN stack[t].steps
            /\ stack[t].steps[1] \in {"AskDraw", "AskRoll"}
            /\ stack[t] \in GoodPipeline
        BY <2>3, StackTyped
      <3> QED BY <2>2, <3>1 DEF GoodPipeline, RollsAHero, Offers
    <2> HIDE DEF win
    <2> QED BY <2>1, <2>2, <2>3, <2>4 DEF Question
  <1> QED BY <1>1, <1>2, <1>3

LEMMA QuestionsKeepCards ==
    ASSUME CardsInv, WindowInv', NEW t \in DOMAIN stack,
           \/ AskHand(t) \/ AskAnyHero(t) \/ AskOwnHero(t) \/ AskValue(t)
           \/ AskDraw(t) \/ AskRoll(t)
    PROVE  CardsInv'
  <1>1. TypeInv /\ AllOnce(board)
    BY DEF CardsInv, WindowInv
  <1>2. stack[t].steps # <<>> /\ Head(stack[t].steps) # "Dispose"
    BY <1>1, QuestionAsked
  <1>3. PICK win : /\ Ask(t, win) /\ win.kind \in Question
                   /\ win.kind = "confirm" /\ win.about # Serpent => Offers(stack[t])
    BY <1>1, QuestionAsked
  <1>4. PICK n \in Nat \ {0} :
           /\ frames' = Opened(n, win)
           /\ \A m \in DOMAIN frames : m < n
           /\ \A u \in DOMAIN stack' :
                 /\ u \in DOMAIN stack
                 /\ u = t => stack'[u].on = n /\ ~Offers(stack'[u])
                 /\ u # t => stack'[u] = stack[u]
           /\ UNCHANGED <<board, settled>>
    BY <1>1, <1>2, <1>3, AskOpens
  <1>5. /\ DOMAIN frames' = DOMAIN frames \cup {n} /\ n \notin DOMAIN frames
        /\ \A g \in DOMAIN frames : frames'[g] = frames[g] /\ g \in Nat
        /\ frames'[n].win = win /\ frames'[n].snap = board
    BY <1>1, <1>4, FramesTyped DEF Opened
  <1>6. win.kind \notin Standing
    BY <1>3 DEF Question, Standing
  <1>7. CASE \E f \in DOMAIN frames : frames[f].win.kind \in Standing
    <2>1. PICK f \in DOMAIN frames : frames[f].win.kind \in Standing
      BY <1>7
    <2>2. f \in DOMAIN frames' /\ frames'[f] = frames[f] /\ board' = board
      BY <1>4, <1>5
    <2>3. SnapKept(f)
      BY <2>1 DEF CardsInv, SnapsKept, IsStanding
    <2>4. SnapKept(f)'
      BY <2>2, <2>3 DEF SnapKept
    <2>5. frames'[f].win.kind = "attack" => frames'[f].win.about \in board'.row
      BY <2>1, <2>2 DEF CardsInv, PreyInRow
    <2>6. frames'[f].win.kind = "challenge" =>
              /\ \A g \in DOMAIN frames' : g >= f
              /\ \A p \in Player :
                    frames'[f].win.about \in board'.instance[p] => frames'[f].win.about \in Magic
      BY <1>4, <1>5, <2>1, <2>2 DEF CardsInv, ContestsFirst
    <2> QED BY <1>1, <2>1, <2>2, <2>4, <2>5, <2>6, WindowStands
  <1>8. CASE \A f \in DOMAIN frames : frames[f].win.kind \notin Standing
    <2>1. \A f \in DOMAIN frames' : frames'[f].win.kind \notin Standing
      BY <1>5, <1>6, <1>8
    <2>2. PlayedAtWork'
      <3>1. \A u \in DOMAIN stack, c \in Card, p \in Player :
               Carries(stack[u], c, p) => u \in DOMAIN stack' /\ Carries(stack'[u], c, p)
        <4> SUFFICES ASSUME NEW u \in DOMAIN stack, NEW c \in Card, NEW p \in Player,
                            Carries(stack[u], c, p)
                     PROVE  u \in DOMAIN stack' /\ Carries(stack'[u], c, p)
          OBVIOUS
        <4>1. u \in DOMAIN Advanced(t) /\ Carries(Advanced(t)[u], c, p)
          BY <1>1, <1>2, AdvancedCarries
        <4>2. PICK m : stack' = [Advanced(t) EXCEPT ![t].on = m]
          BY <1>3 DEF Ask
        <4>3. /\ stack'[u].card = Advanced(t)[u].card
              /\ stack'[u].system = Advanced(t)[u].system
              /\ stack'[u].owner = Advanced(t)[u].owner
              /\ stack'[u].steps = Advanced(t)[u].steps
              /\ u \in DOMAIN stack'
          <5>1. Advanced(t)[u] \in GoodPipeline
            BY <1>1, <1>2, <4>1, AdvancedTyped DEF GoodStack
          <5> HIDE DEF Advanced
          <5>2. u \in DOMAIN stack' /\ stack'[u] = IF u = t THEN [Advanced(t)[u] EXCEPT !.on = m] ELSE Advanced(t)[u]
            BY <4>1, <4>2
          <5>3. CASE u = t
            BY <5>1, <5>2, <5>3 DEF GoodPipeline, PipelineType
          <5>4. CASE u # t
            BY <5>2, <5>4
          <5> QED BY <5>3, <5>4
        <4> QED BY <4>1, <4>3 DEF Carries
      <3> SUFFICES ASSUME NEW p \in Player, NEW c \in board'.instance[p]
                   PROVE  /\ AtWork(c, p)'
                          /\ \A g \in DOMAIN frames' : c \in frames'[g].snap.instance[p]
        BY DEF PlayedAtWork
      <3>2. c \in board.instance[p] /\ c \in Card
        BY <1>4 DEF CardsInv, WindowInv, TypeInv, Board
      <3>3. /\ AtWork(c, p)
            /\ \A g \in DOMAIN frames : c \in frames[g].snap.instance[p]
        BY <1>8, <3>2 DEF CardsInv, PlayedAtWork, IsStanding
      <3>4. AtWork(c, p)'
        BY <1>4, <3>1, <3>2, <3>3 DEF AtWork
      <3> QED BY <1>5, <3>2, <3>3, <3>4
    <2>3. OffersClean'
      <3>1. CASE NothingPlayed
        BY <1>4, <3>1 DEF NothingPlayed, OffersClean
      <3>2. CASE /\ Offering(stack) = {}
                 /\ \A f \in Rolling(frames) : frames[f].win.kind # "confirm"
        <4>1. ~Offers(stack[t])
          BY <3>2 DEF Offering
        <4>2. Offering(stack') = {}
          BY <1>4, <3>2 DEF Offering
        <4>3. \A f \in Rolling(frames') : frames'[f].win.kind # "confirm"
          BY <1>3, <1>5, <1>6, <3>2, <4>1 DEF Rolling
        <4> QED BY <4>2, <4>3 DEF OffersClean
      <3> QED BY <3>1, <3>2 DEF CardsInv, OffersClean
    <2>4. ContestClean' /\ AllOnce(board')
      BY <1>1, <1>4 DEF CardsInv, ContestClean
    <2> QED BY <2>1, <2>2, <2>3, <2>4, NoneStands
  <1> QED BY <1>7, <1>8

(* A window opens over a board on which nothing is in play. *)
LEMMA UsedOnce ==
    ASSUME NEW b \in Board, AllOnce(b), NEW d, NEW used, d = [b EXCEPT !.used = used]
    PROVE  /\ AllOnce(d) /\ d.instance = b.instance /\ d.hand = b.hand /\ d.row = b.row
  <1>1. SameZones(d, b) /\ SameMonsters(d, b)
    BY DEF Board, SameZones, SameMonsters
  <1> QED BY <1>1, SameZonesOnce, SameMonstersOnce DEF AllOnce, SameZones, SameMonsters

LEMMA RollOpensClean ==
    ASSUME WindowInv', AllOnce(board'), NothingPlayed', NEW n \in DOMAIN frames',
           frames'[n].win.kind \in {"roll", "attack"}, frames'[n].snap = board',
           frames'[n].win.kind = "attack" => frames'[n].win.about \in board'.row
    PROVE  CardsInv'
  <1>1. SubjectOf(frames'[n].win) = {} /\ frames'[n].win.kind \in Standing
    BY DEF SubjectOf, Standing
  <1>2. SnapKept(n)'
    BY <1>1 DEF SnapKept, AllOnce, NothingPlayed
  <1> QED BY <1>1, <1>2, WindowStands

LEMMA RollKeepsCards ==
    ASSUME CardsInv, WindowInv', NEW t \in DOMAIN stack, Roll(t)
    PROVE  CardsInv'
  <1>1. TypeInv /\ board \in Board /\ AllOnce(board) /\ WindowInv
    BY DEF CardsInv, WindowInv, TypeInv
  <1>2. /\ stack[t].steps # <<>> /\ Head(stack[t].steps) = "Roll"
        /\ IsNewest(t, DOMAIN stack)
    <2>1. Takes(t, "Roll")
      BY DEF Roll
    <2> QED BY <2>1, TakesOne
  <1>3. NothingPlayed
    <2>1. 1 \in DOMAIN stack[t].steps /\ stack[t].steps[1] = "Roll"
      BY <1>1, <1>2, StackTyped
    <2>2. t \in Offering(stack)
      BY <2>1 DEF Offering, Offers
    <2> QED BY <2>2 DEF CardsInv, OffersClean
  <1>4. board' = [board EXCEPT !.used = board.used \cup {stack[t].card}]
    BY <1>1, RollKeeps
  <1>5. AllOnce(board') /\ board'.instance = board.instance
    BY <1>1, <1>4, UsedOnce
  <1>6. NothingPlayed'
    BY <1>3, <1>5 DEF NothingPlayed
  <1>7. \E n \in DOMAIN frames' : frames'[n].win.kind = "roll" /\ frames'[n].snap = board'
    <2>1. PICK n : OpenRoll(board, [Advanced(t) EXCEPT ![t].on = n + 1], t, n + 1,
                            stack[t].owner, stack[t].card)
      BY DEF Roll
    <2>2. PICK m : frames' = [g \in DOMAIN frames \cup {n + 1} |->
                         IF g = n + 1
                         THEN [snap |-> board', win |-> RollWindow(stack[t].owner, stack[t].card, m)]
                         ELSE frames[g]]
      BY <2>1 DEF OpenRoll
    <2>3. RollWindow(stack[t].owner, stack[t].card, m).kind = "roll"
      BY DEF RollWindow, Window
    <2>4. /\ n + 1 \in DOMAIN frames'
          /\ frames'[n + 1] = [snap |-> board', win |-> RollWindow(stack[t].owner, stack[t].card, m)]
      BY <2>2
    <2> QED BY <2>3, <2>4
  <1> QED BY <1>5, <1>6, <1>7, RollOpensClean

LEMMA RunStepKeepsCards ==
    ASSUME CardsInv, WindowInv', NoDrawUnderWindow, RunStep
    PROVE  CardsInv'
  <1>1. PICK t \in DOMAIN stack :
          \/ AskHand(t) \/ AskAnyHero(t) \/ AskOwnHero(t) \/ AskValue(t)
          \/ AskDraw(t) \/ AskRoll(t) \/ Draw(t) \/ Discard(t) \/ Destroy(t)
          \/ Sacrifice(t) \/ Dispose(t) \/ Start(t) \/ Apply(t) \/ Land(t)
          \/ Roll(t) \/ Finish(t)
    BY DEF RunStep
  <1>2. Draw(t) => \A f \in DOMAIN frames : frames[f].win.kind \notin Standing
    BY DEF NoDrawUnderWindow, IsStanding, Draw, Do
  <1> QED
    BY <1>1, <1>2, QuestionsKeepCards, EffectsKeepCards, DisposeKeepsCards,
       StartLandKeepCards, ApplyKeepsCards, RollKeepsCards, FinishKeepsCards

LEMMA AnnounceKeepsCards ==
    ASSUME CardsInv, WindowInv', Announce
    PROVE  CardsInv'
  <1> DEFINE awake == [i \in DOMAIN stack |-> Woken(stack[i])]
  <1>1. TypeInv /\ board \in Board /\ AllOnce(board) /\ WindowInv /\ OneToken
    BY DEF CardsInv, WindowInv, TypeInv
  <1>2. GoodStack(awake) /\ DOMAIN awake = DOMAIN stack
    BY <1>1, WokenTyped DEF TypeInv, GoodStack
  <1>3. \A u \in DOMAIN stack :
          /\ awake[u].card = stack[u].card /\ awake[u].owner = stack[u].owner
          /\ awake[u].system = stack[u].system /\ awake[u].steps = stack[u].steps
    <2> SUFFICES ASSUME NEW u \in DOMAIN stack
                 PROVE  LET w == Woken(stack[u]) IN
                        /\ w.card = stack[u].card /\ w.owner = stack[u].owner
                        /\ w.system = stack[u].system /\ w.steps = stack[u].steps
      OBVIOUS
    <2>1. stack[u] \in GoodPipeline
      BY <1>1, StackTyped
    <2> DEFINE v == IF settled.answer.slot = "value" THEN settled.answer.value
                    ELSE stack[u].value
               b == stack[u].fed \/ settled.answer.slot = "pick"
               cards == IF settled.answer.slot = "pick"
                        THEN settled.answer.pick ELSE stack[u].pick
    <2>2. \/ Woken(stack[u]) = stack[u]
          \/ Woken(stack[u]) = [stack[u] EXCEPT !.on = NoFrame, !.value = v,
                                                !.fed = b, !.pick = cards]
      BY DEF Woken
    <2> HIDE DEF v, b, cards
    <2> QED BY <2>1, <2>2 DEF GoodPipeline, PipelineType
  <1>4. PICK t \in DOMAIN stack \cup {0},
             run \in FrameResolvedRuns(board, settled.cards) :
            IsNewest(t, DOMAIN stack) /\ stack' = Pushed(awake, t, run)
    BY DEF Announce
  <1>5. run \in Seq(FreshPipeline) /\ Len(run) \in Nat /\ Len(run) <= 1 /\ t \in Nat
    <2>1. run \in Seq(FreshPipeline)
      BY <1>1, FrameResolvedTyped DEF TypeInv, SettledType
    <2> QED BY <1>1, <2>1, OneRun DEF TypeInv, GoodStack
  <1> HIDE DEF awake
  <1>6. /\ settled' = Nothing /\ UNCHANGED <<board, frames>>
    BY DEF Announce
  <1>7. CASE \E f \in DOMAIN frames : frames[f].win.kind \in Standing
    <2>1. PICK f \in DOMAIN frames : frames[f].win.kind \in Standing
      BY <1>7
    <2>2. f \in DOMAIN frames' /\ frames' = frames /\ board' = board
      BY <1>6
    <2>3. SnapKept(f)
      BY <2>1 DEF CardsInv, SnapsKept, IsStanding
    <2>4. SnapKept(f)'
      BY <2>2, <2>3 DEF SnapKept
    <2>5. frames[f].win.kind = "attack" => frames[f].win.about \in board.row
      BY <2>1 DEF CardsInv, PreyInRow
    <2>6. frames[f].win.kind = "challenge" =>
              /\ \A g \in DOMAIN frames : g >= f
              /\ \A p \in Player :
                    frames[f].win.about \in board.instance[p] => frames[f].win.about \in Magic
      BY <2>1 DEF CardsInv, ContestsFirst
    <2> QED BY <1>1, <2>1, <2>2, <2>4, <2>5, <2>6, WindowStands
  <1>8. CASE \A f \in DOMAIN frames : frames[f].win.kind \notin Standing
    <2>1. \A u \in DOMAIN stack : u \in DOMAIN stack' /\ stack'[u] = awake[u]
      <3>1. t \in DOMAIN awake \cup {0} /\ IsNewest(t, DOMAIN awake)
        BY <1>2, <1>4
      <3>2. \A i \in DOMAIN awake : i <= t
        BY <3>1 DEF IsNewest
      <3>3. \A i \in DOMAIN awake :
               i <= t /\ i \in DOMAIN Pushed(awake, t, run) /\ Pushed(awake, t, run)[i] = awake[i]
        BY <1>2, <1>5, <3>1, PushedOver
      <3> QED BY <1>2, <1>4, <3>3
    <2>2. ASSUME NEW p \in Player, NEW c \in board.instance[p]
          PROVE  /\ AtWork(c, p)'
                 /\ \A g \in DOMAIN frames' : c \in frames'[g].snap.instance[p]
      <3>1. /\ AtWork(c, p) /\ c \in Card
            /\ \A g \in DOMAIN frames : c \in frames[g].snap.instance[p]
        BY <1>1, <1>8 DEF CardsInv, PlayedAtWork, IsStanding, Board
      <3>2. CASE \E u \in DOMAIN stack : Carries(stack[u], c, p)
        <4>1. PICK u \in DOMAIN stack : Carries(stack[u], c, p)
          BY <3>2
        <4>2. u \in DOMAIN stack' /\ Carries(stack'[u], c, p)
          BY <1>3, <2>1, <4>1 DEF Carries
        <4> QED BY <1>6, <3>1, <4>2 DEF AtWork
      <3>3. CASE c \in settled.cards /\ c \in Magic
        <4>1. settled.cards = {c}
          BY <3>3 DEF CardsInv, ContestClean
        <4>2. \A q \in Player : c \notin board.heroes[q]
          BY <1>1, <3>1 DEF AllOnce, Once, WithSeat
        <4> DEFINE effect(q) == <<Pipeline(c, q, <<"AskHand", "Discard",
                                                   "AskAnyHero", "Destroy">>)>>
        <4>3. \E q \in Player : run = effect(q)
          <5> DEFINE effects == UNION {{<<Pipeline(e, q, <<"AskHand", "Discard",
                                              "AskAnyHero", "Destroy">>)>> :
                        e \in settled.cards \cap board.instance[q] \cap Magic} : q \in Player}
                     offers == UNION {{<<[Pipeline(e, q, <<"AskRoll">>)
                               EXCEPT !.system = TRUE]>> :
                        e \in settled.cards \cap board.heroes[q] \cap Hero} : q \in Player}
          <5>1. run \in IF effects \cup offers = {} THEN {<<>>} ELSE effects \cup offers
            BY <1>4 DEF FrameResolvedRuns
          <5>2. offers = {}
            BY <4>1, <4>2
          <5>3. effect(p) \in effects
            BY <3>3, <4>1
          <5>4. run \in effects
            <6> HIDE DEF effects, offers, effect
            <6> QED BY <5>1, <5>2, <5>3
          <5>5. PICK q \in Player, e \in settled.cards : run = <<Pipeline(e, q, <<"AskHand", "Discard",
                                              "AskAnyHero", "Destroy">>)>>
            BY <5>4
          <5> QED BY <4>1, <5>5
        <4>4. PICK q \in Player : run = effect(q)
          BY <4>3
        <4> DEFINE one == Pipeline(c, q, <<"AskHand", "Discard", "AskAnyHero", "Destroy">>)
        <4>5. one.card = c /\ ~one.system
          BY DEF Pipeline
        <4>6. run = <<one>>
          BY <4>4
        <4> HIDE DEF one, effect
        <4>7. t \in DOMAIN awake \cup {0} /\ IsNewest(t, DOMAIN awake)
          BY <1>2, <1>4
        <4>8. t + 1 \in DOMAIN Pushed(awake, t, run) /\ Pushed(awake, t, run)[t + 1] = one
          <5>1. \A r : run = <<r>> => t + 1 \in DOMAIN Pushed(awake, t, run)
                                      /\ Pushed(awake, t, run)[t + 1] = r
            BY <1>2, <1>5, <4>7, PushedOver
          <5> QED BY <4>6, <5>1
        <4>9. t + 1 \in DOMAIN stack' /\ Carries(stack'[t + 1], c, p)
          BY <1>4, <4>5, <4>8 DEF Carries
        <4> QED BY <1>6, <3>1, <4>9 DEF AtWork
      <3> QED BY <3>1, <3>2, <3>3 DEF AtWork
    <2>3. PlayedAtWork'
      BY <1>6, <2>2 DEF PlayedAtWork
    <2>4. OffersClean'
      <3>1. CASE NothingPlayed
        BY <1>6, <3>1 DEF NothingPlayed, OffersClean
      <3>2. CASE /\ Offering(stack) = {} /\ ~NothingPlayed
                 /\ \A f \in Rolling(frames) : frames[f].win.kind # "confirm"
        <4>1. ASSUME NEW u \in Offering(stack') PROVE FALSE
          <5>1. PICK q \in Player, e \in Card : e \in board.instance[q]
            BY <1>1, <3>2 DEF NothingPlayed, Board
          <5>2. u \in DOMAIN stack' /\ Offers(stack'[u])
            BY <4>1 DEF Offering
          <5>3. t \in DOMAIN awake \cup {0} /\ IsNewest(t, DOMAIN awake)
            BY <1>2, <1>4
          <5> DEFINE S == {run[i] : i \in DOMAIN run}
          <5>4. run \in Seq(S)
            BY <1>5
          <5>5. u \in DOMAIN Pushed(awake, t, run)
            BY <1>4, <5>2
          <5>6. \/ u \in DOMAIN awake /\ Pushed(awake, t, run)[u] = awake[u]
                \/ Pushed(awake, t, run)[u] \in S
            <6> HIDE DEF S
            <6> QED BY <1>2, <5>3, <5>4, <5>5, PushedAt
          <5>7. CASE u \in DOMAIN awake /\ Pushed(awake, t, run)[u] = awake[u]
            BY <1>2, <1>3, <1>4, <3>2, <5>2, <5>7 DEF Offering, Offers
          <5>8. CASE Pushed(awake, t, run)[u] \in S
            <6>1. PICK i \in DOMAIN run : stack'[u] = run[i]
              BY <1>4, <5>8
            <6>2. Offers(run[i]) /\ run # <<>>
              BY <5>2, <6>1
            <6>3. PICK p \in Player, c \in settled.cards :
                     \/ run = <<Pipeline(c, p, <<"AskHand", "Discard", "AskAnyHero", "Destroy">>)>>
                     \/ /\ run = <<[Pipeline(c, p, <<"AskRoll">>) EXCEPT !.system = TRUE]>>
                        /\ c \in board.heroes[p]
              BY <1>4, <6>2 DEF FrameResolvedRuns
            <6>4. CASE run = <<Pipeline(c, p, <<"AskHand", "Discard", "AskAnyHero", "Destroy">>)>>
              <7>1. run[i].steps = <<"AskHand", "Discard", "AskAnyHero", "Destroy">>
                BY <6>4 DEF Pipeline
              <7> QED BY <6>2, <7>1 DEF Offers
            <6>5. CASE c \in board.heroes[p]
              <7>1. settled.cards = {c} /\ e = c
                BY <5>1 DEF CardsInv, ContestClean
              <7>2. Once(board, c)
                BY <1>1, <5>1, <6>5 DEF AllOnce, Board
              <7> QED BY <5>1, <6>5, <7>1, <7>2 DEF Once, WithSeat
            <6> QED BY <6>3, <6>4, <6>5
          <5> QED BY <5>6, <5>7, <5>8
        <4>2. Offering(stack') = {}
          BY <4>1
        <4> QED BY <1>6, <3>2, <4>2 DEF OffersClean
      <3> QED BY <3>1, <3>2 DEF CardsInv, OffersClean
    <2>5. ContestClean'
      BY <1>6 DEF ContestClean, Nothing
    <2>6. AllOnce(board') /\ \A f \in DOMAIN frames' : frames'[f].win.kind \notin Standing
      BY <1>1, <1>6, <1>8
    <2> QED BY <2>3, <2>4, <2>5, <2>6, NoneStands
  <1> QED BY <1>7, <1>8

-----------------------------------------------------------------------------
(* A window settles.  When a roll, an attack or a contest does, no other    *)
(* stands, and all that may still lie in play is the magic card the contest *)
(* was about.                                                               *)

LEMMA OthersAsk ==
    ASSUME CardsInv, NEW f \in DOMAIN frames, frames[f].win.kind \in Standing,
           frames' = Without(frames, {f})
    PROVE  \A g \in DOMAIN frames' : frames'[g].win.kind \notin Standing
  BY DEF CardsInv, WindowInv, OneToken, Rolling, Without

LEMMA RolledBack ==
    ASSUME CardsInv, NEW f \in DOMAIN frames, frames[f].win.kind \in {"roll", "attack"}
    PROVE  /\ \A p \in Player : Released(f).instance[p] = {}
           /\ AllOnce(Released(f)) /\ Released(f) \in Board /\ Released(f).row = board.row
           /\ \A p \in Player : Restored(f).instance[p] = {}
           /\ AllOnce(Restored(f))
  <1>1. TypeInv /\ AllOnce(board) /\ SnapKept(f) /\ SubjectOf(frames[f].win) = {}
    BY DEF CardsInv, WindowInv, SnapsKept, IsStanding, Standing, SubjectOf
  <1>2. \A p \in Player : Spent(f)[p] = board.instance[p]
    <2>1. \A p \in Player : frames[f].snap.instance[p] = {}
      BY <1>1 DEF SnapKept
    <2>2. \A p \in Player :
             Spent(f)[p] = (board.instance[p] \ frames[f].snap.instance[p])
                              \ SubjectOf(frames[f].win)
      BY <1>1, SpentTyped
    <2> QED BY <1>1, <2>1, <2>2
  <1>3. /\ AllOnce(Released(f)) /\ Released(f).row = board.row
        /\ \A p \in Player : Released(f).instance[p] = board.instance[p] \ Spent(f)[p]
    BY <1>1, ReleasedOnce
  <1>4. Released(f) \in Board
    BY <1>1, ReleasedType
  <1>5. /\ \A c \in Card : Once(Restored(f), c)
        /\ \A m \in Monster : MonsterOnce(Restored(f), m)
        /\ \A p \in Player : Restored(f).instance[p] = {}
    BY <1>1, RestoredOnce
  <1> QED BY <1>2, <1>3, <1>4, <1>5 DEF AllOnce

LEMMA RollSettlesCards ==
    ASSUME CardsInv, WindowInv', NEW f \in DOMAIN frames,
           frames' = Without(frames, {f}),
           \/ frames[f].win.kind = "roll" /\ SettleRoll(f)
           \/ frames[f].win.kind = "attack" /\ SettleAttack(f)
    PROVE  CardsInv'
  <1>1. frames[f].win.kind \in {"roll", "attack"} /\ frames[f].win.kind \in Standing
    BY DEF Standing
  <1>2. \A g \in DOMAIN frames' : frames'[g].win.kind \notin Standing
    BY <1>1, OthersAsk
  <1>3. settled'.cards = {}
    BY DEF SettleRoll, SettleAttack, Nothing
  <1>4. AllOnce(board') /\ \A p \in Player : board'.instance[p] = {}
    <2>1. CASE board' = Released(f) \/ board' = Restored(f)
      BY <1>1, <2>1, RolledBack
    <2>2. CASE frames[f].win.kind = "attack" /\ board' \in Slain(Released(f), frames[f].win.about, frames[f].win.by)
      <3>1. /\ frames[f].win.about \in Monster /\ frames[f].win.by \in Player
        BY <2>2, FramesTyped DEF CardsInv, WindowInv
      <3>2. frames[f].win.about \in Released(f).row
        BY <1>1, <2>2, RolledBack DEF CardsInv, PreyInRow
      <3>3. AllOnce(Released(f)) /\ Released(f) \in Board /\ \A p \in Player : Released(f).instance[p] = {}
        BY <1>1, RolledBack
      <3> QED BY <2>2, <3>1, <3>2, <3>3, SlainOnce
    <2> QED BY <2>1, <2>2 DEF SettleRoll, SettleAttack
  <1> QED BY <1>2, <1>3, <1>4, NothingLies DEF NothingPlayed

LEMMA ContestSettlesCards ==
    ASSUME CardsInv, WindowInv', NEW f \in DOMAIN frames, frames[f].win.kind = "challenge",
           ~HasOpenFramesAfter(f), frames' = Without(frames, {f}),
           SettleUncontested(f) \/ SettleContest(f)
    PROVE  CardsInv'
  <1> DEFINE about == frames[f].win.about
  <1>1. TypeInv /\ AllOnce(board) /\ SnapKept(f) /\ SubjectOf(frames[f].win) = {about}
    BY DEF CardsInv, WindowInv, SnapsKept, IsStanding, Standing, SubjectOf
  <1>2. about \in Card
    BY <1>1, FramesTyped
  <1>3. settled'.cards = {about}
    BY DEF SettleUncontested, SettleContest, Nothing
  <1>4. DOMAIN frames' = {}
    <2>1. \A g \in DOMAIN frames : g >= f /\ ~(g > f) /\ g \in Nat /\ f \in Nat
      BY <1>1, FramesTyped DEF CardsInv, ContestsFirst, HasOpenFramesAfter
    <2>2. \A g \in DOMAIN frames : g = f
      BY <2>1
    <2> QED BY <2>2 DEF Without
  <1>5. \A p \in Player : Spent(f)[p] = board.instance[p] \ {about}
    BY <1>1, SpentTyped DEF SnapKept
  <1>6. /\ AllOnce(Released(f))
        /\ \A p \in Player : Released(f).instance[p] = board.instance[p] \cap {about}
    BY <1>1, <1>5, ReleasedOnce
  <1>7. \A p \in Player : about \in board.instance[p] => about \in Magic
    BY DEF CardsInv, ContestsFirst
  <1>8. /\ AllOnce(board')
        /\ \A p \in Player : board'.instance[p] \subseteq board.instance[p] \cap {about}
    <2>1. CASE board' = Released(f)
      BY <1>6, <2>1
    <2>2. CASE board' = [Released(f) EXCEPT !.challenged = @ \cup {about}]
      <3> DEFINE b == Released(f)
      <3>1. b \in Board
        BY <1>1, ReleasedType
      <3>2. AllOnce(b) /\ \A p \in Player : b.instance[p] = board.instance[p] \cap {about}
        BY <1>6
      <3>3. board' = [b EXCEPT !.challenged = @ \cup {about}]
        BY <2>2
      <3> HIDE DEF b, about
      <3>4. SameZones(board', b) /\ SameMonsters(board', b)
        BY <3>1, <3>3 DEF Board, SameZones, SameMonsters
      <3> QED BY <3>2, <3>4, SameZonesOnce, SameMonstersOnce DEF AllOnce, SameZones
    <2>3. CASE board' = PutAway(Restored(f), {about})
      <3>1. /\ \A c \in Card : IF c \in {about} THEN Nowhere(Restored(f), c) ELSE Once(Restored(f), c)
            /\ \A m \in Monster : MonsterOnce(Restored(f), m)
            /\ \A p \in Player : Restored(f).instance[p] = {}
        BY <1>1, RestoredOnce
      <3>2. Restored(f) \in Board
        BY <1>1, RestoredType
      <3> DEFINE b == Restored(f)
      <3>3. /\ Nowhere(b, about) /\ b \in Board
            /\ \A c \in Card \ {about} : Once(b, c)
            /\ \A m \in Monster : MonsterOnce(b, m)
            /\ \A p \in Player : b.instance[p] = {}
        BY <1>2, <3>1, <3>2
      <3>4. board' = PutAway(b, {about})
        BY <2>3
      <3> HIDE DEF b, about
      <3>5. AllOnce(board') /\ board'.instance = b.instance
        BY <1>2, <3>3, <3>4, LostOnce
      <3> QED BY <3>3, <3>5
    <2> QED BY <2>1, <2>2, <2>3 DEF SettleUncontested, SettleContest
  <1> HIDE DEF about
  <1>9. PlayedAtWork'
    BY <1>3, <1>4, <1>7, <1>8 DEF PlayedAtWork, AtWork
  <1>10. OffersClean'
    <2>1. Offering(stack') = {} /\ Rolling(frames') = {}
      BY <1>3 DEF WindowInv, OneToken
    <2> QED BY <2>1 DEF OffersClean
  <1>11. ContestClean'
    BY <1>2, <1>3, <1>8 DEF ContestClean
  <1> QED BY <1>4, <1>8, <1>9, <1>10, <1>11, NoneStands

LEMMA ResolveStandingKeepsCards ==
    ASSUME CardsInv, WindowInv', NEW f \in DOMAIN frames, ResolveStanding(f)
    PROVE  CardsInv'
  <1>1. /\ ~HasOpenFramesAfter(f) /\ frames' = Without(frames, {f})
        /\ \/ frames[f].win.kind = "roll" /\ SettleRoll(f)
           \/ frames[f].win.kind = "attack" /\ SettleAttack(f)
           \/ frames[f].win.kind = "challenge" /\ (SettleUncontested(f) \/ SettleContest(f))
    BY DEF ResolveStanding
  <1> QED BY <1>1, RollSettlesCards, ContestSettlesCards

LEMMA ResolveQuestionKeepsCards ==
    ASSUME CardsInv, WindowInv', Quiet, NEW f \in DOMAIN frames,
           NEW answer, NEW yes, yes => frames[f].win.kind = "confirm",
           frames[f].win.kind \in Question, ResolveQuestion(f, answer, yes)
    PROVE  CardsInv'
  <1> DEFINE win == frames[f].win
  <1>1. TypeInv /\ AllOnce(board) /\ settled = Nothing
    BY QuietMeans DEF CardsInv, WindowInv
  <1>2. /\ frames' = Without(frames, {f}) /\ board' = Released(f) /\ settled'.cards = {}
    BY DEF ResolveQuestion
  <1>3. /\ AllOnce(board') /\ board'.hand = board.hand /\ board'.row = board.row
        /\ \A p \in Player : board'.instance[p] \subseteq board.instance[p]
    <2>1. /\ AllOnce(Released(f)) /\ Released(f).hand = board.hand
          /\ Released(f).row = board.row
          /\ \A p \in Player : Released(f).instance[p] = board.instance[p] \ Spent(f)[p]
      BY <1>1, ReleasedOnce
    <2> QED BY <1>2, <2>1
  <1>4. \/ stack' = stack
        \/ \E t \in DOMAIN stack \cup {0}, run \in Seq(FreshPipeline) :
              /\ IsNewest(t, DOMAIN stack) /\ stack' = Pushed(stack, t, run)
              /\ yes /\ run = TaskConfirmedRun(Released(f), win)
    <2>1. \/ stack' = stack
          \/ \E t \in DOMAIN stack \cup {0} :
              /\ IsNewest(t, DOMAIN stack)
              /\ yes /\ stack' = Pushed(stack, t, TaskConfirmedRun(Released(f), win))
      BY DEF ResolveQuestion
    <2>2. yes => TaskConfirmedRun(Released(f), win) \in Seq(FreshPipeline)
      BY <1>1, FramesTyped, TaskConfirmedTyped
    <2> HIDE DEF win
    <2> QED BY <2>1, <2>2
  <1>5. \A u \in DOMAIN stack : u \in DOMAIN stack' /\ stack'[u] = stack[u]
    <2>1. CASE stack' = stack
      BY <2>1
    <2>2. CASE \E t \in DOMAIN stack \cup {0}, run \in Seq(FreshPipeline) :
              IsNewest(t, DOMAIN stack) /\ stack' = Pushed(stack, t, run)
      <3>1. PICK t \in DOMAIN stack \cup {0}, run \in Seq(FreshPipeline) :
              IsNewest(t, DOMAIN stack) /\ stack' = Pushed(stack, t, run)
        BY <2>2
      <3>2. GoodStack(stack) /\ \A i \in DOMAIN stack : i <= t
        BY <1>1, <3>1 DEF TypeInv, IsNewest
      <3>3. \A i \in DOMAIN stack :
               i <= t /\ i \in DOMAIN Pushed(stack, t, run) /\ Pushed(stack, t, run)[i] = stack[i]
        BY <3>1, <3>2, PushedOver
      <3> QED BY <3>1, <3>3
    <2> QED BY <1>4, <2>1, <2>2
  <1>6. \A g \in DOMAIN frames' : g \in DOMAIN frames /\ g # f /\ frames'[g] = frames[g]
    BY <1>2 DEF Without
  <1>7. CASE \E g \in DOMAIN frames : frames[g].win.kind \in Standing
    <2>1. PICK g \in DOMAIN frames : frames[g].win.kind \in Standing
      BY <1>7
    <2>2. g \in DOMAIN frames' /\ frames'[g] = frames[g]
      BY <1>2, <2>1 DEF Without, Standing, Question
    <2>3. SnapKept(g)
      BY <2>1 DEF CardsInv, SnapsKept, IsStanding
    <2>4. SnapKept(g)'
      <3>1. \A p \in Player :
              /\ frames[g].snap.instance[p] = {}
              /\ board'.hand[p] \subseteq frames[g].snap.hand[p]
              /\ board'.instance[p] \ SubjectOf(frames[g].win) \subseteq frames[g].snap.hand[p]
        BY <1>3, <2>3 DEF SnapKept
      <3> QED BY <2>2, <2>3, <3>1 DEF SnapKept
    <2>5. frames'[g].win.kind = "attack" => frames'[g].win.about \in board'.row
      BY <1>3, <2>1, <2>2 DEF CardsInv, PreyInRow
    <2>6. frames'[g].win.kind = "challenge" =>
              /\ \A h \in DOMAIN frames' : h >= g
              /\ \A p \in Player :
                    frames'[g].win.about \in board'.instance[p] => frames'[g].win.about \in Magic
      BY <1>3, <1>6, <2>1, <2>2 DEF CardsInv, ContestsFirst
    <2> QED BY <1>3, <2>1, <2>2, <2>4, <2>5, <2>6, WindowStands
  <1>8. CASE \A g \in DOMAIN frames : frames[g].win.kind \notin Standing
    <2>1. \A g \in DOMAIN frames' : frames'[g].win.kind \notin Standing
      BY <1>6, <1>8
    <2>2. PlayedAtWork'
      <3> SUFFICES ASSUME NEW p \in Player, NEW c \in board'.instance[p]
                   PROVE  /\ AtWork(c, p)'
                          /\ \A g \in DOMAIN frames' : c \in frames'[g].snap.instance[p]
        BY DEF PlayedAtWork
      <3>1. /\ AtWork(c, p)
            /\ \A g \in DOMAIN frames : c \in frames[g].snap.instance[p]
        BY <1>3, <1>8 DEF CardsInv, PlayedAtWork, IsStanding
      <3>2. PICK u \in DOMAIN stack : Carries(stack[u], c, p)
        BY <1>1, <3>1 DEF AtWork, Nothing
      <3>3. u \in DOMAIN stack' /\ Carries(stack'[u], c, p)
        BY <1>5, <3>2
      <3> QED BY <1>6, <3>1, <3>3 DEF AtWork
    <2>3. OffersClean'
      <3>1. CASE NothingPlayed
        <4>1. NothingPlayed'
          BY <1>3, <3>1 DEF NothingPlayed
        <4> QED BY <4>1 DEF OffersClean
      <3>2. CASE /\ Offering(stack) = {}
                 /\ \A g \in Rolling(frames) : frames[g].win.kind # "confirm"
        <4>1. \A g \in Rolling(frames') : frames'[g].win.kind # "confirm"
          BY <1>6, <3>2 DEF Rolling
        <4>2. Offering(stack') = {}
          <5>1. CASE stack' = stack
            BY <3>2, <5>1
          <5>2. CASE stack' # stack
            <6>1. PICK t \in DOMAIN stack \cup {0}, run \in Seq(FreshPipeline) :
                    /\ IsNewest(t, DOMAIN stack) /\ stack' = Pushed(stack, t, run)
                    /\ yes /\ run = TaskConfirmedRun(Released(f), win)
              BY <1>4, <5>2
            <6>2. win.kind = "confirm" /\ win.about = Serpent
              BY <3>2, <6>1 DEF Rolling
            <6>3. win.by \in Player
              BY <1>1, FramesTyped
            <6>4. run = <<Pipeline(Serpent, win.by, <<"Draw">>)>>
              BY <6>1, <6>2 DEF TaskConfirmedRun
            <6>5. Pipeline(Serpent, win.by, <<"Draw">>) \in PlainPipeline
              BY <6>3, PipelineTyped, PlainSteps DEF Source
            <6>6. run \in Seq(PlainPipeline)
              BY <6>4, <6>5
            <6>7. Descends(stack', stack)
              BY <1>1, <6>1, <6>6, PushedDescends DEF TypeInv
            <6> QED BY <3>2, <6>7 DEF Descends, Offering
          <5> QED BY <5>1, <5>2
        <4> QED BY <4>1, <4>2 DEF OffersClean
      <3> QED BY <3>1, <3>2 DEF CardsInv, OffersClean
    <2>4. ContestClean'
      BY <1>2 DEF ContestClean
    <2> QED BY <1>3, <2>1, <2>2, <2>3, <2>4, NoneStands
  <1> QED BY <1>7, <1>8

LEMMA AnswerKeepsCards ==
    ASSUME CardsInv, WindowInv', NEW f \in DOMAIN frames, Answer(f) \/ Lapse(f)
    PROVE  CardsInv'
  <1>1. Quiet
    BY DEF Answer, Lapse
  <1>2. CASE ResolveStanding(f)
    BY <1>2, ResolveStandingKeepsCards
  <1>3. CASE \E answer, yes :
                /\ yes => frames[f].win.kind = "confirm"
                /\ frames[f].win.kind \in Question /\ ResolveQuestion(f, answer, yes)
    BY <1>1, <1>3, ResolveQuestionKeepsCards
  <1>4. ResolveStanding(f) \/ \E answer, yes :
                /\ yes => frames[f].win.kind = "confirm"
                /\ frames[f].win.kind \in Question /\ ResolveQuestion(f, answer, yes)
    <2>1. CASE Answer(f)
      BY <2>1 DEF Answer, Question
    <2>2. CASE Lapse(f)
      BY <2>2 DEF Lapse, Question
    <2> QED BY <2>1, <2>2
  <1> QED BY <1>2, <1>3, <1>4

(* A seat that passes is noted in the window, and the windows stand. *)
LEMMA PassesSame ==
    ASSUME TypeInv, NEW f \in DOMAIN frames,
           \E seats : frames' = [frames EXCEPT ![f].win.passes = seats]
    PROVE  SameWindows
  <1>1. PICK seats : frames' = [frames EXCEPT ![f].win.passes = seats]
    OBVIOUS
  <1> DEFINE w == [frames[f].win EXCEPT !.passes = seats]
  <1>2. w.kind = frames[f].win.kind /\ w.about = frames[f].win.about
    BY FramesTyped DEF GoodWindow, WindowType
  <1>3. frames[f] \in [snap : Board, win : GoodWindow]
    BY DEF TypeInv, GoodFrames
  <1>4. frames' = [frames EXCEPT ![f] = [frames[f] EXCEPT !.win = w]]
    BY <1>1
  <1> HIDE DEF w
  <1>5. /\ DOMAIN frames' = DOMAIN frames
        /\ frames'[f].win = w /\ frames'[f].snap = frames[f].snap
        /\ \A g \in DOMAIN frames \ {f} : frames'[g] = frames[g]
    BY <1>3, <1>4
  <1> QED BY <1>2, <1>5 DEF SameWindows

LEMMA PassKeepsCards ==
    ASSUME CardsInv, WindowInv', NEW p \in Player, NEW f \in DOMAIN frames, Pass(p, f)
    PROVE  CardsInv'
  <1>1. CASE ResolveStanding(f)
    BY <1>1, ResolveStandingKeepsCards
  <1>2. CASE /\ \E seats : frames' = [frames EXCEPT ![f].win.passes = seats]
             /\ UNCHANGED <<board, stack, settled>>
    <2>1. TypeInv /\ AllOnce(board)
      BY DEF CardsInv, WindowInv
    <2>2. SameWindows
      BY <1>2, <2>1, PassesSame
    <2>3. CarriersStay
      BY <1>2 DEF CarriersStay
    <2> QED BY <1>2, <2>1, <2>2, <2>3, StepKeepsCards
  <1> QED BY <1>1, <1>2 DEF Pass

-----------------------------------------------------------------------------
(* Cards leave a hand. *)

LEMMA MovedOnce ==
    ASSUME NEW b, AllOnce(b), NEW p \in Player, NEW c \in b.hand[p], c \in Card, NEW d,
           \A q \in Player : d.hand[q] = IF q = p THEN b.hand[q] \ {c} ELSE b.hand[q],
           \/ /\ d.heroes = b.heroes
              /\ \A q \in Player :
                    d.instance[q] = IF q = p THEN b.instance[q] \cup {c} ELSE b.instance[q]
           \/ /\ d.instance = b.instance
              /\ \A q \in Player :
                    d.heroes[q] = IF q = p THEN b.heroes[q] \cup {c} ELSE b.heroes[q],
           d.deck = b.deck, d.discard = b.discard, SameMonsters(d, b)
    PROVE  AllOnce(d)
  <1>1. ASSUME NEW e \in Card PROVE Once(d, e)
    <2>1. Once(b, e) /\ Once(b, c)
      BY DEF AllOnce
    <2>2. \A q \in Player : e \in WithSeat(d, q) <=> e \in WithSeat(b, q)
      BY DEF WithSeat
    <2>3. WithSeats(d, e) <=> WithSeats(b, e)
      BY <2>2 DEF WithSeats
    <2>4. \A q \in Player :
            /\ ~(e \in d.hand[q] /\ e \in d.instance[q])
            /\ ~(e \in d.hand[q] /\ e \in d.heroes[q])
            /\ ~(e \in d.instance[q] /\ e \in d.heroes[q])
      <3>1. c \notin b.instance[p] /\ c \notin b.heroes[p]
        BY <2>1 DEF Once
      <3>2. \A q \in Player :
            /\ ~(e \in b.hand[q] /\ e \in b.instance[q])
            /\ ~(e \in b.hand[q] /\ e \in b.heroes[q])
            /\ ~(e \in b.instance[q] /\ e \in b.heroes[q])
        BY <2>1 DEF Once
      <3> SUFFICES ASSUME NEW q \in Player
                   PROVE  /\ ~(e \in d.hand[q] /\ e \in d.instance[q])
                          /\ ~(e \in d.hand[q] /\ e \in d.heroes[q])
                          /\ ~(e \in d.instance[q] /\ e \in d.heroes[q])
        OBVIOUS
      <3>3. CASE q = p
        <4>1. d.hand[q] = b.hand[q] \ {c}
          BY <3>3
        <4>2. \/ d.heroes[q] = b.heroes[q] /\ d.instance[q] = b.instance[q] \cup {c}
              \/ d.instance[q] = b.instance[q] /\ d.heroes[q] = b.heroes[q] \cup {c}
          BY <3>3
        <4>3. /\ c \notin b.instance[q] /\ c \notin b.heroes[q]
              /\ ~(e \in b.hand[q] /\ e \in b.instance[q])
              /\ ~(e \in b.hand[q] /\ e \in b.heroes[q])
              /\ ~(e \in b.instance[q] /\ e \in b.heroes[q])
          BY <3>1, <3>2, <3>3
        <4> QED BY <4>1, <4>2, <4>3
      <3>4. CASE q # p
        <4>1. /\ d.hand[q] = b.hand[q] /\ d.instance[q] = b.instance[q]
              /\ d.heroes[q] = b.heroes[q]
          BY <3>4
        <4> QED BY <3>2, <4>1
      <3> QED BY <3>3, <3>4
    <2>5. \A q, r \in Player : e \in WithSeat(d, q) /\ e \in WithSeat(d, r) => q = r
      BY <2>1, <2>2 DEF Once
    <2> QED BY <2>1, <2>3, <2>4, <2>5 DEF Once
  <1>2. \A m \in Monster : MonsterOnce(d, m)
    BY SameMonstersOnce DEF AllOnce
  <1> QED BY <1>1, <1>2 DEF AllOnce

LEMMA OutOfHand ==
    ASSUME NEW b, AllOnce(b), NEW p \in Player, NEW c \in b.hand[p], c \in Card, NEW a,
           \A q \in Player : a.hand[q] = IF q = p THEN b.hand[q] \ {c} ELSE b.hand[q],
           a.instance = b.instance, a.heroes = b.heroes,
           a.deck = b.deck, a.discard = b.discard, SameMonsters(a, b)
    PROVE  /\ Nowhere(a, c) /\ \A e \in Card \ {c} : Once(a, e)
           /\ \A m \in Monster : MonsterOnce(a, m)
  <1>1. Once(b, c)
    BY DEF AllOnce
  <1>2. c \in WithSeat(b, p) /\ \A q \in Player \ {p} : c \notin WithSeat(b, q)
    BY <1>1 DEF Once, WithSeat
  <1>3. \A q \in Player : c \notin WithSeat(a, q)
    BY <1>1, <1>2 DEF WithSeat, Once
  <1>4. Nowhere(a, c)
    BY <1>1, <1>2, <1>3 DEF Nowhere, Once, WithSeats
  <1>5. ASSUME NEW e \in Card \ {c} PROVE Once(a, e)
    <2>1. Once(b, e)
      BY DEF AllOnce
    <2>2. \A q \in Player : e \in a.hand[q] <=> e \in b.hand[q]
      OBVIOUS
    <2>3. \A q \in Player : e \in WithSeat(a, q) <=> e \in WithSeat(b, q)
      BY <2>2 DEF WithSeat
    <2>4. WithSeats(a, e) <=> WithSeats(b, e)
      BY <2>3 DEF WithSeats
    <2> QED BY <2>1, <2>2, <2>3, <2>4 DEF Once
  <1>6. \A m \in Monster : MonsterOnce(a, m)
    BY SameMonstersOnce DEF AllOnce
  <1> QED BY <1>4, <1>5, <1>6

LEMMA SpendsKeepCards ==
    ASSUME CardsInv, WindowInv', NEW p \in Player, NEW c \in board.hand[p],
           NEW f \in DOMAIN frames,
           \/ PlayChallenge(p, c, f)
           \/ \E v \in ModifierValue, seat \in Player : PlayModifier(p, c, v, f, seat)
    PROVE  CardsInv'
  <1>1. TypeInv /\ AllOnce(board) /\ board \in Board /\ c \in Card
    BY DEF CardsInv, WindowInv, TypeInv, Board
  <1>2. SameWindows /\ UNCHANGED settled /\ Offering(stack') \subseteq Offering(stack)
    BY <1>1, SpendsPlain, PlainOffers
  <1>3. SpendCard(p, c, f) /\ frames[f].win.kind \in Standing
    BY DEF PlayChallenge, PlayModifier, IsStanding, Standing
  <1>4. board' = [board EXCEPT !.hand[p] = @ \ {c}, !.instance[p] = @ \cup {c}]
    BY <1>3 DEF SpendCard
  <1>5. /\ \A q \in Player : board'.hand[q] = IF q = p THEN board.hand[q] \ {c} ELSE board.hand[q]
        /\ \A q \in Player :
              board'.instance[q] = IF q = p THEN board.instance[q] \cup {c} ELSE board.instance[q]
        /\ board'.heroes = board.heroes /\ board'.deck = board.deck
        /\ board'.discard = board.discard /\ SameMonsters(board', board)
    BY <1>1, <1>4 DEF Board, SameMonsters
  <1>6. AllOnce(board') /\ board'.row = board.row
    BY <1>1, <1>5, MovedOnce DEF SameMonsters
  <1>7. \A q \in Player : /\ board'.hand[q] \subseteq board.hand[q]
                          /\ board'.instance[q] \subseteq board.instance[q] \cup board.hand[q]
    BY <1>5
  <1> QED BY <1>2, <1>3, <1>6, <1>7, StepKeepsCards

LEMMA IdleIsClean ==
    ASSUME CardsInv, Idle
    PROVE  NothingPlayed /\ DOMAIN frames = {} /\ DOMAIN stack = {} /\ settled = Nothing
  <1>1. DOMAIN frames = {} /\ DOMAIN stack = {} /\ settled = Nothing
    BY QuietMeans DEF Idle, IsBusy
  <1>2. NothingPlayed
    BY <1>1 DEF CardsInv, PlayedAtWork, IsStanding, AtWork, Nothing, NothingPlayed
  <1> QED BY <1>1, <1>2

LEMMA PaidOnce ==
    ASSUME CardsInv, NEW p \in Player, NEW cost \in Nat, CanSpend(p, cost)
    PROVE  LET b == Paid(p, cost) IN
           /\ b \in Board /\ AllOnce(b)
           /\ b.hand = board.hand /\ b.instance = board.instance /\ b.row = board.row
  <1>1. TypeInv /\ AllOnce(board)
    BY DEF CardsInv, WindowInv
  <1>2. Paid(p, cost) \in Board
    BY <1>1, PaidTyped
  <1>3. SameZones(Paid(p, cost), board) /\ SameMonsters(Paid(p, cost), board)
    BY DEF Paid, SameZones, SameMonsters
  <1>4. AllOnce(Paid(p, cost))
    BY <1>1, <1>3, SameZonesOnce, SameMonstersOnce DEF AllOnce
  <1> QED BY <1>2, <1>3, <1>4 DEF SameZones, SameMonsters

LEMMA PlaysKeepCards ==
    ASSUME CardsInv, WindowInv', NEW p \in Player, NEW c \in board.hand[p],
           PlayHero(p, c) \/ PlayMagic(p, c)
    PROVE  CardsInv'
  <1> DEFINE b == Paid(p, 1)
             paid == [b EXCEPT !.hand[p] = @ \ {c}]
             win == Window("challenge", p, c)
  <1>1. /\ CanSpend(p, 1) /\ OpenOver(paid, win)
        /\ \/ board' = [paid EXCEPT !.heroes[p] = @ \cup {c}]
           \/ board' = [paid EXCEPT !.instance[p] = @ \cup {c}] /\ c \in Magic
    BY DEF PlayHero, PlayMagic
  <1>2. /\ b \in Board /\ AllOnce(b)
        /\ b.hand = board.hand /\ b.instance = board.instance /\ b.row = board.row
    BY <1>1, PaidOnce
  <1>3. NothingPlayed /\ DOMAIN frames = {}
    BY <1>1, IdleIsClean DEF CanSpend
  <1>4. c \in b.hand[p] /\ c \in Card
    BY <1>2 DEF Board
  <1>5. win.kind = "challenge" /\ win.about = c /\ SubjectOf(win) = {c}
    BY DEF Window, SubjectOf
  <1> HIDE DEF b, win
  <1>6. /\ paid \in Board
        /\ \A q \in Player : paid.hand[q] = IF q = p THEN b.hand[q] \ {c} ELSE b.hand[q]
        /\ paid.instance = b.instance /\ paid.heroes = b.heroes
        /\ paid.deck = b.deck /\ paid.discard = b.discard /\ SameMonsters(paid, b)
    BY <1>2 DEF Board, SameMonsters
  <1> HIDE DEF paid
  <1>7. /\ Nowhere(paid, c) /\ \A e \in Card \ {c} : Once(paid, e)
        /\ \A m \in Monster : MonsterOnce(paid, m)
    BY <1>2, <1>4, <1>6, OutOfHand
  <1>8. /\ board'.hand = paid.hand /\ board'.deck = paid.deck
        /\ board'.discard = paid.discard /\ SameMonsters(board', paid)
        /\ \/ /\ board'.heroes = paid.heroes
              /\ \A q \in Player :
                   board'.instance[q] = IF q = p THEN paid.instance[q] \cup {c} ELSE paid.instance[q]
              /\ c \in Magic
           \/ /\ board'.instance = paid.instance
              /\ \A q \in Player :
                   board'.heroes[q] = IF q = p THEN paid.heroes[q] \cup {c} ELSE paid.heroes[q]
    <2>1. CASE board' = [paid EXCEPT !.heroes[p] = @ \cup {c}]
      BY <1>6, <2>1 DEF Board, SameMonsters
    <2>2. CASE board' = [paid EXCEPT !.instance[p] = @ \cup {c}] /\ c \in Magic
      BY <1>6, <2>2 DEF Board, SameMonsters
    <2> QED BY <1>1, <2>1, <2>2
  <1>9. AllOnce(board')
    <2>1. SameMonsters(board', b)
      BY <1>6, <1>8 DEF SameMonsters
    <2>2. /\ \A q \in Player : board'.hand[q] = IF q = p THEN b.hand[q] \ {c} ELSE b.hand[q]
          /\ board'.deck = b.deck /\ board'.discard = b.discard
      BY <1>6, <1>8
    <2>3. \/ /\ board'.heroes = b.heroes
             /\ \A q \in Player :
                   board'.instance[q] = IF q = p THEN b.instance[q] \cup {c} ELSE b.instance[q]
          \/ /\ board'.instance = b.instance
             /\ \A q \in Player :
                   board'.heroes[q] = IF q = p THEN b.heroes[q] \cup {c} ELSE b.heroes[q]
      BY <1>6, <1>8
    <2> QED BY <1>2, <1>4, <2>1, <2>2, <2>3, MovedOnce
  <1>10. /\ DOMAIN frames' = {1} /\ frames'[1].snap = paid /\ frames'[1].win = win
    BY <1>1 DEF OpenOver
  <1>11. \A q \in Player : board'.instance[q] \subseteq {c} /\ paid.instance[q] = {}
    BY <1>2, <1>3, <1>6, <1>8 DEF NothingPlayed
  <1>12. SnapKept(1)'
    <2>1. \A q \in Player :
            /\ paid.instance[q] = {}
            /\ board'.hand[q] \subseteq paid.hand[q]
            /\ board'.instance[q] \ SubjectOf(win) \subseteq paid.hand[q]
      BY <1>5, <1>8, <1>11
    <2>2. \A e \in Card : IF e \in SubjectOf(win) THEN Nowhere(paid, e) ELSE Once(paid, e)
      BY <1>5, <1>7
    <2> QED BY <1>7, <1>10, <2>1, <2>2 DEF SnapKept
  <1>13. \A q \in Player : c \in board'.instance[q] => c \in Magic
    BY <1>8, <1>11
  <1>14. 1 \in DOMAIN frames' /\ \A g \in DOMAIN frames' : g >= 1
    BY <1>10
  <1>15. frames'[1].win.kind = "challenge" /\ frames'[1].win.about = c
    BY <1>5, <1>10
  <1> QED BY <1>9, <1>12, <1>13, <1>14, <1>15, WindowStands DEF Standing

LEMMA RollOnHeroKeepsCards ==
    ASSUME CardsInv, WindowInv', NEW p \in Player, NEW h, RollOnHero(p, h)
    PROVE  CardsInv'
  <1> DEFINE b == Paid(p, 1)
  <1>1. CanSpend(p, 1) /\ OpenRoll(b, stack, 0, 1, p, h)
    BY DEF RollOnHero
  <1>2. b \in Board /\ AllOnce(b) /\ b.instance = board.instance
    BY <1>1, PaidOnce
  <1>3. NothingPlayed
    BY <1>1, IdleIsClean DEF CanSpend
  <1> HIDE DEF b
  <1>4. board' = [b EXCEPT !.used = b.used \cup {h}]
    BY <1>1 DEF OpenRoll
  <1>5. AllOnce(board') /\ board'.instance = b.instance
    BY <1>2, <1>4, UsedOnce
  <1>6. NothingPlayed'
    BY <1>2, <1>3, <1>5 DEF NothingPlayed
  <1>7. PICK m : frames' = [g \in DOMAIN frames \cup {1} |->
                   IF g = 1 THEN [snap |-> board', win |-> RollWindow(p, h, m)] ELSE frames[g]]
    BY <1>1 DEF OpenRoll
  <1>8. RollWindow(p, h, m).kind = "roll"
    BY DEF RollWindow, Window
  <1>9. 1 \in DOMAIN frames' /\ frames'[1] = [snap |-> board', win |-> RollWindow(p, h, m)]
    BY <1>7
  <1>10. frames'[1].win.kind = "roll" /\ frames'[1].snap = board'
    BY <1>8, <1>9
  <1> QED BY <1>5, <1>6, <1>9, <1>10, RollOpensClean

LEMMA AttackKeepsCards ==
    ASSUME CardsInv, WindowInv', NEW p \in Player, NEW m, AttackMonster(p, m)
    PROVE  CardsInv'
  <1>1. CanSpend(p, 2) /\ board' = Paid(p, 2) /\ m \in board.row
    BY DEF AttackMonster
  <1>2. AllOnce(board') /\ board'.instance = board.instance /\ m \in board'.row
    BY <1>1, PaidOnce
  <1>3. NothingPlayed'
    BY <1>1, <1>2, IdleIsClean DEF CanSpend, NothingPlayed
  <1>4. PICK d : OpenOver(board', [Window("attack", p, m) EXCEPT !.margin = d])
    BY DEF AttackMonster
  <1> DEFINE win == [Window("attack", p, m) EXCEPT !.margin = d]
  <1>5. win.kind = "attack" /\ win.about = m
    BY DEF Window
  <1>6. OpenOver(board', win)
    BY <1>4
  <1> HIDE DEF win
  <1>7. 1 \in DOMAIN frames' /\ frames'[1].snap = board' /\ frames'[1].win = win
    BY <1>6 DEF OpenOver
  <1> QED BY <1>2, <1>3, <1>5, <1>7, RollOpensClean

LEMMA TurnKeepsCards ==
    ASSUME CardsInv, WindowInv', NEW p \in Player, DrawCard(p) \/ EndTurn(p)
    PROVE  CardsInv'
  <1>1. Idle /\ UNCHANGED <<frames, stack, settled>>
    BY DEF DrawCard, EndTurn, CanSpend
  <1>2. NothingPlayed /\ DOMAIN frames' = {} /\ settled'.cards = {}
    BY <1>1, IdleIsClean DEF Nothing
  <1>3. AllOnce(board') /\ board'.instance = board.instance
    <2>1. CASE DrawCard(p)
      <3>1. CanSpend(p, 1) /\ board' \in Drawn(Paid(p, 1), p)
        BY <2>1 DEF DrawCard
      <3>2. /\ Paid(p, 1) \in Board /\ AllOnce(Paid(p, 1))
            /\ Paid(p, 1).instance = board.instance
        BY <3>1, PaidOnce
      <3> QED BY <3>1, <3>2, DrawnOnce
    <2>2. CASE EndTurn(p)
      <3>1. SameZones(board', board) /\ SameMonsters(board', board)
        BY <2>2 DEF EndTurn, SameZones, SameMonsters
      <3> QED BY <3>1, SameZonesOnce, SameMonstersOnce DEF CardsInv, AllOnce, SameZones
    <2> QED BY <2>1, <2>2
  <1> QED BY <1>2, <1>3, NothingLies DEF NothingPlayed

LEMMA CommandKeepsCards ==
    ASSUME CardsInv, WindowInv', Command
    PROVE  CardsInv'
  <1>1. CASE \E p \in Player : \E c \in board.hand[p] : PlayHero(p, c) \/ PlayMagic(p, c)
    BY <1>1, PlaysKeepCards
  <1>2. CASE \E p \in Player : \E h : RollOnHero(p, h)
    BY <1>2, RollOnHeroKeepsCards
  <1>3. CASE \E p \in Player : \E m : AttackMonster(p, m)
    BY <1>3, AttackKeepsCards
  <1>4. CASE \E p \in Player : DrawCard(p) \/ EndTurn(p)
    BY <1>4, TurnKeepsCards
  <1>5. CASE \E p \in Player, f \in DOMAIN frames : \E c \in board.hand[p] :
                 \/ PlayChallenge(p, c, f)
                 \/ \E v \in ModifierValue, seat \in Player : PlayModifier(p, c, v, f, seat)
    BY <1>5, SpendsKeepCards
  <1>6. CASE \E p \in Player, f \in DOMAIN frames : Pass(p, f)
    BY <1>6, PassKeepsCards
  <1>7. CASE \E f \in DOMAIN frames : Answer(f)
    BY <1>7, AnswerKeepsCards
  <1> QED BY <1>1, <1>2, <1>3, <1>4, <1>5, <1>6, <1>7 DEF Command

-----------------------------------------------------------------------------
(* One place for a card is one copy of it. *)

LEMMA CountsOne ==
    ASSUME NEW pile, NEW x, IsFiniteSet(Player)
    PROVE  LET S == {p \in Player : x \in pile[p]} IN
           /\ Cardinality(S) \in Nat
           /\ Cardinality(S) = 0 <=> \A p \in Player : x \notin pile[p]
           /\ Cardinality(S) = 1 <=> \E p \in Player : x \in pile[p] /\ \A q \in Player : x \in pile[q] => q = p
  <1> DEFINE S == {p \in Player : x \in pile[p]}
  <1>1. IsFiniteSet(S)
    <2>1. S \in SUBSET Player
      OBVIOUS
    <2> HIDE DEF S
    <2> QED BY <2>1, FS_Subset
  <1>2. \A p : p \in S <=> p \in Player /\ x \in pile[p]
    OBVIOUS
  <1> HIDE DEF S
  <1>3. Cardinality(S) \in Nat
    BY <1>1, FS_CardinalityType
  <1>4. Cardinality(S) = 0 <=> S = {}
    BY <1>1, FS_EmptySet
  <1>5. Cardinality(S) = 1 <=> \E y : S = {y}
    BY <1>1, FS_Singleton
  <1>6. S = {} <=> \A p \in Player : x \notin pile[p]
    BY <1>2
  <1>7. (\E y : S = {y}) <=> \E p \in Player : x \in pile[p] /\ \A q \in Player : x \in pile[q] => q = p
    <2>1. ASSUME NEW y, S = {y}
          PROVE  y \in Player /\ x \in pile[y] /\ \A q \in Player : x \in pile[q] => q = y
      BY <1>2, <2>1
    <2>2. ASSUME NEW p \in Player, x \in pile[p], \A q \in Player : x \in pile[q] => q = p
          PROVE  S = {p}
      BY <1>2, <2>2
    <2> QED BY <2>1, <2>2
  <1> QED BY <1>3, <1>4, <1>5, <1>6, <1>7 DEF S

LEMMA OneCopy ==
    ASSUME IsFiniteSet(Player), NEW b \in Board, NEW c \in Card
    PROVE  Copies(b, c) = 1 <=> Once(b, c)
  <1> DEFINE h == Cardinality({p \in Player : c \in b.hand[p]})
             i == Cardinality({p \in Player : c \in b.instance[p]})
             g == Cardinality({p \in Player : c \in b.heroes[p]})
             k == IF c \in b.deck THEN 1 ELSE 0
             z == b.discard[c]
  <1>1. /\ h \in Nat /\ (h = 0 <=> \A p \in Player : c \notin b.hand[p])
        /\ h = 1 <=> \E p \in Player : c \in b.hand[p] /\ \A q \in Player : c \in b.hand[q] => q = p
    BY CountsOne
  <1>2. /\ i \in Nat /\ (i = 0 <=> \A p \in Player : c \notin b.instance[p])
        /\ i = 1 <=> \E p \in Player : c \in b.instance[p] /\ \A q \in Player : c \in b.instance[q] => q = p
    BY CountsOne
  <1>3. /\ g \in Nat /\ (g = 0 <=> \A p \in Player : c \notin b.heroes[p])
        /\ g = 1 <=> \E p \in Player : c \in b.heroes[p] /\ \A q \in Player : c \in b.heroes[q] => q = p
    BY CountsOne
  <1>4. z \in Nat /\ k \in {0, 1} /\ (k = 0 <=> c \notin b.deck)
    BY DEF Board
  <1>5. Copies(b, c) = h + i + g + z + k
    BY DEF Copies
  <1> HIDE DEF h, i, g, k, z
  <1>6. Copies(b, c) = 1 <=> \/ h = 1 /\ i = 0 /\ g = 0 /\ z = 0 /\ k = 0
                             \/ h = 0 /\ i = 1 /\ g = 0 /\ z = 0 /\ k = 0
                             \/ h = 0 /\ i = 0 /\ g = 1 /\ z = 0 /\ k = 0
                             \/ h = 0 /\ i = 0 /\ g = 0 /\ z = 1 /\ k = 0
                             \/ h = 0 /\ i = 0 /\ g = 0 /\ z = 0 /\ k = 1
    BY <1>1, <1>2, <1>3, <1>4, <1>5
  <1>7. ASSUME Copies(b, c) = 1 PROVE Once(b, c)
    BY <1>1, <1>2, <1>3, <1>4, <1>6, <1>7 DEF Once, WithSeats, WithSeat, z
  <1>8. ASSUME Once(b, c) PROVE Copies(b, c) = 1
    <2>1. CASE ~WithSeats(b, c)
      <3>1. h = 0 /\ i = 0 /\ g = 0
        BY <1>1, <1>2, <1>3, <2>1 DEF WithSeats, WithSeat
      <3>2. IF c \in b.deck THEN z = 0 ELSE z = 1
        BY <1>8, <2>1 DEF Once, z
      <3> QED BY <1>4, <1>6, <3>1, <3>2
    <2>2. CASE WithSeats(b, c)
      <3>1. PICK p \in Player : c \in WithSeat(b, p)
        BY <2>2 DEF WithSeats
      <3>2. z = 0 /\ k = 0
        BY <1>4, <1>8, <2>2 DEF Once, z
      <3>3. \A q \in Player : c \in WithSeat(b, q) => q = p
        BY <1>8, <3>1 DEF Once
      <3>4. CASE c \in b.hand[p]
        <4>1. \A q \in Player : c \notin b.instance[q] /\ c \notin b.heroes[q] /\ (c \in b.hand[q] => q = p)
          BY <1>8, <3>3, <3>4 DEF Once, WithSeat
        <4> QED BY <1>1, <1>2, <1>3, <1>6, <3>2, <3>4, <4>1
      <3>5. CASE c \in b.instance[p]
        <4>1. \A q \in Player : c \notin b.hand[q] /\ c \notin b.heroes[q] /\ (c \in b.instance[q] => q = p)
          BY <1>8, <3>3, <3>5 DEF Once, WithSeat
        <4> QED BY <1>1, <1>2, <1>3, <1>6, <3>2, <3>5, <4>1
      <3>6. CASE c \in b.heroes[p]
        <4>1. \A q \in Player : c \notin b.hand[q] /\ c \notin b.instance[q] /\ (c \in b.heroes[q] => q = p)
          BY <1>8, <3>3, <3>6 DEF Once, WithSeat
        <4> QED BY <1>1, <1>2, <1>3, <1>6, <3>2, <3>6, <4>1
      <3> QED BY <3>1, <3>4, <3>5, <3>6 DEF WithSeat
    <2> QED BY <2>1, <2>2
  <1> QED BY <1>7, <1>8

LEMMA OneMonster ==
    ASSUME IsFiniteSet(Player), NEW b \in Board, NEW m \in Monster
    PROVE  MonsterCopies(b, m) = 1 <=> MonsterOnce(b, m)
  <1> DEFINE s == Cardinality({p \in Player : m \in b.slain[p]})
             r == Cardinality({m} \cap b.row)
             k == Cardinality({m} \cap b.monsterDeck)
  <1>1. /\ s \in Nat /\ (s = 0 <=> \A p \in Player : m \notin b.slain[p])
        /\ s = 1 <=> \E p \in Player : m \in b.slain[p] /\ \A q \in Player : m \in b.slain[q] => q = p
    BY CountsOne
  <1>2. \A S : Cardinality({m} \cap S) = IF m \in S THEN 1 ELSE 0
    <2> SUFFICES ASSUME NEW S PROVE Cardinality({m} \cap S) = IF m \in S THEN 1 ELSE 0
      OBVIOUS
    <2>1. CASE m \in S
      <3>1. {m} \cap S = {m}
        BY <2>1
      <3> QED BY <2>1, <3>1, FS_Singleton
    <2>2. CASE m \notin S
      <3>1. {m} \cap S = {}
        BY <2>2
      <3> QED BY <2>2, <3>1, FS_EmptySet
    <2> QED BY <2>1, <2>2
  <1>3. (r = IF m \in b.row THEN 1 ELSE 0) /\ (k = IF m \in b.monsterDeck THEN 1 ELSE 0)
    BY <1>2
  <1>4. MonsterCopies(b, m) = s + r + k
    BY DEF MonsterCopies
  <1> HIDE DEF s, r, k
  <1>5. MonsterCopies(b, m) = 1 <=> \/ s = 1 /\ m \notin b.row /\ m \notin b.monsterDeck
                                    \/ s = 0 /\ ((m \in b.row) # (m \in b.monsterDeck))
    <2>1. r \in {0, 1} /\ k \in {0, 1} /\ (r = 1 <=> m \in b.row) /\ (k = 1 <=> m \in b.monsterDeck)
      BY <1>3
    <2>2. MonsterCopies(b, m) = 1 <=> \/ s = 1 /\ r = 0 /\ k = 0
                                      \/ s = 0 /\ r + k = 1
      BY <1>1, <1>4, <2>1
    <2>3. r + k = 1 <=> (r = 1 /\ k = 0) \/ (r = 0 /\ k = 1)
      BY <2>1
    <2> QED BY <2>1, <2>2, <2>3
  <1> QED BY <1>1, <1>5 DEF MonsterOnce

-----------------------------------------------------------------------------
(* The invariant: it holds at the deal, every step keeps it, and it says   *)
(* what the runs check.                                                     *)

LEMMA InitCards == Init => CardsInv
  <1> SUFFICES ASSUME Init PROVE CardsInv
    OBVIOUS
  <1>1. WindowInv /\ DOMAIN frames = {} /\ DOMAIN stack = {} /\ settled = Nothing
    BY InitWindows DEF Init
  <1>2. board \in Board
    BY <1>1 DEF WindowInv, TypeInv
  <1>3. /\ IsFiniteSet(Player) /\ NothingPlayed
        /\ \A c \in Card : Copies(board, c) = 1
        /\ \A m \in Monster : MonsterCopies(board, m) = 1
    BY DealtAssumption DEF Init, NothingPlayed
  <1>4. AllOnce(board)
    BY <1>2, <1>3, OneCopy, OneMonster DEF AllOnce
  <1>5. SnapsKept /\ ContestsFirst /\ PreyInRow
    BY <1>1 DEF SnapsKept, ContestsFirst, PreyInRow
  <1>6. PlayedAtWork /\ OffersClean /\ ContestClean
    BY <1>1, <1>3 DEF PlayedAtWork, OffersClean, ContestClean, NothingPlayed, Nothing
  <1> QED BY <1>1, <1>4, <1>5, <1>6 DEF CardsInv

LEMMA NextCards == CardsInv /\ NoDrawUnderWindow /\ [Next]_vars => CardsInv'
  <1> SUFFICES ASSUME CardsInv, NoDrawUnderWindow, [Next]_vars PROVE CardsInv'
    OBVIOUS
  <1>1. WindowInv'
    BY NextWindows DEF CardsInv
  <1>2. CASE RunStep
    BY <1>1, <1>2, RunStepKeepsCards
  <1>3. CASE Announce
    BY <1>1, <1>3, AnnounceKeepsCards
  <1>4. CASE Command
    BY <1>1, <1>4, CommandKeepsCards
  <1>5. CASE \E f \in DOMAIN frames : Lapse(f)
    BY <1>1, <1>5, AnswerKeepsCards
  <1>6. CASE UNCHANGED vars
    <2>1. UNCHANGED <<board, frames, stack, settled>>
      BY <1>6 DEF vars
    <2>2. SameWindows /\ CarriersStay /\ Offering(stack') = Offering(stack)
      BY <2>1 DEF SameWindows, CarriersStay
    <2> QED BY <1>1, <2>1, <2>2, StepKeepsCards DEF CardsInv
  <1> QED BY <1>2, <1>3, <1>4, <1>5, <1>6 DEF Next

LEMMA CardsInvConserves == CardsInv => CardsConserved /\ SnapshotHandsThemBack
  <1> SUFFICES ASSUME CardsInv PROVE CardsConserved /\ SnapshotHandsThemBack
    OBVIOUS
  <1>1. /\ IsFiniteSet(Player) /\ TypeInv /\ board \in Board /\ AllOnce(board)
    BY DealtAssumption DEF CardsInv, WindowInv, TypeInv
  <1>2. /\ \A c \in Card : Copies(board, c) = 1
        /\ \A m \in Monster : MonsterCopies(board, m) = 1
    BY <1>1, OneCopy, OneMonster DEF AllOnce
  <1>3. Idle => NothingPlayed
    BY IdleIsClean
  <1>4. CardsConserved
    BY <1>2, <1>3 DEF CardsConserved, NothingPlayed
  <1>5. SnapshotHandsThemBack
    <2> SUFFICES ASSUME NEW f \in DOMAIN frames, IsStanding(f), NEW p \in Player
                 PROVE  Spent(f)[p] \subseteq frames[f].snap.hand[p]
      BY DEF SnapshotHandsThemBack
    <2>1. board.instance[p] \ SubjectOf(frames[f].win) \subseteq frames[f].snap.hand[p]
      BY DEF CardsInv, SnapsKept, SnapKept
    <2>2. Spent(f)[p] = (board.instance[p] \ frames[f].snap.instance[p])
                           \ SubjectOf(frames[f].win)
      BY <1>1, SpentTyped
    <2> QED BY <2>1, <2>2
  <1> QED BY <1>4, <1>5

(* Unless a card is drawn while a roll, an attack or a contest stands, every *)
(* card and every monster stays in exactly one place, through every roll,    *)
(* rollback, fight and challenge, and an idle table has nothing lying in     *)
(* front of a seat: GameState's snapshot and restoreFrame/releaseFrame       *)
(* (game-state.ts) neither lose a card nor make a second one.                *)
THEOREM CardsStay == Spec /\ []NoDrawUnderWindow => []CardsConserved
  <1>1. CardsInv => CardsConserved
    BY CardsInvConserves
  <1> QED BY <1>1, InitCards, NextCards, PTL DEF Spec

(* Unless a card is drawn while a window stands, whatever lies spent in      *)
(* front of a seat under a roll, an attack or a contest was in that seat's   *)
(* hand when the window opened, so the rollback of a lost contest or roll    *)
(* (restoreFrame, game-state.ts) hands it back to the seat that spent it.    *)
THEOREM SnapshotsHandBack == Spec /\ []NoDrawUnderWindow => []SnapshotHandsThemBack
  <1>1. CardsInv => SnapshotHandsThemBack
    BY CardsInvConserves
  <1> QED BY <1>1, InitCards, NextCards, PTL DEF Spec

-----------------------------------------------------------------------------
(* The one draw under a window is Crowned Serpent's, and it takes a seat    *)
(* that has slain it: until then no pipeline asks to draw.                  *)

SerpentAtLarge == \A p \in Player : ~InPlay(board, Serpent, p)

DrawFree(run) == \A i \in DOMAIN run.steps : run.steps[i] \notin {"AskDraw", "Draw"}
FreePipeline == {run \in GoodPipeline : DrawFree(run)}
NoDraws(st) == \A t \in DOMAIN st : DrawFree(st[t])

LEMMA PushedFree ==
    ASSUME NEW st, GoodStack(st), NoDraws(st), NEW t \in DOMAIN st \cup {0},
           IsNewest(t, DOMAIN st), NEW run \in Seq(FreePipeline)
    PROVE  NoDraws(Pushed(st, t, run))
  BY PushedAt DEF NoDraws, FreePipeline

LEMMA AloneFree ==
    ASSUME NEW one, DrawFree(one), NEW run \in Seq(GoodPipeline), run = <<one>>
    PROVE  run \in Seq(FreePipeline)
  <1>1. one \in GoodPipeline
    <2>1. Len(run) = 1 /\ run[1] = one
      OBVIOUS
    <2> QED BY <2>1
  <1>2. one \in FreePipeline
    BY <1>1 DEF FreePipeline
  <1> QED BY <1>2

(* What is pushed for an event. *)
LEMMA MadeFree ==
    ASSUME NEW card, NEW owner, NEW steps,
           steps \in {<<"Apply">>, <<"Start">>, <<"Dispose">>, <<"Destroy">>,
                      <<"AskRoll">>, <<"Roll">>, <<"AskAnyHero", "Land">>,
                      <<"AskValue", "Apply">>, <<"AskHand", "Discard">>,
                      <<"AskOwnHero", "Sacrifice">>,
                      <<"AskHand", "Discard", "AskAnyHero", "Destroy">>}
    PROVE  LET run == Pipeline(card, owner, steps) IN
           /\ DrawFree(run)
           /\ DrawFree([run EXCEPT !.system = TRUE])
           /\ \A seat : DrawFree([run EXCEPT !.seat = seat])
           /\ \A seat, v : DrawFree([run EXCEPT !.seat = seat, !.value = v])
           /\ \A b, cards : DrawFree([run EXCEPT !.fed = b, !.pick = cards])
  <1>1. \A i \in DOMAIN steps : steps[i] \notin {"AskDraw", "Draw"}
    OBVIOUS
  <1> QED BY <1>1 DEF Pipeline, DrawFree

LEMMA PassingFree ==
    ASSUME NEW b \in Board, NEW h, NEW run \in RollPassingRuns(b, h) \cup {<<>>}
    PROVE  run \in Seq(FreePipeline)
  <1>1. CASE run = <<>>
    BY <1>1
  <1>2. CASE run # <<>>
    <2>1. run \in RollPassingRuns(b, h)
      BY <1>2
    <2>2. PICK p \in Player : run = <<Pipeline(h, p, <<"AskAnyHero", "Land">>)>>
      BY <1>2, <2>1 DEF RollPassingRuns
    <2>3. DrawFree(Pipeline(h, p, <<"AskAnyHero", "Land">>))
      BY MadeFree
    <2>4. run \in Seq(GoodPipeline)
      BY <2>1, RollPassingTyped, PlainIsGood
    <2> QED BY <2>2, <2>3, <2>4, AloneFree
  <1> QED BY <1>1, <1>2

LEMMA SuccessFree ==
    ASSUME NEW b \in Board, NEW win \in GoodWindow, NEW run \in RollSuccessRuns(b, win)
    PROVE  run \in Seq(FreePipeline)
  <1>1. run \in Seq(GoodPipeline)
    BY RollSuccessTyped, PlainIsGood
  <1>2. CASE run = <<>>
    BY <1>2
  <1>3. CASE run # <<>>
    <2>1. PICK p \in Player :
              run = <<[Pipeline(win.about, p, <<"Destroy">>)
                         EXCEPT !.fed = win.aimed, !.pick = win.target]>>
      BY <1>3 DEF RollSuccessRuns
    <2>2. DrawFree([Pipeline(win.about, p, <<"Destroy">>)
                      EXCEPT !.fed = win.aimed, !.pick = win.target])
      BY MadeFree
    <2> QED BY <1>1, <2>1, <2>2, AloneFree
  <1> QED BY <1>2, <1>3

LEMMA ModifierFree ==
    ASSUME SerpentAtLarge,
           NEW p \in Player, NEW c \in Card, NEW v \in Int, NEW seat \in Player,
           NEW run \in ModifierPlayedRuns(p, c, v, seat)
    PROVE  run \in Seq(FreePipeline)
  <1> DEFINE mine == [Pipeline(c, p, <<"Apply">>) EXCEPT !.seat = seat, !.value = v]
             ask  == [Pipeline(Horn, p, <<"AskValue", "Apply">>)
                        EXCEPT !.seat = seat, !.value = v]
             blown == IF p \in HornSeat THEN <<ask>> ELSE <<>>
  <1>1. mine \in FreePipeline /\ ask \in FreePipeline
    <2>1. Pipeline(c, p, <<"Apply">>) \in PlainPipeline
          /\ Pipeline(Horn, p, <<"AskValue", "Apply">>) \in PlainPipeline
      BY PlainSteps, PipelineTyped DEF Source
    <2>2. mine \in GoodPipeline /\ ask \in GoodPipeline
      BY <2>1, PlainSlots, PlainIsGood
    <2>3. DrawFree(mine) /\ DrawFree(ask)
      BY MadeFree
    <2> QED BY <2>2, <2>3 DEF FreePipeline
  <1>2. {q \in Player : Serpent \in board.slain[q]} = {}
    BY DEF SerpentAtLarge, InPlay
  <1>3. run \in {<<mine>> \o blown \o <<>>, <<mine>> \o <<>> \o blown}
    BY <1>2 DEF ModifierPlayedRuns
  <1> HIDE DEF mine, ask
  <1> DEFINE own == <<mine>>
  <1>4. own \in Seq(FreePipeline) /\ blown \in Seq(FreePipeline)
        /\ <<>> \in Seq(FreePipeline)
    BY <1>1
  <1>5. run \in {own \o blown \o <<>>, own \o <<>> \o blown}
    BY <1>3
  <1> HIDE DEF blown, own
  <1>6. \A s, r \in Seq(FreePipeline) : s \o r \in Seq(FreePipeline)
    OBVIOUS
  <1>7. own \o blown \in Seq(FreePipeline) /\ own \o <<>> \in Seq(FreePipeline)
    BY <1>4, <1>6
  <1>8. /\ own \o blown \o <<>> \in Seq(FreePipeline)
        /\ own \o <<>> \o blown \in Seq(FreePipeline)
    BY <1>4, <1>6, <1>7, Zenon
  <1> QED BY <1>5, <1>8, Zenon

LEMMA ChallengeFree ==
    ASSUME NEW p \in Player, NEW c \in Card, NEW defender \in Player
    PROVE  ChallengePlayedRuns(p, c, defender) \in Seq(FreePipeline)
  <1> DEFINE one == Pipeline(c, p, <<"Start">>)
             bite == [Pipeline(Bloodwing, defender, <<"AskHand", "Discard">>)
                        EXCEPT !.seat = p]
             rest == IF Bloodwing \in board.slain[defender] THEN <<bite>> ELSE <<>>
  <1>1. one \in FreePipeline /\ bite \in FreePipeline
    <2>1. one \in PlainPipeline
          /\ Pipeline(Bloodwing, defender, <<"AskHand", "Discard">>) \in PlainPipeline
      BY PlainSteps, PipelineTyped DEF Source
    <2>2. one \in GoodPipeline /\ bite \in GoodPipeline
      BY <2>1, PlainSlots, PlainIsGood
    <2>3. DrawFree(one) /\ DrawFree(bite)
      BY MadeFree
    <2> QED BY <2>2, <2>3 DEF FreePipeline
  <1>2. ChallengePlayedRuns(p, c, defender) = <<one>> \o rest
    BY DEF ChallengePlayedRuns
  <1> HIDE DEF one, bite
  <1>3. <<one>> \in Seq(FreePipeline) /\ rest \in Seq(FreePipeline)
    BY <1>1
  <1> HIDE DEF rest
  <1> QED BY <1>2, <1>3

LEMMA ResolvedFree ==
    ASSUME NEW b \in Board, NEW cards \in SUBSET Source,
           NEW run \in FrameResolvedRuns(b, cards)
    PROVE  run \in Seq(FreePipeline)
  <1> DEFINE effect(c, p) == Pipeline(c, p, <<"AskHand", "Discard",
                                              "AskAnyHero", "Destroy">>)
             offer(c, p) == [Pipeline(c, p, <<"AskRoll">>) EXCEPT !.system = TRUE]
  <1>1. run \in Seq(GoodPipeline)
    BY FrameResolvedTyped, PlainIsGood
  <1>2. \A c, p : DrawFree(effect(c, p)) /\ DrawFree(offer(c, p))
    BY MadeFree
  <1>3. run = <<>> \/ \E c, p : run = <<effect(c, p)>> \/ run = <<offer(c, p)>>
    BY DEF FrameResolvedRuns
  <1> HIDE DEF effect, offer
  <1>4. CASE run = <<>>
    BY <1>4
  <1>5. CASE run # <<>>
    <2>1. PICK one : DrawFree(one) /\ run = <<one>>
      BY <1>2, <1>3, <1>5
    <2> QED BY <1>1, <2>1, AloneFree
  <1> QED BY <1>4, <1>5

LEMMA ConfirmedFree ==
    ASSUME SerpentAtLarge, NEW b, b.slain = board.slain, b.heroes = board.heroes,
           NEW win \in GoodWindow, win.kind = "confirm", InPlay(b, win.about, win.by)
    PROVE  TaskConfirmedRun(b, win) \in Seq(FreePipeline)
  <1> DEFINE one == [Pipeline(win.about, win.by, <<"Roll">>) EXCEPT !.system = TRUE]
             run == TaskConfirmedRun(b, win)
  <1>1. run \in Seq(GoodPipeline)
    BY TaskConfirmedTyped, PlainIsGood
  <1>2. win.by \in Player
    BY DEF GoodWindow, WindowType
  <1>3. win.about # Serpent
    BY <1>2 DEF SerpentAtLarge, InPlay
  <1>4. run = <<one>>
    BY <1>3 DEF TaskConfirmedRun
  <1>5. DrawFree(one)
    BY MadeFree
  <1> HIDE DEF one, run
  <1>6. run \in Seq(FreePipeline)
    BY <1>1, <1>4, <1>5, AloneFree
  <1> QED BY <1>6 DEF run

LEMMA AdvancedFree ==
    ASSUME TypeInv, NoDraws(stack), NEW t \in DOMAIN stack, stack[t].steps # <<>>
    PROVE  /\ GoodStack(Advanced(t)) /\ DOMAIN Advanced(t) = DOMAIN stack
           /\ NoDraws(Advanced(t))
           /\ \A n \in Nat : /\ GoodStack([Advanced(t) EXCEPT ![t].on = n])
                             /\ NoDraws([Advanced(t) EXCEPT ![t].on = n])
  <1>1. GoodStack(Advanced(t)) /\ DOMAIN Advanced(t) = DOMAIN stack
    BY AdvancedTyped
  <1>2. stack[t] \in GoodPipeline /\ stack[t].steps \in Seq(StepName)
    BY StackTyped
  <1>3. /\ DOMAIN Tail(stack[t].steps) = 1..(Len(stack[t].steps) - 1)
        /\ \A i \in 1..(Len(stack[t].steps) - 1) :
              /\ Tail(stack[t].steps)[i] = stack[t].steps[i + 1]
              /\ i + 1 \in DOMAIN stack[t].steps
    BY <1>2
  <1>4. /\ Advanced(t)[t].steps = Tail(stack[t].steps)
        /\ \A u \in DOMAIN stack \ {t} : Advanced(t)[u] = stack[u]
    BY <1>2 DEF Advanced, GoodPipeline, PipelineType
  <1>5. DrawFree(Advanced(t)[t])
    BY <1>3, <1>4 DEF NoDraws, DrawFree
  <1>6. NoDraws(Advanced(t))
    BY <1>1, <1>4, <1>5 DEF NoDraws
  <1>7. ASSUME NEW n \in Nat
        PROVE  /\ GoodStack([Advanced(t) EXCEPT ![t].on = n])
               /\ NoDraws([Advanced(t) EXCEPT ![t].on = n])
    <2> DEFINE st == [Advanced(t) EXCEPT ![t].on = n]
    <2>1. Advanced(t)[t] \in GoodPipeline
      BY <1>1 DEF GoodStack
    <2>2. /\ DOMAIN st = DOMAIN stack
          /\ \A u \in DOMAIN stack \ {t} : st[u] = Advanced(t)[u]
          /\ st[t] = [Advanced(t)[t] EXCEPT !.on = n]
      BY <1>1
    <2>3. st[t] \in GoodPipeline /\ st[t].steps = Advanced(t)[t].steps
      BY <2>1, <2>2, SlotsTyped DEF GoodPipeline, PipelineType
    <2> HIDE DEF st
    <2>4. GoodStack(st) /\ NoDraws(st)
      BY <1>1, <1>6, <2>2, <2>3 DEF GoodStack, NoDraws, DrawFree
    <2> QED BY <2>4 DEF st
  <1> QED BY <1>1, <1>6, <1>7

LEMMA WithoutFree ==
    ASSUME NEW st, NoDraws(st), NEW S
    PROVE  NoDraws(Without(st, S))
  BY DEF NoDraws, Without

LEMMA StepsFree ==
    ASSUME TypeInv, NoDraws(stack), NEW t \in DOMAIN stack,
           \/ AskHand(t) \/ AskAnyHero(t) \/ AskOwnHero(t) \/ AskValue(t)
           \/ AskDraw(t) \/ AskRoll(t)
           \/ Draw(t) \/ Discard(t) \/ Destroy(t) \/ Sacrifice(t) \/ Dispose(t)
           \/ Start(t) \/ Land(t)
    PROVE  NoDraws(stack')
  <1>1. CASE Draw(t) \/ Discard(t) \/ Destroy(t) \/ Sacrifice(t) \/ Dispose(t)
             \/ Start(t) \/ Land(t)
    <2>1. stack' = Advanced(t) /\ \E step : Takes(t, step)
      BY <1>1 DEF Draw, Discard, Destroy, Sacrifice, Dispose, Start, Land, Do
    <2> QED BY <2>1, TakesOne, AdvancedFree
  <1>2. CASE \/ AskHand(t) \/ AskAnyHero(t) \/ AskOwnHero(t) \/ AskValue(t)
             \/ AskDraw(t) \/ AskRoll(t)
    <2>1. stack[t].steps # <<>> /\ \E win : Ask(t, win)
      BY <1>2, QuestionAsked
    <2>2. PICK n \in DOMAIN frames \cup {0, settled.frame} :
              stack' = [Advanced(t) EXCEPT ![t].on = n + 1]
      BY <2>1 DEF Ask
    <2>3. n + 1 \in Nat
      BY NewestFrame
    <2> QED BY <2>1, <2>2, <2>3, AdvancedFree
  <1> QED BY <1>1, <1>2

LEMMA ApplyFree ==
    ASSUME TypeInv, NoDraws(stack), NEW t \in DOMAIN stack, Apply(t)
    PROVE  NoDraws(stack')
  <1>1. /\ GoodStack(Advanced(t)) /\ DOMAIN Advanced(t) = DOMAIN stack
        /\ NoDraws(Advanced(t)) /\ IsNewest(t, DOMAIN stack) /\ board \in Board
    BY TakesOne, AdvancedFree DEF Apply, TypeInv
  <1>2. CASE stack' = Advanced(t)
    BY <1>1, <1>2
  <1>3. CASE stack' # Advanced(t)
    <2>0. PICK f \in DOMAIN frames :
            \E run \in RollPassingRuns(board, frames[f].win.about) \cup {<<>>} :
                stack' = Pushed(Advanced(t), t, run)
      BY <1>3 DEF Apply
    <2>1. PICK run \in RollPassingRuns(board, frames[f].win.about) \cup {<<>>} :
              stack' = Pushed(Advanced(t), t, run)
      BY <2>0
    <2>2. run \in Seq(FreePipeline)
      BY <1>1, PassingFree
    <2> QED BY <1>1, <2>1, <2>2, PushedFree
  <1> QED BY <1>2, <1>3

LEMMA OpenRollFree ==
    ASSUME NEW b \in Board, NEW st, GoodStack(st), NoDraws(st),
           NEW t \in DOMAIN st \cup {0}, IsNewest(t, DOMAIN st), NEW n,
           NEW p, NEW h, OpenRoll(b, st, t, n, p, h)
    PROVE  NoDraws(stack')
  <1>1. PICK run \in RollPassingRuns(b, h) \cup {<<>>} : stack' = Pushed(st, t, run)
    BY DEF OpenRoll
  <1>2. run \in Seq(FreePipeline)
    BY PassingFree
  <1> QED BY <1>1, <1>2, PushedFree

LEMMA RollFree ==
    ASSUME TypeInv, NoDraws(stack), NEW t \in DOMAIN stack, Roll(t)
    PROVE  NoDraws(stack')
  <1>1. stack[t].steps # <<>> /\ IsNewest(t, DOMAIN stack) /\ board \in Board
    BY TakesOne DEF Roll, TypeInv
  <1>2. PICK n \in DOMAIN frames \cup {0, settled.frame} :
            OpenRoll(board, [Advanced(t) EXCEPT ![t].on = n + 1], t, n + 1,
                     stack[t].owner, stack[t].card)
    BY DEF Roll
  <1>3. n + 1 \in Nat
    BY NewestFrame
  <1> DEFINE st == [Advanced(t) EXCEPT ![t].on = n + 1]
  <1>4. GoodStack(st) /\ NoDraws(st) /\ DOMAIN st = DOMAIN stack
    BY <1>1, <1>3, AdvancedFree
  <1>5. OpenRoll(board, st, t, n + 1, stack[t].owner, stack[t].card)
    BY <1>2
  <1> HIDE DEF st
  <1> QED BY <1>1, <1>4, <1>5, OpenRollFree

LEMMA FinishFree ==
    ASSUME NoDraws(stack), NEW t \in DOMAIN stack, Finish(t)
    PROVE  NoDraws(stack')
  <1>1. CASE stack' = Without(stack, {t})
    BY <1>1, WithoutFree
  <1>2. CASE stack' # Without(stack, {t})
    <2>1. PICK p \in Player :
              stack' = [stack EXCEPT ![t] =
                  [Pipeline(stack[t].card, p, <<"Dispose">>) EXCEPT !.system = TRUE]]
      BY <1>2 DEF Finish
    <2> DEFINE one == [Pipeline(stack[t].card, p, <<"Dispose">>) EXCEPT !.system = TRUE]
    <2>2. DrawFree(one)
      BY MadeFree
    <2>3. stack' = [stack EXCEPT ![t] = one]
      BY <2>1
    <2> HIDE DEF one
    <2> QED BY <2>2, <2>3 DEF NoDraws
  <1> QED BY <1>1, <1>2

LEMMA AnnounceFree ==
    ASSUME TypeInv, NoDraws(stack), Announce
    PROVE  NoDraws(stack')
  <1> DEFINE awake == [i \in DOMAIN stack |-> Woken(stack[i])]
  <1>1. GoodStack(awake) /\ DOMAIN awake = DOMAIN stack
    BY WokenTyped DEF TypeInv, GoodStack
  <1>2. NoDraws(awake)
    BY WokenOn DEF NoDraws, DrawFree
  <1>3. PICK t \in DOMAIN stack \cup {0},
             run \in FrameResolvedRuns(board, settled.cards) :
            IsNewest(t, DOMAIN stack) /\ stack' = Pushed(awake, t, run)
    BY DEF Announce
  <1>4. run \in Seq(FreePipeline)
    BY <1>3, ResolvedFree DEF TypeInv, SettledType
  <1> HIDE DEF awake
  <1> QED BY <1>1, <1>2, <1>3, <1>4, PushedFree

LEMMA ResolveStandingFree ==
    ASSUME TypeInv, NoDraws(stack), NEW f \in DOMAIN frames, ResolveStanding(f)
    PROVE  NoDraws(stack')
  <1> DEFINE win == frames[f].win
             left == Without(stack, Parked(stack, f))
  <1>1. /\ GoodStack(stack) /\ GoodStack(left) /\ NoDraws(left)
        /\ win \in GoodWindow /\ Released(f) \in Board
    BY WithoutStack, WithoutFree, ReleasedType DEF TypeInv, GoodFrames
  <1>2. CASE stack' = left \/ stack' = stack
    BY <1>1, <1>2
  <1>3. ASSUME NEW st \in {stack, left}, NEW t \in DOMAIN st \cup {0},
               IsNewest(t, DOMAIN st), NEW run \in Seq(FreePipeline),
               stack' = Pushed(st, t, run)
        PROVE  NoDraws(stack')
    <2>1. GoodStack(st) /\ NoDraws(st)
      BY <1>1
    <2> QED BY <1>3, <2>1, PushedFree
  <1>4. CASE SettleRoll(f) /\ win.margin >= 0
    <2>1. PICK t \in DOMAIN stack \cup {0},
               run \in RollSuccessRuns(Released(f), win) :
              IsNewest(t, DOMAIN stack) /\ stack' = Pushed(stack, t, run)
      BY <1>4 DEF SettleRoll
    <2> DEFINE b == Released(f)
    <2>2. b \in Board /\ win \in GoodWindow /\ run \in RollSuccessRuns(b, win)
      BY <1>1, <2>1
    <2> HIDE DEF b, win
    <2>3. run \in Seq(FreePipeline)
      BY <2>2, SuccessFree
    <2> QED BY <1>3, <2>1, <2>3
  <1>5. CASE SettleAttack(f)
    <2> DEFINE bite == Pipeline(win.about, win.by, <<"AskOwnHero", "Sacrifice">>)
    <2>1. \/ stack' = stack \/ stack' = left
          \/ \E t \in DOMAIN left \cup {0} :
                IsNewest(t, DOMAIN left) /\ stack' = Pushed(left, t, <<bite>>)
      BY <1>5 DEF SettleAttack
    <2>2. bite \in FreePipeline
      <3>1. win.about \in Source /\ win.by \in Player
        BY <1>1 DEF GoodWindow, WindowType
      <3>2. bite \in GoodPipeline
        BY <3>1, PlainSteps, PipelineTyped, PlainIsGood
      <3>3. DrawFree(bite)
        BY MadeFree
      <3> QED BY <3>2, <3>3 DEF FreePipeline
    <2> HIDE DEF bite
    <2>3. <<bite>> \in Seq(FreePipeline)
      BY <2>2
    <2> QED BY <1>2, <1>3, <2>1, <2>3
  <1>6. CASE SettleUncontested(f) \/ SettleContest(f) \/ (SettleRoll(f) /\ ~(win.margin >= 0))
    <2>1. stack' = stack \/ stack' = left
      BY <1>6 DEF SettleUncontested, SettleContest, SettleRoll
    <2> QED BY <1>2, <2>1
  <1> QED BY <1>4, <1>5, <1>6 DEF ResolveStanding

LEMMA ResolveQuestionFree ==
    ASSUME TypeInv, SerpentAtLarge, NoDraws(stack), NEW f \in DOMAIN frames,
           NEW answer, NEW yes, yes => frames[f].win.kind = "confirm",
           ResolveQuestion(f, answer, yes)
    PROVE  NoDraws(stack')
  <1> DEFINE win == frames[f].win
             b == Released(f)
  <1>1. CASE stack' = stack
    BY <1>1
  <1>2. CASE stack' # stack
    <2>1. yes /\ InPlay(b, win.about, win.by)
      BY <1>2 DEF ResolveQuestion
    <2>2. PICK t \in DOMAIN stack \cup {0} :
            IsNewest(t, DOMAIN stack) /\ stack' = Pushed(stack, t, TaskConfirmedRun(b, win))
      BY <1>2 DEF ResolveQuestion
    <2>3. b.slain = board.slain /\ b.heroes = board.heroes
      BY DEF Released, PutAway, TypeInv, Board
    <2>4. win \in GoodWindow /\ win.kind = "confirm" /\ GoodStack(stack)
      BY <2>1 DEF TypeInv, GoodFrames
    <2> HIDE DEF b, win
    <2>5. TaskConfirmedRun(b, win) \in Seq(FreePipeline)
      BY <2>1, <2>3, <2>4, ConfirmedFree
    <2> QED BY <2>2, <2>4, <2>5, PushedFree
  <1> QED BY <1>1, <1>2

LEMMA AnswerFree ==
    ASSUME TypeInv, SerpentAtLarge, NoDraws(stack), NEW f \in DOMAIN frames,
           Answer(f) \/ Lapse(f)
    PROVE  NoDraws(stack')
  <1>1. \/ ResolveStanding(f)
        \/ \E answer, yes : /\ ResolveQuestion(f, answer, yes)
                            /\ yes => frames[f].win.kind = "confirm"
    BY DEF Answer, Lapse
  <1> QED BY <1>1, ResolveStandingFree, ResolveQuestionFree

LEMMA CommandFree ==
    ASSUME TypeInv, SerpentAtLarge, NoDraws(stack), Command
    PROVE  NoDraws(stack')
  <1> USE DEF TypeInv
  <1>1. CASE UNCHANGED stack
    BY <1>1
  <1>2. ASSUME NEW p \in Player, NEW h \in board.heroes[p], RollOnHero(p, h)
        PROVE  NoDraws(stack')
    <2>1. DOMAIN stack = {} /\ OpenRoll(Paid(p, 1), stack, 0, 1, p, h) /\ Paid(p, 1) \in Board
      BY <1>2, PaidTyped DEF RollOnHero, CanSpend, Idle, IsBusy
    <2>2. IsNewest(0, DOMAIN stack)
      BY <2>1 DEF IsNewest
    <2> DEFINE b == Paid(p, 1)
    <2>3. b \in Board /\ OpenRoll(b, stack, 0, 1, p, h)
      BY <2>1
    <2> HIDE DEF b
    <2> QED BY <2>2, <2>3, OpenRollFree
  <1>3. ASSUME NEW p \in Player, NEW f \in DOMAIN frames, NEW c \in board.hand[p],
               NEW v \in ModifierValue, NEW seat \in Player,
               PlayModifier(p, c, v, f, seat)
        PROVE  NoDraws(stack')
    <2>1. PICK t \in DOMAIN stack \cup {0}, run \in ModifierPlayedRuns(p, c, v, seat) :
              IsNewest(t, DOMAIN stack) /\ stack' = Pushed(stack, t, run)
      BY <1>3 DEF PlayModifier
    <2>2. v \in Int /\ c \in Card
      BY ConstantsAssumption DEF Board
    <2>3. run \in Seq(FreePipeline)
      BY <2>1, <2>2, ModifierFree
    <2> QED BY <2>1, <2>3, PushedFree
  <1>4. ASSUME NEW p \in Player, NEW f \in DOMAIN frames, NEW c \in board.hand[p],
               PlayChallenge(p, c, f)
        PROVE  NoDraws(stack')
    <2>1. PICK t \in DOMAIN stack \cup {0} :
              /\ IsNewest(t, DOMAIN stack)
              /\ stack' = Pushed(stack, t, ChallengePlayedRuns(p, c, frames[f].win.by))
      BY <1>4 DEF PlayChallenge
    <2>2. frames[f].win.by \in Player /\ c \in Card
      BY DEF GoodFrames, GoodWindow, WindowType, Board
    <2>3. ChallengePlayedRuns(p, c, frames[f].win.by) \in Seq(FreePipeline)
      BY <2>2, ChallengeFree
    <2> QED BY <2>1, <2>3, PushedFree
  <1>5. ASSUME NEW p \in Player, NEW f \in DOMAIN frames, Pass(p, f)
        PROVE  NoDraws(stack')
    BY <1>1, <1>5, ResolveStandingFree DEF Pass
  <1>6. CASE \E p \in Player :
                 \/ \E c : PlayHero(p, c) \/ PlayMagic(p, c)
                 \/ \E m : AttackMonster(p, m)
                 \/ DrawCard(p) \/ EndTurn(p)
    <2>1. UNCHANGED stack
      BY <1>6 DEF PlayHero, PlayMagic, AttackMonster, DrawCard, EndTurn
    <2> QED BY <1>1, <2>1
  <1> QED BY <1>2, <1>3, <1>4, <1>5, <1>6, AnswerFree DEF Command

LEMMA NextFree ==
    ASSUME TypeInv, SerpentAtLarge, NoDraws(stack), [Next]_vars
    PROVE  NoDraws(stack')
  <1>1. CASE RunStep
    BY <1>1, StepsFree, ApplyFree, RollFree, FinishFree DEF RunStep
  <1>2. CASE Announce
    BY <1>2, AnnounceFree
  <1>3. CASE Command
    BY <1>3, CommandFree
  <1>4. CASE \E f \in DOMAIN frames : Lapse(f)
    BY <1>4, AnswerFree
  <1>5. CASE UNCHANGED vars
    BY <1>5 DEF vars
  <1> QED BY <1>1, <1>2, <1>3, <1>4, <1>5 DEF Next

LEMMA NoSerpentNoDraw == Spec /\ []SerpentAtLarge => []NoDrawUnderWindow
  <1>1. Init => NoDraws(stack)
    BY DEF Init, NoDraws
  <1>2. TypeInv /\ SerpentAtLarge /\ NoDraws(stack) /\ [Next]_vars => NoDraws(stack')
    BY NextFree
  <1> DEFINE Free == NoDraws(stack)
  <1>3. TypeInv /\ Free => NoDrawUnderWindow
    <2> SUFFICES ASSUME TypeInv, Free, NEW t \in DOMAIN stack, Takes(t, "Draw")
                 PROVE  FALSE
      BY DEF NoDrawUnderWindow
    <2>1. stack[t].steps \in Seq(StepName) /\ stack[t].steps # <<>>
          /\ Head(stack[t].steps) = "Draw"
      BY StackTyped DEF Takes
    <2>2. 1 \in DOMAIN stack[t].steps /\ stack[t].steps[1] = "Draw"
      BY <2>1
    <2> QED BY <2>2 DEF NoDraws, DrawFree
  <1>4. Init => Free
    BY <1>1
  <1>5. TypeInv /\ SerpentAtLarge /\ Free /\ [Next]_vars => Free'
    BY <1>2
  <1> HIDE DEF Free
  <1> QED BY <1>3, <1>4, <1>5, AlwaysTyped, PTL DEF Spec

(* While no seat has slain Crowned Serpent, every card and every monster is  *)
(* in exactly one place and every rollback hands back what was spent under   *)
(* it.  The hypothesis is there for that monster's ability, a draw for each  *)
(* modifier played (crowned-serpent-ability.ts): a modifier that is drawn    *)
(* under a roll and spent into it ends in two places.                        *)
THEOREM CardsStayWithoutSerpent ==
    Spec /\ []SerpentAtLarge => [](CardsConserved /\ SnapshotHandsThemBack)
  BY CardsStay, SnapshotsHandBack, NoSerpentNoDraw, PTL

-----------------------------------------------------------------------------
(* Spent is spent.  A rollback puts the hands of the snapshot back without   *)
(* what lies spent in front of the seats, so a card comes back to a hand     *)
(* when it left that hand under the window and is not there to be found: it  *)
(* was discarded, or it was spent while a question stood over the window and *)
(* was put away with the question.  The theorem supposes that no card leaves *)
(* a hand under a window in either way, and that none is drawn there.        *)

NoDiscardUnderWindow ==
    (\E f \in DOMAIN frames : IsStanding(f)) =>
        \A t \in DOMAIN stack : ~Takes(t, "Discard")

NothingSpentUnderQuestion ==
    (\E f \in DOMAIN frames : IsStanding(f)) =>
        \A g \in DOMAIN frames : IsQuestion(g) => AllSpent(g) = {}

Undisturbed ==
    NoDrawUnderWindow /\ NoDiscardUnderWindow /\ NothingSpentUnderQuestion

(* What a hand held when a window opened is still with its seat. *)
HandsKept ==
    \A f \in DOMAIN frames :
        IsStanding(f) =>
            \A p \in Player :
                frames[f].snap.hand[p] \subseteq board.hand[p] \cup board.instance[p]

(* A card comes into a hand from the deck and from nowhere else. *)
FromDeck == \A p \in Player : board'.hand[p] \ board.hand[p] \subseteq board.deck

Windowless == \A f \in DOMAIN frames : frames[f].win.kind \notin Standing

LEMMA WindowlessKeepHands ==
    ASSUME Windowless' PROVE HandsKept'
  BY DEF Windowless, HandsKept, IsStanding

(* The windows stand as they stood, and what left a hand lies in front of    *)
(* its seat.                                                                 *)
LEMMA HandsGoOn ==
    ASSUME HandsKept, SameWindows,
           \A f \in DOMAIN frames : IsStanding(f) =>
               \A p \in Player :
                   frames[f].snap.hand[p] \cap (board.hand[p] \cup board.instance[p])
                       \subseteq board'.hand[p] \cup board'.instance[p]
    PROVE  HandsKept'
  <1> SUFFICES ASSUME NEW f \in DOMAIN frames', IsStanding(f)', NEW p \in Player
               PROVE  frames'[f].snap.hand[p]
                          \subseteq board'.hand[p] \cup board'.instance[p]
    BY DEF HandsKept
  <1>1. f \in DOMAIN frames /\ IsStanding(f) /\ frames'[f].snap = frames[f].snap
    BY DEF SameWindows, IsStanding
  <1>2. frames[f].snap.hand[p] \subseteq board.hand[p] \cup board.instance[p]
    BY <1>1 DEF HandsKept
  <1> QED BY <1>1, <1>2

LEMMA StillHands ==
    ASSUME HandsKept, SameWindows, board'.hand = board.hand,
           board'.instance = board.instance
    PROVE  HandsKept'
  BY HandsGoOn

(* A window that opens takes its snapshot of the hands as they are. *)
LEMMA OpeningKeepsHands ==
    ASSUME HandsKept, board'.instance = board.instance, board'.hand = board.hand,
           NEW n, DOMAIN frames' = DOMAIN frames \cup {n},
           frames'[n].snap = board',
           \A f \in DOMAIN frames \ {n} : frames'[f] = frames[f]
    PROVE  HandsKept'
  <1> SUFFICES ASSUME NEW f \in DOMAIN frames', IsStanding(f)', NEW p \in Player
               PROVE  frames'[f].snap.hand[p]
                          \subseteq board'.hand[p] \cup board'.instance[p]
    BY DEF HandsKept
  <1>1. CASE f = n
    BY <1>1
  <1>2. CASE f # n
    <2>1. f \in DOMAIN frames /\ IsStanding(f) /\ frames'[f] = frames[f]
      BY <1>2 DEF IsStanding
    <2>2. frames[f].snap.hand[p] \subseteq board.hand[p] \cup board.instance[p]
      BY <2>1 DEF HandsKept
    <2> QED BY <2>1, <2>2
  <1> QED BY <1>1, <1>2

LEMMA DrawnFromDeck ==
    ASSUME NEW b \in Board, NEW p \in Player, NEW d \in Drawn(b, p), NEW q \in Player
    PROVE  d.hand[q] \ b.hand[q] \subseteq b.deck
  <1>1. CASE b.deck = {}
    BY <1>1 DEF Drawn, Refilled, Board
  <1>2. CASE b.deck # {}
    <2>1. PICK c \in b.deck :
            d = Refilled([b EXCEPT !.deck = @ \ {c}, !.hand[p] = @ \cup {c}])
      BY <1>2 DEF Drawn
    <2> DEFINE a == [b EXCEPT !.deck = @ \ {c}, !.hand[p] = @ \cup {c}]
    <2>2. a.hand[q] \subseteq b.hand[q] \cup {c}
      BY DEF Board
    <2>3. a \in Board
      BY DEF Board
    <2> HIDE DEF a
    <2>4. Refilled(a).hand = a.hand
      BY <2>3 DEF Refilled, Board
    <2>5. d.hand = a.hand
      BY <2>1, <2>4 DEF a
    <2> QED BY <2>2, <2>5
  <1> QED BY <1>1, <1>2

LEMMA EffectsSpend ==
    ASSUME CardsInv, HandsKept, NEW t \in DOMAIN stack,
           \/ Draw(t) /\ Windowless
           \/ Discard(t) /\ Windowless
           \/ Destroy(t) \/ Sacrifice(t)
    PROVE  HandsKept' /\ FromDeck
  <1>1. TypeInv /\ board \in Board /\ SameWindows
    BY EffectsPlain DEF CardsInv, WindowInv, TypeInv, PlainStep
  <1>2. stack[t].owner \in Player /\ stack[t].seat \in Player
    BY <1>1, StackTyped
  <1>3. CASE Draw(t) /\ Windowless
    <2>1. HandsKept'
      BY <1>1, <1>3, WindowlessKeepHands DEF Windowless, SameWindows
    <2> QED BY <1>1, <1>2, <1>3, <2>1, DrawnFromDeck DEF Draw, Do, FromDeck
  <1>4. CASE Discard(t) /\ Windowless
    <2>1. HandsKept'
      BY <1>1, <1>4, WindowlessKeepHands DEF Windowless, SameWindows
    <2> DEFINE a == [board EXCEPT !.hand[stack[t].seat] = @ \ stack[t].pick]
    <2>2. \E cards : board' = PutAway(a, cards)
      BY <1>4 DEF Discard, Do, Discarded
    <2>3. \A q \in Player : a.hand[q] \subseteq board.hand[q]
      BY <1>1, <1>2 DEF Board
    <2> HIDE DEF a
    <2>4. board'.hand = a.hand
      BY <2>2, PutAwayFields
    <2> QED BY <2>1, <2>3, <2>4 DEF FromDeck
  <1>5. CASE Destroy(t) \/ Sacrifice(t)
    <2>1. PICK cards : board' = RemovedHeroes(board, cards)
      BY <1>5 DEF Destroy, Sacrifice, Do
    <2> DEFINE a == [board EXCEPT !.heroes = [p \in Player |-> board.heroes[p] \ cards]]
    <2>2. a.hand = board.hand /\ a.instance = board.instance
      OBVIOUS
    <2>3. board' = PutAway(a, cards \cap UNION {board.heroes[p] : p \in Player})
      BY <2>1 DEF RemovedHeroes
    <2> HIDE DEF a
    <2>4. board'.hand = board.hand /\ board'.instance = board.instance
      BY <2>2, <2>3, PutAwayFields
    <2> QED BY <1>1, <2>4, StillHands DEF FromDeck
  <1> QED BY <1>3, <1>4, <1>5

(* A card that is put away when its ability ends is the one a contest is     *)
(* about, which was in no hand when the window opened.                       *)
LEMMA DisposeSpends ==
    ASSUME CardsInv, HandsKept, NEW t \in DOMAIN stack, Dispose(t)
    PROVE  HandsKept' /\ FromDeck
  <1> DEFINE card == stack[t].card
             owner == stack[t].owner
             cards == {card} \cap board.instance[owner]
             a == [board EXCEPT !.instance[owner] = @ \ cards]
  <1>1. TypeInv /\ board \in Board /\ SameWindows
    BY EffectsPlain DEF CardsInv, WindowInv, TypeInv, PlainStep
  <1>2. owner \in Player
    BY <1>1, StackTyped
  <1>3. board' = IF cards = {} \/ IsSpentInOpenFrame(card) THEN board
                 ELSE PutAway(a, cards)
    BY DEF Dispose, Do
  <1>4. /\ a.hand = board.hand
        /\ \A p \in Player : board.instance[p] \ {card} \subseteq a.instance[p]
    <2> HIDE DEF card, owner
    <2> QED BY <1>1, <1>2 DEF Board
  <1> HIDE DEF a, cards
  <1>5. CASE board' = board
    BY <1>1, <1>5, StillHands DEF FromDeck
  <1>6. CASE ~IsSpentInOpenFrame(card) /\ board' = PutAway(a, cards)
    <2>1. board'.hand = a.hand /\ board'.instance = a.instance
      BY <1>6, PutAwayFields
    <2> HIDE DEF card
    <2>2. ASSUME NEW f \in DOMAIN frames, IsStanding(f), NEW p \in Player,
                 NEW c \in frames[f].snap.hand[p], c \in board.instance[p]
          PROVE  c # card
      <3>1. /\ frames[f].snap.instance[p] = {}
            /\ \A d \in SubjectOf(frames[f].win) :
                   d \in Card => Nowhere(frames[f].snap, d)
        BY <2>2 DEF CardsInv, SnapsKept, SnapKept
      <3>2. c \in Card
        BY <1>1, <2>2 DEF Board
      <3>3. c \notin SubjectOf(frames[f].win)
        BY <3>1, <3>2, <2>2 DEF Nowhere, WithSeats, WithSeat
      <3>4. c \in Spent(f)[p]
        BY <1>1, <2>2, <3>1, <3>3, SpentTyped
      <3> QED BY <1>6, <3>4 DEF AllSpent, IsSpentInOpenFrame
    <2>3. ASSUME NEW f \in DOMAIN frames, IsStanding(f), NEW p \in Player
          PROVE  frames[f].snap.hand[p] \cap (board.hand[p] \cup board.instance[p])
                     \subseteq board'.hand[p] \cup board'.instance[p]
      BY <1>4, <2>1, <2>2, <2>3
    <2>4. HandsKept'
      BY <1>1, <2>3, HandsGoOn
    <2> QED BY <1>4, <2>1, <2>4 DEF FromDeck
  <1> QED BY <1>3, <1>5, <1>6


LEMMA RollSpends ==
    ASSUME TypeInv, HandsKept, NEW b, NEW st, NEW t, NEW f, NEW p, NEW h,
           OpenRoll(b, st, t, f, p, h),
           b.hand = board.hand, b.instance = board.instance, b \in Board
    PROVE  HandsKept' /\ FromDeck
  <1>1. board' = [b EXCEPT !.used = b.used \cup {h}]
    BY DEF OpenRoll
  <1>2. PICK m : frames' = [g \in DOMAIN frames \cup {f} |->
                   IF g = f THEN [snap |-> board', win |-> RollWindow(p, h, m)]
                   ELSE frames[g]]
    BY DEF OpenRoll
  <1>3. board'.hand = board.hand /\ board'.instance = board.instance
    BY <1>1 DEF Board
  <1>4. /\ DOMAIN frames' = DOMAIN frames \cup {f} /\ frames'[f].snap = board'
        /\ \A g \in DOMAIN frames \ {f} : frames'[g] = frames[g]
    BY <1>2
  <1> QED BY <1>3, <1>4, OpeningKeepsHands DEF FromDeck

LEMMA AskSpends ==
    ASSUME TypeInv, HandsKept, NEW t \in DOMAIN stack,
           \/ AskHand(t) \/ AskAnyHero(t) \/ AskOwnHero(t) \/ AskValue(t)
           \/ AskDraw(t) \/ AskRoll(t)
    PROVE  HandsKept' /\ FromDeck
  <1>1. PICK win : Ask(t, win)
    BY QuestionAsked
  <1>2. PICK n : frames' = Opened(n + 1, win) /\ UNCHANGED board
    BY <1>1 DEF Ask
  <1> DEFINE f == n + 1
  <1>3. /\ DOMAIN frames' = DOMAIN frames \cup {f} /\ frames'[f].snap = board'
        /\ \A g \in DOMAIN frames \ {f} : frames'[g] = frames[g]
    BY <1>2 DEF Opened
  <1> HIDE DEF f
  <1> QED BY <1>2, <1>3, OpeningKeepsHands DEF FromDeck

LEMMA RunStepSpends ==
    ASSUME CardsInv, HandsKept, Undisturbed, RunStep
    PROVE  HandsKept' /\ FromDeck
  <1>1. TypeInv /\ board \in Board
    BY DEF CardsInv, WindowInv, TypeInv
  <1>2. PICK t \in DOMAIN stack :
          \/ AskHand(t) \/ AskAnyHero(t) \/ AskOwnHero(t) \/ AskValue(t)
          \/ AskDraw(t) \/ AskRoll(t) \/ Draw(t) \/ Discard(t) \/ Destroy(t)
          \/ Sacrifice(t) \/ Dispose(t) \/ Start(t) \/ Apply(t) \/ Land(t)
          \/ Roll(t) \/ Finish(t)
    BY DEF RunStep
  <1>3. CASE \/ AskHand(t) \/ AskAnyHero(t) \/ AskOwnHero(t) \/ AskValue(t)
             \/ AskDraw(t) \/ AskRoll(t)
    BY <1>1, <1>3, AskSpends
  <1>4. CASE Draw(t) \/ Discard(t) \/ Destroy(t) \/ Sacrifice(t)
    <2>1. Draw(t) \/ Discard(t) => Windowless
      BY DEF Undisturbed, NoDrawUnderWindow, NoDiscardUnderWindow, IsStanding,
             Draw, Discard, Do, Windowless
    <2> QED BY <1>4, <2>1, EffectsSpend
  <1>5. CASE Dispose(t)
    BY <1>5, DisposeSpends
  <1>6. CASE Start(t) \/ Land(t) \/ Apply(t) \/ Finish(t)
    <2>1. SameWindows
      BY <1>1, <1>6, WindowStepsPlain, ApplyPlain, FinishPlain DEF PlainStep
    <2>2. board' = board
      BY <1>6 DEF Start, Land, Apply, Finish
    <2> QED BY <2>1, <2>2, StillHands DEF FromDeck
  <1>7. CASE Roll(t)
    BY <1>1, <1>7, RollSpends DEF Roll
  <1> QED BY <1>2, <1>3, <1>4, <1>5, <1>6, <1>7

-----------------------------------------------------------------------------
(* A window settles: released, the hands are as they are; rolled back, they  *)
(* are what is left of them since.                                           *)

LEMMA RestoredSpends ==
    ASSUME CardsInv, HandsKept, NEW f \in DOMAIN frames, IsStanding(f),
           NEW p \in Player
    PROVE  Restored(f).hand[p] \subseteq board.hand[p]
  <1> DEFINE snap == frames[f].snap
             a == [snap EXCEPT !.hand = [q \in Player |-> snap.hand[q] \ Spent(f)[q]]]
  <1>1. TypeInv /\ snap \in Board
    BY DEF CardsInv, WindowInv, TypeInv, GoodFrames
  <1>2. a.hand[p] = snap.hand[p] \ Spent(f)[p]
    BY <1>1 DEF Board
  <1>3. Restored(f) = PutAway(a, AllSpent(f))
    BY DEF Restored
  <1> HIDE DEF a
  <1>4. Restored(f).hand[p] = snap.hand[p] \ Spent(f)[p]
    BY <1>2, <1>3, PutAwayFields
  <1>5. ASSUME NEW c \in snap.hand[p], c \notin Spent(f)[p] PROVE c \in board.hand[p]
    <2>1. /\ snap.instance[p] = {}
          /\ \A d \in SubjectOf(frames[f].win) : d \in Card => Nowhere(snap, d)
      BY DEF CardsInv, SnapsKept, SnapKept
    <2>2. c \in Card
      BY <1>1, <1>5 DEF Board
    <2>3. c \notin SubjectOf(frames[f].win)
      BY <1>5, <2>1, <2>2 DEF Nowhere, WithSeats, WithSeat
    <2>4. c \notin board.instance[p]
      BY <1>1, <1>5, <2>1, <2>3, SpentTyped
    <2> QED BY <1>5, <2>4 DEF HandsKept
  <1> QED BY <1>4, <1>5

LEMMA ReleasedSpends ==
    ASSUME CardsInv, NEW f \in DOMAIN frames
    PROVE  /\ Released(f).hand = board.hand
           /\ \A p \in Player :
                 Released(f).instance[p] = board.instance[p] \ Spent(f)[p]
  BY ReleasedOnce DEF CardsInv, WindowInv

LEMMA SettleSpends ==
    ASSUME CardsInv, HandsKept, NEW f \in DOMAIN frames, IsStanding(f),
           ResolveStanding(f)
    PROVE  HandsKept' /\ FromDeck
  <1>1. frames' = Without(frames, {f}) /\ frames[f].win.kind \in Standing
    BY DEF ResolveStanding, IsStanding
  <1>2. HandsKept'
    <2>1. \A g \in DOMAIN frames' : frames'[g].win.kind \notin Standing
      BY <1>1, OthersAsk
    <2> QED BY <2>1, WindowlessKeepHands DEF Windowless
  <1>3. \/ board'.hand = Released(f).hand
        \/ board'.hand = Restored(f).hand
    <2> DEFINE win == frames[f].win
    <2>1. CASE SettleRoll(f)
      BY <2>1 DEF SettleRoll
    <2>2. CASE SettleUncontested(f)
      BY <2>2 DEF SettleUncontested
    <2>3. CASE SettleContest(f)
      <3>1. CASE board' = [Released(f) EXCEPT !.challenged = @ \cup {win.about}]
        BY <3>1
      <3>2. CASE board' = PutAway(Restored(f), {win.about})
        BY <3>2, PutAwayFields
      <3> QED BY <2>3, <3>1, <3>2 DEF SettleContest
    <2>4. CASE SettleAttack(f)
      <3>1. ASSUME NEW b \in Board, NEW m, NEW p, NEW d \in Slain(b, m, p)
            PROVE  d.hand = b.hand
        <4> DEFINE won == [b EXCEPT !.row = @ \ {m}, !.slain[p] = @ \cup {m}]
        <4>1. won.hand = b.hand /\ "hand" \in DOMAIN won
          BY DEF Board
        <4>2. d = won \/ \E n : d = [won EXCEPT !.row = @ \cup {n}, !.monsterDeck = @ \ {n}]
          BY <3>1 DEF Slain
        <4> HIDE DEF won
        <4> QED BY <4>1, <4>2
      <3>2. board' \in Slain(Released(f), win.about, win.by) \/ board' = Restored(f)
        BY <2>4 DEF SettleAttack
      <3>3. Released(f) \in Board
        BY HeroesStay DEF CardsInv, WindowInv
      <3> QED BY <3>1, <3>2, <3>3
    <2> QED BY <2>1, <2>2, <2>3, <2>4 DEF ResolveStanding
  <1>4. \A p \in Player : board'.hand[p] \subseteq board.hand[p]
    BY <1>3, ReleasedSpends, RestoredSpends
  <1> QED BY <1>2, <1>4 DEF FromDeck

(* A question settles: nothing spent since is put away with it. *)
LEMMA QuestionSpends ==
    ASSUME CardsInv, HandsKept, Undisturbed, NEW f \in DOMAIN frames, IsQuestion(f),
           NEW answer, NEW yes, ResolveQuestion(f, answer, yes)
    PROVE  HandsKept' /\ FromDeck
  <1>1. frames' = Without(frames, {f}) /\ board' = Released(f)
    BY DEF ResolveQuestion
  <1>2. /\ board'.hand = board.hand
        /\ \A p \in Player : board'.instance[p] = board.instance[p] \ Spent(f)[p]
    BY <1>1, ReleasedSpends
  <1>3. HandsKept'
    <2> SUFFICES ASSUME NEW g \in DOMAIN frames', IsStanding(g)', NEW p \in Player
                 PROVE  frames'[g].snap.hand[p]
                            \subseteq board'.hand[p] \cup board'.instance[p]
      BY DEF HandsKept
    <2>1. g \in DOMAIN frames /\ frames'[g] = frames[g]
      BY <1>1 DEF Without
    <2>2. IsStanding(g)
      BY <2>1 DEF IsStanding
    <2>3. Spent(f)[p] = {}
      <3>1. AllSpent(f) = {}
        BY <2>1, <2>2 DEF Undisturbed, NothingSpentUnderQuestion
      <3> QED BY <3>1 DEF AllSpent
    <2>4. frames[g].snap.hand[p] \subseteq board.hand[p] \cup board.instance[p]
      BY <2>1, <2>2 DEF HandsKept
    <2> QED BY <1>2, <2>1, <2>3, <2>4
  <1> QED BY <1>2, <1>3 DEF FromDeck

LEMMA AnswerSpends ==
    ASSUME CardsInv, HandsKept, Undisturbed, NEW f \in DOMAIN frames,
           Answer(f) \/ Lapse(f)
    PROVE  HandsKept' /\ FromDeck
  <1>1. \/ IsStanding(f) /\ ResolveStanding(f)
        \/ IsQuestion(f) /\ \E answer, yes : ResolveQuestion(f, answer, yes)
    <2>1. CASE Answer(f)
      BY <2>1 DEF Answer
    <2>2. CASE Lapse(f)
      BY <2>2 DEF Lapse, IsStanding, IsQuestion, Question
    <2> QED BY <2>1, <2>2
  <1> QED BY <1>1, SettleSpends, QuestionSpends


LEMMA PassSpends ==
    ASSUME CardsInv, HandsKept, NEW p \in Player, NEW f \in DOMAIN frames, Pass(p, f)
    PROVE  HandsKept' /\ FromDeck
  <1>1. CASE ResolveStanding(f)
    BY <1>1, SettleSpends DEF Pass
  <1>2. CASE /\ \E seats : frames' = [frames EXCEPT ![f].win.passes = seats]
             /\ UNCHANGED board
    <2>1. SameWindows
      BY <1>2, PassesSame DEF CardsInv, WindowInv
    <2> QED BY <1>2, <2>1, StillHands DEF FromDeck
  <1> QED BY <1>1, <1>2 DEF Pass

-----------------------------------------------------------------------------
(* Seats: a card leaves a hand to lie in front of its seat, or to be played   *)
(* before the window opens.                                                  *)

LEMMA SpendingSpends ==
    ASSUME CardsInv, HandsKept, NEW p \in Player, NEW c \in board.hand[p],
           NEW f \in DOMAIN frames,
           \/ PlayChallenge(p, c, f)
           \/ \E v \in ModifierValue, seat \in Player : PlayModifier(p, c, v, f, seat)
    PROVE  HandsKept' /\ FromDeck
  <1>1. TypeInv /\ board \in Board /\ c \in Card
    BY DEF CardsInv, WindowInv, TypeInv, Board
  <1>2. SameWindows
    BY <1>1, SpendsPlain DEF PlainStep
  <1>3. board' = [board EXCEPT !.hand[p] = @ \ {c}, !.instance[p] = @ \cup {c}]
    BY DEF PlayChallenge, PlayModifier, SpendCard
  <1>4. /\ \A q \in Player : board'.hand[q] = board.hand[q] \ (IF q = p THEN {c} ELSE {})
        /\ \A q \in Player :
              board'.instance[q] = board.instance[q] \cup (IF q = p THEN {c} ELSE {})
    BY <1>1, <1>3 DEF Board
  <1>5. \A q \in Player : board.hand[q] \cup board.instance[q]
                              \subseteq board'.hand[q] \cup board'.instance[q]
    BY <1>4
  <1>6. HandsKept'
    BY <1>2, <1>5, HandsGoOn
  <1> QED BY <1>4, <1>6 DEF FromDeck

LEMMA OpenOverSpends ==
    ASSUME NEW b, NEW win, OpenOver(b, win),
           \A q \in Player : /\ b.hand[q] \subseteq board'.hand[q]
                             /\ board'.hand[q] \subseteq board.hand[q]
    PROVE  HandsKept' /\ FromDeck
  <1>1. DOMAIN frames' = {1} /\ frames'[1].snap = b
    BY DEF OpenOver
  <1> QED BY <1>1 DEF HandsKept, FromDeck

LEMMA PlaysSpend ==
    ASSUME CardsInv, NEW p \in Player, NEW c \in board.hand[p],
           PlayHero(p, c) \/ PlayMagic(p, c)
    PROVE  HandsKept' /\ FromDeck
  <1> DEFINE b == Paid(p, 1)
             paid == [b EXCEPT !.hand[p] = @ \ {c}]
             win == Window("challenge", p, c)
  <1>1. /\ CanSpend(p, 1) /\ OpenOver(paid, win)
        /\ \/ board' = [paid EXCEPT !.heroes[p] = @ \cup {c}]
           \/ board' = [paid EXCEPT !.instance[p] = @ \cup {c}]
    BY DEF PlayHero, PlayMagic
  <1>2. b \in Board /\ b.hand = board.hand
    BY <1>1, PaidOnce
  <1> HIDE DEF b, win
  <1>3. paid \in Board /\ \A q \in Player : paid.hand[q] \subseteq board.hand[q]
    BY <1>2 DEF Board
  <1>4. board'.hand = paid.hand
    <2> HIDE DEF paid
    <2> QED BY <1>1, <1>3 DEF Board
  <1> HIDE DEF paid
  <1> QED BY <1>1, <1>3, <1>4, OpenOverSpends

LEMMA CommandSpends ==
    ASSUME CardsInv, HandsKept, Undisturbed, Command
    PROVE  HandsKept' /\ FromDeck
  <1>1. TypeInv /\ board \in Board
    BY DEF CardsInv, WindowInv, TypeInv
  <1>2. CASE \E p \in Player : \E c \in board.hand[p] : PlayHero(p, c) \/ PlayMagic(p, c)
    BY <1>2, PlaysSpend
  <1>3. CASE \E p \in Player : \E h : RollOnHero(p, h)
    <2>0. PICK p \in Player : \E h : RollOnHero(p, h)
      BY <1>3
    <2>1. PICK h : RollOnHero(p, h)
      BY <2>0
    <2>2. CanSpend(p, 1) /\ OpenRoll(Paid(p, 1), stack, 0, 1, p, h)
      BY <2>1 DEF RollOnHero
    <2> DEFINE b == Paid(p, 1)
    <2>3. b \in Board /\ b.hand = board.hand /\ b.instance = board.instance
      BY <2>2, PaidOnce
    <2> HIDE DEF b
    <2>4. OpenRoll(b, stack, 0, 1, p, h)
      BY <2>2 DEF b
    <2> QED BY <1>1, <2>3, <2>4, RollSpends
  <1>4. CASE \E p \in Player : \E m : AttackMonster(p, m)
    <2>0. PICK p \in Player : \E m : AttackMonster(p, m)
      BY <1>4
    <2>1. PICK m : AttackMonster(p, m)
      BY <2>0
    <2>2. CanSpend(p, 2) /\ board' = Paid(p, 2)
      BY <2>1 DEF AttackMonster
    <2>3. PICK win : OpenOver(board', win)
      BY <2>1 DEF AttackMonster
    <2>4. board'.hand = board.hand
      BY <2>2, PaidOnce
    <2> QED BY <2>3, <2>4, OpenOverSpends
  <1>5. CASE \E p \in Player : DrawCard(p) \/ EndTurn(p)
    <2>1. PICK p \in Player : DrawCard(p) \/ EndTurn(p)
      BY <1>5
    <2>2. HandsKept'
      <3>1. Idle /\ frames' = frames
        BY <2>1 DEF DrawCard, EndTurn, CanSpend
      <3>2. Windowless'
        BY <3>1, IdleIsClean DEF Windowless
      <3> QED BY <3>2, WindowlessKeepHands
    <2>3. CASE DrawCard(p)
      <3>1. CanSpend(p, 1) /\ board' \in Drawn(Paid(p, 1), p)
        BY <2>3 DEF DrawCard
      <3> DEFINE b == Paid(p, 1)
      <3>2. b \in Board /\ b.hand = board.hand /\ b.deck = board.deck
        BY <1>1, <3>1, PaidOnce DEF Paid, Board
      <3>3. board' \in Drawn(b, p)
        BY <3>1
      <3> HIDE DEF b
      <3>4. \A q \in Player : board'.hand[q] \ b.hand[q] \subseteq b.deck
        BY <3>2, <3>3, DrawnFromDeck
      <3> QED BY <2>2, <3>2, <3>4 DEF FromDeck
    <2>4. CASE EndTurn(p)
      <3>1. board'.hand = board.hand
        BY <2>4 DEF EndTurn
      <3> QED BY <2>2, <3>1 DEF FromDeck
    <2> QED BY <2>1, <2>3, <2>4
  <1>6. CASE \E p \in Player, f \in DOMAIN frames : \E c \in board.hand[p] :
                 \/ PlayChallenge(p, c, f)
                 \/ \E v \in ModifierValue, seat \in Player : PlayModifier(p, c, v, f, seat)
    BY <1>6, SpendingSpends
  <1>7. CASE \E p \in Player, f \in DOMAIN frames : Pass(p, f)
    BY <1>7, PassSpends
  <1>8. CASE \E f \in DOMAIN frames : Answer(f)
    BY <1>8, AnswerSpends
  <1> QED BY <1>2, <1>3, <1>4, <1>5, <1>6, <1>7, <1>8 DEF Command

LEMMA NextSpends ==
    CardsInv /\ HandsKept /\ Undisturbed /\ [Next]_vars
    => CardsInv' /\ HandsKept' /\ FromDeck
  <1> SUFFICES ASSUME CardsInv, HandsKept, Undisturbed, [Next]_vars
               PROVE  CardsInv' /\ HandsKept' /\ FromDeck
    OBVIOUS
  <1>1. CardsInv'
    BY NextCards DEF Undisturbed
  <1>2. CASE RunStep
    BY <1>1, <1>2, RunStepSpends
  <1>3. CASE Announce
    <2>1. frames' = frames /\ board' = board
      BY <1>3 DEF Announce
    <2>2. SameWindows
      BY <2>1 DEF SameWindows
    <2> QED BY <1>1, <2>1, <2>2, StillHands DEF FromDeck
  <1>4. CASE Command
    BY <1>1, <1>4, CommandSpends
  <1>5. CASE \E f \in DOMAIN frames : Lapse(f)
    BY <1>1, <1>5, AnswerSpends
  <1>6. CASE UNCHANGED vars
    <2>1. frames' = frames /\ board' = board
      BY <1>6 DEF vars
    <2>2. SameWindows
      BY <2>1 DEF SameWindows
    <2> QED BY <1>1, <2>1, <2>2, StillHands DEF FromDeck
  <1> QED BY <1>1, <1>2, <1>3, <1>4, <1>5, <1>6 DEF Next

(* Spent is spent (restoreFrame, game-state.ts): unless, while a roll, an    *)
(* attack or a contest stands, a card is drawn or discarded, or spent under  *)
(* a question, a card comes into a hand from the deck and from nowhere else, *)
(* through every rollback.  A run shows that the last hypothesis is needed:  *)
(* a question that settles takes the cards spent under it with it.           *)
THEOREM SpentStaysSpent == Spec /\ []Undisturbed => SpentIsSpent
  <1>1. Init => HandsKept
    BY DEF Init, HandsKept
  <1>2. CardsInv /\ HandsKept /\ Undisturbed /\ [Next]_vars => [FromDeck]_vars
    BY NextSpends
  <1> QED BY <1>1, <1>2, InitCards, NextSpends, PTL
          DEF Spec, SpentIsSpent, FromDeck

=============================================================================
