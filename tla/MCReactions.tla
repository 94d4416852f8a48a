----------------------------- MODULE MCReactions -----------------------------
(***************************************************************************)
(* Small tables for Reactions.  Each is a board in the middle of a game:    *)
(* somebody's turn has just begun, and the cards that matter to the run     *)
(* are in hands, parties and piles.  The other cards of the box are left    *)
(* out of the table, as the test suites of the engine do.                   *)
(***************************************************************************)
EXTENDS Reactions, TLC

CONSTANTS p1, p2, p3, h1, h2, h3, h4, magic, mod1, mod2, chal, serpent,
          bloodwing, monster, monster2, horn

Turns2 == (p1 :> p2) @@ (p2 :> p1)
Turns3 == (p1 :> p2) @@ (p2 :> p3) @@ (p3 :> p1)

PlusMinusTwo == {2, -2}
JustMissOrMake == {-1, 1}

(* A table with these zones; p1 is to play, nothing is discarded. *)
Table(hand, heroes, slain, deck, row) ==
    [hand |-> hand, instance |-> [p \in Player |-> {}],
     heroes |-> heroes, slain |-> slain, deck |-> deck,
     discard |-> [c \in Card |-> 0],
     row |-> row, monsterDeck |-> {},
     points |-> [p \in Player |-> IF p = p1 THEN Budget ELSE 0],
     current |-> p1, used |-> {}, challenged |-> {}]

(* Plays: p1 may play a hero or a magic card and roll on a hero of the      *)
(* party; p3 can challenge; p1 and p2 hold a modifier.                      *)
PlaysBoard ==
    Table((p1 :> {h1, magic, mod1}) @@ (p2 :> {mod2}) @@ (p3 :> {chal}),
          (p1 :> {h3}) @@ (p2 :> {h2}) @@ (p3 :> {}),
          [p \in Player |-> {}], {}, {})

PlaysBoards == {PlaysBoard}

(* Horn: a hero whose roll asks for a target, and a Protecting Horn that    *)
(* asks for a value whenever its seat plays a modifier.                     *)
HornBoard ==
    [Table((p1 :> {mod1, h4}) @@ (p2 :> {mod2, chal}),
           (p1 :> {h1}) @@ (p2 :> {h2, h3}),
           [p \in Player |-> {}], {}, {})
       EXCEPT !.monsterDeck = Monster]

(* Serpent: Crowned Serpent offers p2 a draw for every modifier.  The deck  *)
(* is deep enough for the modifiers there are, so nothing spent comes back  *)
(* through it.                                                              *)
SerpentBoard ==
    Table((p1 :> {mod1}) @@ (p2 :> {mod2}),
          (p1 :> {h1}) @@ (p2 :> {h2}),
          (p1 :> {}) @@ (p2 :> {serpent}), {h3, h4, chal}, {})

QuestionsBoards == {HornBoard, SerpentBoard}

(* Fights: a row to attack, Bloodwing already in p2's party, and a monster  *)
(* deck to turn the next one up from.                                       *)
FightsBoard ==
    [Table((p1 :> {h1, mod1, chal}) @@ (p2 :> {mod2, h4}),
           (p1 :> {h3}) @@ (p2 :> {h2}),
           (p1 :> {}) @@ (p2 :> {bloodwing}), {}, {monster})
       EXCEPT !.monsterDeck = {monster2}]

(* Refill: the deck is one card deep and everything discarded runs back     *)
(* into it, so cards come round again.                                      *)
RefillBoard ==
    [Table((p1 :> {mod1}) @@ (p2 :> {chal}),
           (p1 :> {h1}) @@ (p2 :> {h2, h4}),
           [p \in Player |-> {}], {h3}, {})
       EXCEPT !.monsterDeck = Monster, !.discard[mod2] = 1]

FightsBoards == {FightsBoard, RefillBoard}

=============================================================================
