--------------------------- MODULE CommandsProofs ---------------------------
(***************************************************************************)
(* What Commands promises, for any seats, any number of commands, any      *)
(* window of commands that can still be tried and any ledger that is big   *)
(* enough for it (CommandsAssumption).                                     *)
(***************************************************************************)
EXTENDS Commands, FiniteSetTheorems, TLAPS

Message == [command : Command, try : 0 .. 3]
Entry   == [command : Command, result : Result]

CommandTypes ==
  /\ phase \in {"running", "over"}
  /\ ledger \in [Seat -> Seq(Entry)]
  /\ issued \in [Seat -> Nat]
  /\ aim \in [Command -> {"act", "leave"}]
  /\ attempt \in [Command -> 0 .. 3]
  /\ wire \in [Seat -> Seq(Message)] /\ stale \subseteq Message
  /\ ran \in [Command -> Nat] /\ answers \in [Command -> SUBSET Result]

Items(q) == {q[i] : i \in DOMAIN q}

Near(c, d) == c[2] - d[2] < Window /\ d[2] - c[2] < Window

(* What was not sent is nowhere, and what can be tried was sent within one  *)
(* window.                                                                  *)
Sent ==
  \A c \in Command :
    CanBeTried(c) \/ answers[c] # {} => c[2] <= issued[SeatOf(c)]
CloseTogether ==
  \A c, d \in Command :
    SeatOf(c) = SeatOf(d) /\ CanBeTried(c) /\ CanBeTried(d) => Near(c, d)

(* A seat leaves a table that is over. *)
LeftOver == left # {} => phase = "over"

(* The ledger list of a seat names each of its commands at most once. *)
WellKept(s, q) ==
  /\ \A i \in DOMAIN q : SeatOf(q[i].command) = s /\ q[i].result \in answers[q[i].command]
  /\ \A i, j \in DOMAIN q : q[i].command = q[j].command => i = j

(* A command that was answered and can still be tried is in the list, and   *)
(* what was remembered since is near it: there is no room there for so much *)
(* that it would have been forgotten.                                       *)
HeldIn(c, q) ==
  \E i \in DOMAIN q :
    q[i].command = c /\ \A j \in DOMAIN q : j > i => Near(q[j].command, c)
Held(s, q) ==
  \A c \in Command : SeatOf(c) = s /\ CanBeTried(c) /\ answers[c] # {} => HeldIn(c, q)

(* What a command was answered is what became of it. *)
Honest(c) ==
  \/ answers[c] = {} /\ ran[c] = 0
  \/ answers[c] = {"refused"} /\ ran[c] = 0
  \/ answers[c] = {"taken"} /\ (aim[c] = "act" => ran[c] = 1)

SeatOK(s) ==
  /\ WellKept(s, ledger[s]) /\ Held(s, ledger[s])
  /\ \A c \in Command : SeatOf(c) = s => Honest(c)

AnswerInv ==
  /\ CommandTypes /\ Sent /\ CloseTogether /\ LeftOver /\ RunsOnce
  /\ \A s \in Seat \ left : SeatOK(s)

LEMMA AnswerInit == CommandsInit => AnswerInv
<1> SUFFICES ASSUME CommandsInit PROVE AnswerInv
  OBVIOUS
<1> USE DEF CommandsInit
<1>1. CommandTypes
  BY DEF CommandTypes
<1>2. Travelling = {}
  BY DEF Travelling
<1>3. \A c \in Command : ~CanBeTried(c) /\ answers[c] = {} /\ ran[c] = 0
  BY <1>2 DEF CanBeTried
<1>4. \A s \in Seat : SeatOK(s)
  BY <1>3 DEF SeatOK, WellKept, Held, Honest
<1> QED
  BY <1>1, <1>3, <1>4 DEF AnswerInv, Sent, CloseTogether, LeftOver, RunsOnce

-----------------------------------------------------------------------------
(* Sequences *)

LEMMA ItemsOfAppend ==
  ASSUME NEW S, NEW q \in Seq(S), NEW e \in S
  PROVE  Append(q, e) \in Seq(S) /\ Items(Append(q, e)) = Items(q) \cup {e}
<1>1. Append(q, e) \in Seq(S) /\ Len(q) \in Nat /\ DOMAIN q = 1 .. Len(q)
  OBVIOUS
<1>2. DOMAIN Append(q, e) = 1 .. Len(q) + 1
  BY <1>1
<1>3. /\ \A i \in 1 .. Len(q) : Append(q, e)[i] = q[i]
      /\ Append(q, e)[Len(q) + 1] = e
  BY <1>1
<1>4. DOMAIN Append(q, e) = DOMAIN q \cup {Len(q) + 1}
  BY <1>1, <1>2
<1> QED
  BY <1>1, <1>3, <1>4, Zenon DEF Items

LEMMA ItemsOfTail ==
  ASSUME NEW S, NEW q \in Seq(S), q # <<>>
  PROVE  Tail(q) \in Seq(S) /\ Head(q) \in Items(q) /\ Items(Tail(q)) \subseteq Items(q)
<1>1. /\ Tail(q) \in Seq(S) /\ DOMAIN Tail(q) = 1 .. Len(q) - 1
      /\ \A i \in 1 .. Len(q) - 1 : Tail(q)[i] = q[i + 1]
      /\ Head(q) = q[1] /\ DOMAIN q = 1 .. Len(q) /\ Len(q) \in Nat \ {0}
  OBVIOUS
<1>2. 1 \in DOMAIN q /\ \A i \in DOMAIN Tail(q) : i + 1 \in DOMAIN q
  BY <1>1
<1>3. Head(q) \in Items(q)
  BY <1>1, <1>2 DEF Items
<1>4. ASSUME NEW x \in Items(Tail(q)) PROVE x \in Items(q)
  <2>1. PICK i \in DOMAIN Tail(q) : x = Tail(q)[i]
    BY <1>4 DEF Items
  <2>2. x = q[i + 1]
    BY <1>1, <2>1
  <2> QED
    BY <1>2, <2>1, <2>2 DEF Items
<1> QED
  BY <1>1, <1>3, <1>4

(* There are 2 * Window - 2 numbers near a number, besides itself. *)
LEMMA NotSoManyNear ==
  ASSUME NEW n \in Nat, NEW k \in Nat, k >= 2 * Window - 1,
         NEW f \in [1 .. k -> Nat],
         \A i \in 1 .. k : f[i] # n /\ f[i] - n < Window /\ n - f[i] < Window
  PROVE  \E i, j \in 1 .. k : i # j /\ f[i] = f[j]
<1> DEFINE lo == n - Window + 1
           hi == n + Window - 1
           around == lo .. hi
           others == around \ {n}
<1>1. Window \in Nat \ {0}
  BY CommandsAssumption
<1>2. IsFiniteSet(around) /\ Cardinality(around) = 2 * Window - 1 /\ n \in around
  <2>1. /\ lo \in Int /\ hi \in Int /\ lo <= n /\ n <= hi /\ ~(lo > hi)
        /\ hi - lo + 1 = 2 * Window - 1
    BY <1>1
  <2> HIDE DEF lo, hi
  <2>2. /\ IsFiniteSet(around)
        /\ Cardinality(around) = IF lo > hi THEN 0 ELSE hi - lo + 1
    BY <2>1, FS_Interval, Zenon
  <2> QED
    BY <2>1, <2>2
<1>3. IsFiniteSet(others) /\ Cardinality(others) = 2 * Window - 2
  <2> HIDE DEF around
  <2>1. IsFiniteSet(others) /\ Cardinality(others) = Cardinality(around) - 1
    BY <1>2, FS_RemoveElement
  <2> QED
    BY <1>1, <1>2, <2>1
<1>4. IsFiniteSet(1 .. k) /\ Cardinality(1 .. k) = k
  BY FS_Interval
<1>5. f \in [1 .. k -> others]
  <2>1. \A i \in 1 .. k : f[i] \in Nat
    OBVIOUS
  <2>2. \A i \in 1 .. k : f[i] \in others
    BY <1>1, <2>1
  <2> QED
    BY <2>2
<1>6. Cardinality(others) < Cardinality(1 .. k)
  BY <1>1, <1>3, <1>4
<1> HIDE DEF others
<1> QED
  BY <1>3, <1>4, <1>5, <1>6, FS_PigeonHole

LEMMA CommandParts ==
  ASSUME NEW c \in Command
  PROVE  SeatOf(c) \in Seat /\ c[1] \in Seat /\ c[2] \in Nat /\ c = <<c[1], c[2]>>
BY CommandsAssumption DEF Command, SeatOf

LEMMA SameCommand ==
  ASSUME NEW c \in Command, NEW d \in Command, c[1] = d[1], c[2] = d[2]
  PROVE  c = d
BY DEF Command

-----------------------------------------------------------------------------
(* What a step leaves on its way. *)

LEMMA WhatTravels ==
  ASSUME CommandTypes, NEW m \in Travelling
  PROVE  m \in Message /\ m.command \in Command /\ CanBeTried(m.command)
<1>1. m \in Message
  <2>1. ASSUME NEW s \in Seat, NEW i \in DOMAIN wire[s] PROVE wire[s][i] \in Message
    <3>1. wire[s] \in Seq(Message)
      BY DEF CommandTypes
    <3> QED
      BY <3>1
  <2> QED
    BY <2>1 DEF Travelling, CommandTypes
<1> QED
  BY <1>1 DEF Message, CanBeTried

LEMMA TravellingIs == Travelling = stale \cup UNION {Items(wire[s]) : s \in Seat}
BY DEF Travelling, Items

LEMMA EmitAdds ==
  ASSUME CommandTypes, NEW c \in Command, NEW n \in 1 .. 2, Emit(c, n), UNCHANGED stale
  PROVE  /\ attempt' \in [Command -> 0 .. 3] /\ wire' \in [Seat -> Seq(Message)]
         /\ \A d \in Command : CanBeTried(d)' => d = c \/ CanBeTried(d)
<1> DEFINE s == SeatOf(c)
           e == [command |-> c, try |-> n]
<1>1. s \in Seat /\ e \in Message
  BY CommandParts DEF Message
<1>2. \A t \in Seat : wire[t] \in Seq(Message)
  BY DEF CommandTypes
<1>3. Append(wire[s], e) \in Seq(Message) /\ Items(Append(wire[s], e)) = Items(wire[s]) \cup {e}
  BY <1>1, <1>2, ItemsOfAppend
<1>4. wire' = wire \/ wire' = [wire EXCEPT ![s] = Append(wire[s], e)]
  BY DEF Emit
<1> HIDE DEF e
<1>5. /\ wire' \in [Seat -> Seq(Message)]
      /\ \A t \in Seat : Items(wire'[t]) \subseteq Items(wire[t]) \cup {e}
  BY <1>1, <1>3, <1>4 DEF CommandTypes
<1>6. Travelling' \subseteq Travelling \cup {e}
  <2>1. Travelling' = stale' \cup UNION {Items(wire'[t]) : t \in Seat}
    BY DEF Travelling, Items
  <2> QED
    BY <1>5, <2>1, TravellingIs
<1>7. attempt' = [attempt EXCEPT ![c] = n]
  BY DEF Emit
<1>8. e.command = c
  BY DEF e
<1> QED
  BY <1>5, <1>6, <1>7, <1>8 DEF CanBeTried, CommandTypes

LEMMA ReplyTakes ==
  ASSUME CommandTypes, NEW m \in Travelling, NEW r \in Result, Reply(m, r)
  PROVE  /\ attempt' \in [Command -> 0 .. 3]
         /\ wire' \in [Seat -> Seq(Message)] /\ stale' \subseteq Message
         /\ answers' = [answers EXCEPT ![m.command] = @ \cup {r}]
         /\ answers' \in [Command -> SUBSET Result]
         /\ UNCHANGED <<issued, aim, connected>>
         /\ \A d \in Command : CanBeTried(d)' => CanBeTried(d)
<1> DEFINE c == m.command
           s == SeatOf(c)
<1>1. m \in Message /\ c \in Command /\ s \in Seat
  BY WhatTravels, CommandParts
<1>2. \A t \in Seat : wire[t] \in Seq(Message)
  BY DEF CommandTypes
<1>3. /\ answers' = [answers EXCEPT ![c] = @ \cup {r}]
      /\ UNCHANGED <<issued, aim, connected>>
      /\ attempt' = attempt \/ attempt' = [attempt EXCEPT ![c] = 3]
      /\ stale' \subseteq stale
      /\ wire' = wire \/ (wire[s] # <<>> /\ wire' = [wire EXCEPT ![s] = Tail(wire[s])])
  BY DEF Reply
<1>4. wire[s] # <<>> => Tail(wire[s]) \in Seq(Message) /\ Items(Tail(wire[s])) \subseteq Items(wire[s])
  BY <1>1, <1>2, ItemsOfTail
<1> HIDE DEF c, s
<1>5. /\ wire' \in [Seat -> Seq(Message)]
      /\ \A t \in Seat : Items(wire'[t]) \subseteq Items(wire[t])
  BY <1>1, <1>3, <1>4 DEF CommandTypes
<1>6. Travelling' \subseteq Travelling
  <2>1. Travelling' = stale' \cup UNION {Items(wire'[t]) : t \in Seat}
    BY DEF Travelling, Items
  <2> QED
    BY <1>3, <1>5, <2>1, TravellingIs
<1>7. attempt' \in [Command -> 0 .. 3]
      /\ \A d \in Command : attempt'[d] \in 1 .. 2 => attempt[d] \in 1 .. 2
  <2>1. attempt \in [Command -> 0 .. 3] /\ 3 \in 0 .. 3 /\ 3 \notin 1 .. 2
    BY DEF CommandTypes
  <2>2. CASE attempt' = [attempt EXCEPT ![c] = 3]
    BY <1>1, <2>1, <2>2
  <2> QED
    BY <1>3, <2>1, <2>2
<1>8. stale' \subseteq Message /\ answers' \in [Command -> SUBSET Result]
  BY <1>1, <1>3 DEF CommandTypes
<1> QED
  BY <1>3, <1>5, <1>6, <1>7, <1>8 DEF CanBeTried, c

-----------------------------------------------------------------------------
(* A step after which no more can be tried, and which neither runs anything *)
(* nor answers or forgets anything of a seat that stays.                    *)
LEMMA QuietStep ==
  ASSUME AnswerInv, CommandTypes', UNCHANGED <<issued, aim, ran>>,
         phase' = phase \/ phase' = "over",
         left \subseteq left', left' = left \/ phase' = "over",
         \A c \in Command : CanBeTried(c)' => CanBeTried(c),
         \A c \in Command : answers'[c] = answers[c] \/ (SeatOf(c) \in left' /\ CanBeTried(c)),
         \A s \in Seat \ left' : ledger'[s] = ledger[s]
  PROVE  AnswerInv'
<1>1. Sent' /\ RunsOnce' /\ LeftOver'
  BY DEF AnswerInv, Sent, RunsOnce, LeftOver
<1>2. CloseTogether'
  BY DEF AnswerInv, CloseTogether, Near
<1>3. ASSUME NEW s \in Seat \ left' PROVE SeatOK(s)'
  <2>1. ledger'[s] = ledger[s] /\ SeatOK(s) /\ ledger[s] \in Seq(Entry)
    BY DEF AnswerInv, CommandTypes
  <2>2. \A c \in Command : SeatOf(c) = s => answers'[c] = answers[c]
    BY <1>3
  <2>3. \A i \in DOMAIN ledger[s] : ledger[s][i].command \in Command
    <3>1. \A i \in DOMAIN ledger[s] : ledger[s][i] \in Entry
      BY <2>1
    <3> QED
      BY <3>1 DEF Entry
  <2>4. WellKept(s, ledger[s])'
    BY <2>1, <2>2, <2>3 DEF SeatOK, WellKept
  <2>5. Held(s, ledger[s])'
    BY <2>1, <2>2 DEF SeatOK, Held, HeldIn, Near
  <2>6. \A c \in Command : SeatOf(c) = s => Honest(c)'
    BY <2>1, <2>2 DEF SeatOK, Honest
  <2> QED
    BY <2>4, <2>5, <2>6 DEF SeatOK
<1> QED
  BY <1>1, <1>2, <1>3 DEF AnswerInv

-----------------------------------------------------------------------------
(* The ledger *)

Distinct(s, q) ==
  /\ \A i \in DOMAIN q : SeatOf(q[i].command) = s
  /\ \A i, j \in DOMAIN q : q[i].command = q[j].command => i = j

(* The oldest answer of a list that is too long is to a command that cannot *)
(* be tried: otherwise the whole list would be near it.                     *)
LEMMA TailHolds ==
  ASSUME NEW s \in Seat, NEW q \in Seq(Entry), Len(q) > Remembered, Distinct(s, q),
         NEW d \in Command, SeatOf(d) = s, HeldIn(d, q)
  PROVE  HeldIn(d, Tail(q))
<1> DEFINE k == Len(q) - 1
<1>1. /\ Remembered \in Nat \ {0} /\ Window \in Nat \ {0} /\ Remembered >= 2 * Window - 1
      /\ Len(q) \in Nat /\ DOMAIN q = 1 .. Len(q)
  BY CommandsAssumption
<1>2. /\ k \in Nat /\ k >= 2 * Window - 1 /\ DOMAIN Tail(q) = 1 .. k
      /\ \A i \in 1 .. k : Tail(q)[i] = q[i + 1] /\ i + 1 \in DOMAIN q
  BY <1>1
<1>3. \A i \in DOMAIN q : q[i].command \in Command
  <2>1. \A i \in DOMAIN q : q[i] \in Entry
    OBVIOUS
  <2> QED
    BY <2>1 DEF Entry
<1>4. PICK i \in DOMAIN q : /\ q[i].command = d
                           /\ \A j \in DOMAIN q : j > i => Near(q[j].command, d)
  BY DEF HeldIn
<1>5. i # 1
  <2> SUFFICES ASSUME i = 1 PROVE FALSE
    OBVIOUS
  <2> DEFINE f == [j \in 1 .. k |-> q[j + 1].command[2]]
  <2>1. ASSUME NEW j \in 1 .. k
        PROVE  f[j] \in Nat /\ f[j] # d[2] /\ f[j] - d[2] < Window /\ d[2] - f[j] < Window
    <3>1. j + 1 \in DOMAIN q /\ j + 1 > i /\ j + 1 # i
      BY <1>2
    <3>2. q[j + 1].command \in Command /\ Near(q[j + 1].command, d) /\ q[j + 1].command # d
      BY <1>3, <1>4, <3>1 DEF Distinct
    <3>3. q[j + 1].command[1] = d[1]
      BY <3>1 DEF Distinct, SeatOf
    <3> QED
      BY <3>2, <3>3, CommandParts DEF Near
  <2>2. f \in [1 .. k -> Nat] /\ d[2] \in Nat
    BY <2>1, CommandParts
  <2> HIDE DEF f
  <2>3. PICK x, y \in 1 .. k : x # y /\ f[x] = f[y]
    BY <1>2, <2>1, <2>2, NotSoManyNear
  <2>4. /\ x + 1 \in DOMAIN q /\ y + 1 \in DOMAIN q /\ x + 1 # y + 1
        /\ q[x + 1].command[2] = q[y + 1].command[2]
    BY <1>2, <2>3 DEF f
  <2>5. q[x + 1].command[1] = q[y + 1].command[1]
    BY <2>4 DEF Distinct, SeatOf
  <2>6. q[x + 1].command = q[y + 1].command
    BY <1>3, <2>4, <2>5, SameCommand
  <2> QED
    BY <2>4, <2>6 DEF Distinct
<1>6. i - 1 \in 1 .. k /\ (i - 1) + 1 = i
  BY <1>1, <1>5
<1>7. Tail(q)[i - 1].command = d
  BY <1>2, <1>4, <1>6
<1>8. ASSUME NEW j \in 1 .. k, j > i - 1 PROVE Near(Tail(q)[j].command, d)
  <2>1. j + 1 \in DOMAIN q /\ j + 1 > i
    BY <1>1, <1>2, <1>8
  <2> QED
    BY <1>2, <1>4, <2>1
<1> QED
  BY <1>2, <1>6, <1>7, <1>8 DEF HeldIn

LEMMA TailDistinct ==
  ASSUME NEW s, NEW q \in Seq(Entry), q # <<>>, Distinct(s, q)
  PROVE  Tail(q) \in Seq(Entry) /\ Distinct(s, Tail(q))
<1>1. /\ Tail(q) \in Seq(Entry) /\ DOMAIN Tail(q) = 1 .. Len(q) - 1 /\ Len(q) \in Nat
      /\ \A i \in 1 .. Len(q) - 1 : Tail(q)[i] = q[i + 1] /\ i + 1 \in DOMAIN q
  OBVIOUS
<1>2. \A i, j \in 1 .. Len(q) - 1 : i + 1 = j + 1 => i = j
  BY <1>1
<1> QED
  BY <1>1, <1>2 DEF Distinct

LEMMA RememberHolds ==
  ASSUME NEW s \in Seat, NEW q \in Seq(Entry), Distinct(s, q),
         NEW c \in Command, SeatOf(c) = s, NEW r \in Result,
         \A i \in DOMAIN q : q[i].command # c
  PROVE  LET n == Remember(q, c, r) IN
         /\ n \in Seq(Entry) /\ Distinct(s, n)
         /\ Items(n) \subseteq Items(q) \cup {[command |-> c, result |-> r]}
         /\ HeldIn(c, n)
         /\ \A d \in Command :
               SeatOf(d) = s /\ Near(c, d) /\ HeldIn(d, q) => HeldIn(d, n)
<1> DEFINE e == [command |-> c, result |-> r]
           p == Append(q, e)
           n == Remember(q, c, r)
<1>1. e \in Entry /\ e.command = c
  BY DEF Entry
<1> HIDE DEF e
<1>2. /\ p \in Seq(Entry) /\ Len(q) \in Nat /\ Len(p) = Len(q) + 1
      /\ DOMAIN q = 1 .. Len(q) /\ DOMAIN p = 1 .. Len(q) + 1
      /\ p[Len(q) + 1] = e /\ \A i \in 1 .. Len(q) : p[i] = q[i]
  BY <1>1
<1>3. Items(p) = Items(q) \cup {e}
  BY <1>1, ItemsOfAppend
<1> HIDE DEF p
<1>4. n = IF Len(p) > Remembered THEN Tail(p) ELSE p
  BY DEF Remember, p, e
<1>5. DOMAIN p = DOMAIN q \cup {Len(q) + 1} /\ Len(q) + 1 \notin DOMAIN q
  BY <1>2
<1>6. Distinct(s, p)
  BY <1>1, <1>2, <1>5 DEF Distinct
<1>7. HeldIn(c, p)
  BY <1>1, <1>2, <1>5 DEF HeldIn
<1>8. ASSUME NEW d \in Command, Near(c, d), HeldIn(d, q) PROVE HeldIn(d, p)
  BY <1>1, <1>2, <1>5, <1>8 DEF HeldIn
<1>9. p # <<>>
  BY <1>2
<1>10. n \in Seq(Entry) /\ Distinct(s, n) /\ Items(n) \subseteq Items(q) \cup {e}
  BY <1>2, <1>3, <1>4, <1>6, <1>9, TailDistinct, ItemsOfTail
<1>11. \A d \in Command : SeatOf(d) = s /\ HeldIn(d, p) => HeldIn(d, n)
  BY <1>2, <1>4, <1>6, TailHolds
<1> QED
  BY <1>7, <1>8, <1>10, <1>11 DEF e

-----------------------------------------------------------------------------
(* The steps *)

LEMMA IssueStep ==
  ASSUME AnswerInv, CommandTypes', NEW s \in Seat, NEW what, Issue(s, what)
  PROVE  AnswerInv'
<1> DEFINE c == <<s, issued[s] + 1>>
<1>1. /\ c \in Command /\ SeatOf(c) = s /\ c[2] = issued[s] + 1 /\ issued[s] \in Nat
      /\ \A d \in Command : SeatOf(d) = s /\ CanBeTried(d) => c[2] - d[2] < Window
      /\ issued' = [issued EXCEPT ![s] = @ + 1] /\ aim' = [aim EXCEPT ![c] = what]
      /\ Emit(c, 1)
      /\ UNCHANGED <<phase, left, ledger, connected, stale, ran, answers>>
  BY DEF Issue, SeatOf, serverVars, historyVars, AnswerInv, CommandTypes
<1>2. \A d \in Command : CanBeTried(d)' => d = c \/ CanBeTried(d)
  BY <1>1, EmitAdds DEF AnswerInv
<1> HIDE DEF c
<1>3. \A t \in Seat : issued[t] \in Nat /\ issued'[t] \in Nat /\ issued[t] <= issued'[t]
  BY <1>1 DEF AnswerInv, CommandTypes
<1>4. issued'[s] = c[2] /\ answers[c] = {}
  <2>1. issued'[s] = issued[s] + 1
    BY <1>1 DEF AnswerInv, CommandTypes
  <2>2. c[2] # issued[s] /\ ~(c[2] <= issued[s])
    BY <1>1
  <2> QED
    BY <1>1, <2>1, <2>2 DEF AnswerInv, Sent
<1>5. \A d \in Command : SeatOf(d) = s /\ CanBeTried(d) => d[2] <= issued[s]
  BY DEF AnswerInv, Sent
<1>6. Sent'
  BY <1>1, <1>2, <1>3, <1>4, CommandParts DEF AnswerInv, Sent
<1>7. CloseTogether'
  <2>1. \A d \in Command : SeatOf(d) = s /\ CanBeTried(d)' => Near(c, d) /\ Near(d, c)
    BY <1>1, <1>2, <1>5, CommandParts, CommandsAssumption DEF Near
  <2>2. ASSUME NEW d \in Command, NEW e \in Command, SeatOf(d) = SeatOf(e),
               CanBeTried(d)', CanBeTried(e)'
        PROVE  Near(d, e)
    <3>1. CASE d = c \/ e = c
      BY <1>1, <2>1, <2>2, <3>1
    <3>2. CASE d # c /\ e # c
      BY <1>2, <2>2, <3>2 DEF AnswerInv, CloseTogether
    <3> QED
      BY <3>1, <3>2
  <2> QED
    BY <2>2 DEF CloseTogether, Near
<1>8. ASSUME NEW t \in Seat \ left PROVE SeatOK(t)'
  <2>1. SeatOK(t)
    BY <1>8 DEF AnswerInv
  <2>2. WellKept(t, ledger[t])'
    BY <1>1, <2>1 DEF SeatOK, WellKept
  <2>3. Held(t, ledger[t])'
    BY <1>1, <1>2, <1>4, <2>1 DEF SeatOK, Held, HeldIn, Near
  <2>4. \A d \in Command : d # c => aim'[d] = aim[d]
    BY <1>1 DEF AnswerInv, CommandTypes
  <2>5. \A d \in Command : SeatOf(d) = t => Honest(d)'
    BY <1>1, <1>4, <2>1, <2>4 DEF SeatOK, Honest
  <2> QED
    BY <2>2, <2>3, <2>5 DEF SeatOK
<1> QED
  BY <1>1, <1>6, <1>7, <1>8 DEF AnswerInv, LeftOver, RunsOnce

(* A command of a seat that stays is answered for the first time. *)
LEMMA AnswerStep ==
  ASSUME AnswerInv, CommandTypes', NEW m \in Travelling, NEW r \in {"taken", "refused"},
         Recalls(m.command) = {}, SeatOf(m.command) \notin left, Reply(m, r),
         ledger' = [ledger EXCEPT ![SeatOf(m.command)] = Remember(@, m.command, r)],
         left' = left, phase' = phase \/ phase' = "over",
         \/ r = "refused" /\ ran' = ran
         \/ r = "taken" /\ ran' = [ran EXCEPT ![m.command] = @ + 1]
  PROVE  AnswerInv'
<1> DEFINE c == m.command
           s == SeatOf(c)
<1>1. c \in Command /\ s \in Seat \ left /\ CanBeTried(c)
  BY WhatTravels, CommandParts DEF AnswerInv
<1>2. SeatOK(s) /\ ledger[s] \in Seq(Entry)
  BY <1>1 DEF AnswerInv, CommandTypes
<1>3. \A i \in DOMAIN ledger[s] : ledger[s][i].command # c
  BY DEF Recalls
<1>4. answers[c] = {}
  <2>1. ~HeldIn(c, ledger[s])
    BY <1>3 DEF HeldIn
  <2> QED
    BY <1>1, <1>2, <2>1 DEF SeatOK, Held
<1>5. ran[c] = 0
  BY <1>1, <1>2, <1>4 DEF SeatOK, Honest
<1>6. /\ answers' = [answers EXCEPT ![c] = @ \cup {r}] /\ UNCHANGED <<issued, aim>>
      /\ \A d \in Command : CanBeTried(d)' => CanBeTried(d)
  BY ReplyTakes DEF Result, AnswerInv
<1>7. ledger' = [ledger EXCEPT ![s] = Remember(@, c, r)]
      /\ ((r = "refused" /\ ran' = ran) \/ (r = "taken" /\ ran' = [ran EXCEPT ![c] = @ + 1]))
  OBVIOUS
<1> HIDE DEF c, s
<1>8. /\ answers'[c] = {r} /\ \A d \in Command : d # c => answers'[d] = answers[d]
      /\ ran'[c] = (IF r = "taken" THEN 1 ELSE 0) /\ \A d \in Command : d # c => ran'[d] = ran[d]
  BY <1>1, <1>4, <1>5, <1>6, <1>7 DEF AnswerInv, CommandTypes
<1>9. Sent' /\ RunsOnce' /\ LeftOver'
  <2>1. c[2] <= issued[SeatOf(c)]
    BY <1>1 DEF AnswerInv, Sent
  <2>2. Sent'
    BY <1>6, <1>8, <2>1 DEF AnswerInv, Sent
  <2>3. RunsOnce'
    BY <1>8 DEF AnswerInv, RunsOnce
  <2> QED
    BY <2>2, <2>3 DEF AnswerInv, LeftOver
<1>10. CloseTogether'
  BY <1>6 DEF AnswerInv, CloseTogether, Near
<1>11. ASSUME NEW t \in Seat \ left, t # s PROVE SeatOK(t)'
  <2>1. SeatOK(t) /\ ledger'[t] = ledger[t] /\ ledger[t] \in Seq(Entry)
    BY <1>7, <1>11 DEF AnswerInv, CommandTypes
  <2>2. \A d \in Command : SeatOf(d) = t => d # c
    BY <1>11 DEF s
  <2>3. \A i \in DOMAIN ledger[t] : ledger[t][i].command \in Command
    <3>1. \A i \in DOMAIN ledger[t] : ledger[t][i] \in Entry
      BY <2>1
    <3> QED
      BY <3>1 DEF Entry
  <2>4. WellKept(t, ledger[t])'
    BY <1>8, <2>1, <2>2, <2>3 DEF SeatOK, WellKept
  <2>5. Held(t, ledger[t])'
    BY <1>6, <1>8, <2>1, <2>2 DEF SeatOK, Held, HeldIn, Near
  <2>6. \A d \in Command : SeatOf(d) = t => Honest(d)'
    BY <1>6, <1>8, <2>1, <2>2 DEF SeatOK, Honest
  <2> QED
    BY <2>4, <2>5, <2>6 DEF SeatOK
<1>12. SeatOK(s)'
  <2> DEFINE q == ledger[s]
             n == Remember(q, c, r)
  <2>1. Distinct(s, q)
    BY <1>2 DEF SeatOK, WellKept, Distinct
  <2>2. /\ n \in Seq(Entry) /\ Distinct(s, n) /\ HeldIn(c, n)
        /\ Items(n) \subseteq Items(q) \cup {[command |-> c, result |-> r]}
        /\ \A d \in Command : SeatOf(d) = s /\ Near(c, d) /\ HeldIn(d, q) => HeldIn(d, n)
    BY <1>1, <1>2, <1>3, <2>1, RememberHolds DEF Result, s
  <2>3. ledger'[s] = n
    BY <1>1, <1>7 DEF AnswerInv, CommandTypes
  <2> HIDE DEF n
  <2>4. ASSUME NEW i \in DOMAIN n PROVE n[i].result \in answers'[n[i].command]
    <3>1. n[i] \in Items(n) /\ n[i] \in Entry
      BY <2>2, <2>4 DEF Items
    <3>2. CASE n[i] = [command |-> c, result |-> r]
      BY <1>8, <3>2
    <3>3. CASE n[i] \in Items(q)
      <4>1. PICK j \in DOMAIN q : n[i] = q[j]
        BY <3>3 DEF Items
      <4>2. n[i].command \in Command /\ n[i].command # c
        BY <1>3, <3>1, <4>1 DEF Entry
      <4> QED
        BY <1>2, <1>8, <4>1, <4>2 DEF SeatOK, WellKept
    <3> QED
      BY <2>2, <3>1, <3>2, <3>3
  <2>5. WellKept(s, ledger[s])'
    BY <2>2, <2>3, <2>4 DEF Distinct, WellKept
  <2>6. ASSUME NEW d \in Command, SeatOf(d) = s, CanBeTried(d)', answers'[d] # {}
        PROVE  HeldIn(d, n)
    <3>1. CASE d # c
      <4>1. HeldIn(d, q)
        BY <1>2, <1>6, <1>8, <2>6, <3>1 DEF SeatOK, Held
      <4>2. Near(c, d)
        BY <1>1, <1>6, <2>6 DEF AnswerInv, CloseTogether, s
      <4> QED
        BY <2>2, <2>6, <4>1, <4>2
    <3> QED
      BY <2>2, <3>1
  <2>7. Held(s, ledger[s])'
    BY <2>3, <2>6 DEF Held, HeldIn, Near
  <2>8. \A d \in Command : SeatOf(d) = s => Honest(d)'
    BY <1>2, <1>6, <1>8 DEF SeatOK, Honest
  <2> QED
    BY <2>5, <2>7, <2>8 DEF SeatOK
<1> QED
  BY <1>9, <1>10, <1>11, <1>12 DEF AnswerInv

LEMMA CalmReply ==
  ASSUME AnswerInv, CommandTypes', NEW m \in Travelling, NEW r \in Result, Reply(m, r),
         SeatOf(m.command) \in left' \/ r \in answers[m.command],
         ran' = ran, phase' = phase \/ phase' = "over",
         left \subseteq left', left' = left \/ phase' = "over",
         \A s \in Seat \ left' : ledger'[s] = ledger[s]
  PROVE  AnswerInv'
<1>1. m.command \in Command /\ CanBeTried(m.command)
  BY WhatTravels DEF AnswerInv
<1>2. /\ answers' = [answers EXCEPT ![m.command] = @ \cup {r}] /\ UNCHANGED <<issued, aim>>
      /\ \A d \in Command : CanBeTried(d)' => CanBeTried(d)
  BY ReplyTakes DEF AnswerInv
<1>3. \A d \in Command : answers'[d] = answers[d] \/ (SeatOf(d) \in left' /\ CanBeTried(d))
  BY <1>1, <1>2 DEF AnswerInv, CommandTypes
<1> QED
  BY <1>2, <1>3, QuietStep

LEMMA RecallStep ==
  ASSUME AnswerInv, CommandTypes', NEW m \in Travelling, Recall(m) PROVE AnswerInv'
<1> DEFINE s == SeatOf(m.command)
<1>1. PICK i \in Recalls(m.command) : Reply(m, ledger[s][i].result)
  BY DEF Recall
<1>2. ran' = ran /\ phase' = phase /\ left' = left /\ ledger' = ledger
  BY DEF Recall, serverVars
<1>3. s \in Seat /\ ledger[s] \in Seq(Entry)
  BY WhatTravels, CommandParts DEF AnswerInv, CommandTypes
<1>4. i \in DOMAIN ledger[s] /\ ledger[s][i].command = m.command /\ ledger[s][i] \in Entry
  BY <1>3 DEF Recalls
<1>5. ledger[s][i].result \in Result
  BY <1>4 DEF Entry
<1>6. s \in left \/ ledger[s][i].result \in answers[m.command]
  BY <1>3, <1>4 DEF AnswerInv, SeatOK, WellKept
<1> QED
  BY <1>1, <1>2, <1>5, <1>6, CalmReply

LEMMA MissingStep ==
  ASSUME AnswerInv, CommandTypes', NEW m \in Travelling, Missing(m) PROVE AnswerInv'
<1>1. SeatOf(m.command) \in left
  BY WhatTravels, CommandParts DEF AnswerInv, Missing, Gone
<1>2. Reply(m, "missing") /\ UNCHANGED <<phase, left, ledger, ran>>
  BY DEF Missing, serverVars
<1> QED
  BY <1>1, <1>2, CalmReply DEF Result

LEMMA DispatchStep ==
  ASSUME AnswerInv, CommandTypes', NEW m \in Travelling, Dispatch(m) PROVE AnswerInv'
<1> DEFINE c == m.command
           s == SeatOf(c)
<1>1. PICK r \in {"refused", "taken"} :
        /\ Recalls(c) = {} /\ left' = left /\ Reply(m, r)
        /\ ledger' = [ledger EXCEPT ![s] = Remember(@, c, r)]
        /\ \/ r = "refused" /\ phase' = phase /\ ran' = ran
           \/ /\ r = "taken" /\ phase = "running" /\ phase' \in {"running", "over"}
              /\ ran' = [ran EXCEPT ![c] = @ + 1]
  BY DEF Dispatch
<1>2. CASE s \notin left
  BY <1>1, <1>2, AnswerStep
<1>3. CASE s \in left
  <2>1. r = "refused" /\ phase' = phase /\ ran' = ran
    BY <1>1, <1>3 DEF AnswerInv, LeftOver
  <2>2. \A t \in Seat \ left' : ledger'[t] = ledger[t]
    BY <1>1, <1>3 DEF AnswerInv, CommandTypes
  <2> QED
    BY <1>1, <1>3, <2>1, <2>2, CalmReply DEF Result
<1> QED
  BY <1>2, <1>3

LEMMA LeaveStep ==
  ASSUME AnswerInv, CommandTypes', NEW m \in Travelling, Leave(m) PROVE AnswerInv'
<1> DEFINE c == m.command
           s == SeatOf(c)
<1>1. CASE phase = "over"
  <2>1. /\ left' = left \cup {s} /\ Reply(m, "taken") /\ phase' = phase /\ ran' = ran
        /\ ledger' = [ledger EXCEPT ![s] = Remember(<<>>, c, "taken")]
    BY <1>1 DEF Leave
  <2>2. \A t \in Seat \ left' : ledger'[t] = ledger[t]
    BY <2>1 DEF AnswerInv, CommandTypes
  <2> QED
    BY <1>1, <2>1, <2>2, CalmReply DEF Result
<1>2. CASE phase # "over"
  <2>1. /\ Recalls(c) = {} /\ left' = left /\ Reply(m, "refused") /\ phase' = phase /\ ran' = ran
        /\ ledger' = [ledger EXCEPT ![s] = Remember(@, c, "refused")]
    BY <1>2 DEF Leave
  <2>2. left = {}
    BY <1>2 DEF AnswerInv, LeftOver
  <2> QED
    BY <2>1, <2>2, AnswerStep
<1> QED
  BY <1>1, <1>2

-----------------------------------------------------------------------------
LEMMA TypesStep ==
  ASSUME CommandTypes, [CommandsNext]_commandVars PROVE CommandTypes'
<1>1. ASSUME NEW s \in Seat, NEW what \in {"act", "leave"}, Issue(s, what) PROVE CommandTypes'
  <2> DEFINE c == <<s, issued[s] + 1>>
  <2>1. /\ c \in Command /\ Emit(c, 1) /\ aim' = [aim EXCEPT ![c] = what]
        /\ issued' = [issued EXCEPT ![s] = @ + 1]
        /\ UNCHANGED <<phase, ledger, stale, ran, answers>>
    BY <1>1 DEF Issue, serverVars, historyVars
  <2>2. attempt' \in [Command -> 0 .. 3] /\ wire' \in [Seat -> Seq(Message)]
    BY <2>1, EmitAdds
  <2>3. issued' \in [Seat -> Nat]
    BY <2>1 DEF CommandTypes
  <2> HIDE DEF c
  <2>4. aim' \in [Command -> {"act", "leave"}]
    BY <2>1 DEF CommandTypes
  <2> QED
    BY <2>1, <2>2, <2>3, <2>4 DEF CommandTypes
<1>2. ASSUME NEW c \in Command, Retry(c) PROVE CommandTypes'
  <2>1. attempt' \in [Command -> 0 .. 3] /\ wire' \in [Seat -> Seq(Message)]
    BY <1>2, EmitAdds DEF Retry
  <2> QED
    BY <1>2, <2>1 DEF Retry, serverVars, historyVars, CommandTypes
<1>3. ASSUME NEW c \in Command, GiveUp(c) PROVE CommandTypes'
  BY <1>3 DEF GiveUp, serverVars, linkVars, historyVars, CommandTypes
<1>4. ASSUME NEW s \in Seat, Connect(s) PROVE CommandTypes'
  BY <1>4 DEF Connect, serverVars, clientVars, historyVars, CommandTypes
<1>5. ASSUME NEW s \in Seat, Disconnect(s) PROVE CommandTypes'
  <2>1. wire[s] \in Seq(Message)
    BY DEF CommandTypes
  <2>2. {wire[s][i] : i \in DOMAIN wire[s]} \subseteq Message /\ <<>> \in Seq(Message)
    BY <2>1
  <2>3. wire' \in [Seat -> Seq(Message)] /\ stale' \subseteq Message
    BY <1>5, <2>2 DEF Disconnect, CommandTypes
  <2> QED
    BY <1>5, <2>3 DEF Disconnect, serverVars, clientVars, historyVars, CommandTypes
<1>6. ASSUME NEW m \in stale, Lose(m) PROVE CommandTypes'
  BY <1>6 DEF Lose, serverVars, clientVars, historyVars, CommandTypes
<1>7. ASSUME NEW m \in Travelling, NEW r \in Result, Reply(m, r),
             phase' \in {"running", "over"}, ledger' \in [Seat -> Seq(Entry)],
             ran' \in [Command -> Nat]
      PROVE  CommandTypes'
  BY <1>7, ReplyTakes DEF CommandTypes
<1>8. ASSUME NEW m \in Travelling, Recall(m) PROVE CommandTypes'
  <2> DEFINE s == SeatOf(m.command)
  <2>1. PICK i \in Recalls(m.command) : Reply(m, ledger[s][i].result)
    BY <1>8 DEF Recall
  <2>2. s \in Seat /\ ledger[s] \in Seq(Entry)
    BY WhatTravels, CommandParts DEF CommandTypes
  <2>3. ledger[s][i] \in Entry
    BY <2>2 DEF Recalls
  <2>4. ledger[s][i].result \in Result
    BY <2>3 DEF Entry
  <2> QED
    BY <1>7, <1>8, <2>1, <2>4 DEF Recall, serverVars, CommandTypes
<1>9. ASSUME NEW m \in Travelling, Missing(m) PROVE CommandTypes'
  BY <1>7, <1>9 DEF Missing, serverVars, CommandTypes, Result
<1>10. ASSUME NEW c \in Command, NEW r \in Result, NEW q \in Seq(Entry)
       PROVE  Remember(q, c, r) \in Seq(Entry)
  <2> DEFINE e == [command |-> c, result |-> r]
  <2>1. e \in Entry
    BY DEF Entry
  <2> HIDE DEF e
  <2>2. Append(q, e) \in Seq(Entry) /\ Len(Append(q, e)) = Len(q) + 1 /\ Len(q) \in Nat
    BY <2>1
  <2>3. Append(q, e) # <<>>
    BY <2>2
  <2>4. Tail(Append(q, e)) \in Seq(Entry)
    BY <2>2, <2>3
  <2> QED
    BY <2>2, <2>4 DEF Remember, e
<1>11. ASSUME NEW m \in Travelling, Dispatch(m) \/ Leave(m) PROVE CommandTypes'
  <2> DEFINE c == m.command
             s == SeatOf(c)
  <2>1. c \in Command /\ s \in Seat /\ ledger[s] \in Seq(Entry) /\ <<>> \in Seq(Entry)
    BY WhatTravels, CommandParts DEF CommandTypes
  <2>2. PICK r \in {"taken", "refused"}, q \in {ledger[s], <<>>} :
          /\ Reply(m, r) /\ ledger' = [ledger EXCEPT ![s] = Remember(q, c, r)]
          /\ phase' \in {phase, "running", "over"}
          /\ ran' = ran \/ ran' = [ran EXCEPT ![c] = @ + 1]
    <3>1. CASE Dispatch(m)
      BY <3>1 DEF Dispatch
    <3>2. CASE Leave(m)
      BY <3>2 DEF Leave
    <3> QED
      BY <1>11, <3>1, <3>2
  <2> HIDE DEF c, s
  <2>3. Remember(q, c, r) \in Seq(Entry)
    <3>1. q \in Seq(Entry) /\ r \in Result
      BY <2>1, <2>2 DEF Result
    <3> QED
      BY <1>10, <2>1, <3>1
  <2>4. ledger' \in [Seat -> Seq(Entry)]
    BY <2>1, <2>2, <2>3 DEF CommandTypes
  <2>5. ran' \in [Command -> Nat]
    <3>1. ran \in [Command -> Nat] /\ ran[c] + 1 \in Nat
      BY <2>1 DEF CommandTypes
    <3> QED
      BY <2>1, <2>2, <3>1
  <2>6. phase' \in {"running", "over"}
    BY <2>2 DEF CommandTypes
  <2> QED
    BY <1>7, <2>2, <2>4, <2>5, <2>6 DEF Result
<1>12. CASE Others
  BY <1>12 DEF Others, GameEnds, BystanderLeaves, clientVars, linkVars, historyVars, CommandTypes
<1>13. CASE UNCHANGED commandVars
  BY <1>13 DEF commandVars, serverVars, clientVars, linkVars, historyVars, CommandTypes
<1> QED
  BY <1>1, <1>2, <1>3, <1>4, <1>5, <1>6, <1>8, <1>9, <1>11, <1>12, <1>13
  DEF CommandsNext, Player, Network, Handle

LEMMA AnswerNext == AnswerInv /\ [CommandsNext]_commandVars => AnswerInv'
<1> SUFFICES ASSUME AnswerInv, [CommandsNext]_commandVars PROVE AnswerInv'
  OBVIOUS
<1>1. CommandTypes'
  BY TypesStep DEF AnswerInv
<1>2. ASSUME NEW c \in Command, Retry(c) \/ GiveUp(c) PROVE AnswerInv'
  <2>1. CanBeTried(c)
    BY <1>2 DEF Retry, GiveUp, CanBeTried
  <2>2. CASE Retry(c)
    <3>1. \A d \in Command : CanBeTried(d)' => CanBeTried(d)
      BY <2>1, <2>2, EmitAdds DEF Retry, AnswerInv
    <3> QED
      BY <1>1, <2>2, <3>1, QuietStep DEF Retry, serverVars, historyVars
  <2>3. CASE GiveUp(c)
    <3>1. Travelling' = Travelling
      BY <2>3 DEF Travelling, GiveUp, linkVars
    <3>2. \A d \in Command : CanBeTried(d)' => CanBeTried(d)
      BY <2>3, <3>1 DEF GiveUp, CanBeTried, AnswerInv, CommandTypes
    <3> QED
      BY <1>1, <2>3, <3>2, QuietStep DEF GiveUp, serverVars, historyVars
  <2> QED
    BY <1>2, <2>2, <2>3
<1>3. ASSUME UNCHANGED <<issued, aim, attempt, ledger, ran, answers>>,
             Travelling' \subseteq Travelling,
             phase' = phase \/ phase' = "over",
             left \subseteq left', left' = left \/ phase' = "over"
      PROVE  AnswerInv'
  <2>1. \A d \in Command : CanBeTried(d)' => CanBeTried(d)
    BY <1>3 DEF CanBeTried
  <2> QED
    BY <1>1, <1>3, <2>1, QuietStep
<1>4. ASSUME NEW s \in Seat, Connect(s) \/ Disconnect(s) PROVE AnswerInv'
  <2>1. wire[s] \in Seq(Message)
    BY DEF AnswerInv, CommandTypes
  <2>2. Travelling' = stale' \cup UNION {Items(wire'[t]) : t \in Seat}
    BY DEF Travelling, Items
  <2>3. CASE Connect(s)
    BY <1>3, <2>2, <2>3, TravellingIs DEF Connect, serverVars, clientVars, historyVars
  <2>4. CASE Disconnect(s)
    <3>1. stale' = stale \cup Items(wire[s]) /\ \A t \in Seat : Items(wire'[t]) \subseteq Items(wire[t])
      BY <2>4 DEF Disconnect, Items, AnswerInv, CommandTypes
    <3>2. Travelling' \subseteq Travelling
      BY <2>2, <3>1, TravellingIs
    <3> QED
      BY <1>3, <2>4, <3>2 DEF Disconnect, serverVars, clientVars, historyVars
  <2> QED
    BY <1>4, <2>3, <2>4
<1>5. ASSUME NEW m \in stale, Lose(m) PROVE AnswerInv'
  <2>1. Travelling' \subseteq Travelling
    BY <1>5 DEF Lose, Travelling
  <2> QED
    BY <1>3, <1>5, <2>1 DEF Lose, serverVars, clientVars, historyVars
<1>6. CASE Others
  <2>1. Travelling' = Travelling
    BY <1>6 DEF Others, GameEnds, BystanderLeaves, linkVars, Travelling
  <2> QED
    BY <1>3, <1>6, <2>1 DEF Others, GameEnds, BystanderLeaves, clientVars, linkVars, historyVars
<1>7. CASE UNCHANGED commandVars
  <2>1. Travelling' = Travelling
    BY <1>7 DEF commandVars, linkVars, Travelling
  <2> QED
    BY <1>3, <1>7, <2>1 DEF commandVars, serverVars, clientVars, linkVars, historyVars
<1> QED
  BY <1>1, <1>2, <1>4, <1>5, <1>6, <1>7, IssueStep, RecallStep, MissingStep,
     DispatchStep, LeaveStep DEF CommandsNext, Player, Network, Handle

(* A command takes effect at most once, however often it is sent, whatever  *)
(* is lost, late or out of order, and although the ledger forgets and is    *)
(* cleared (handleCommand of game.gateway.ts, remember of command-ledger):  *)
(* 2 * Window - 1 answers are enough to remember, for any window.           *)
THEOREM NeverTwice == CommandsSpec => []RunsOnce
<1>1. AnswerInv => RunsOnce
  BY DEF AnswerInv
<1> QED
  BY <1>1, AnswerInit, AnswerNext, PTL DEF CommandsSpec

(* And whoever has not left hears the same of a command as often as he      *)
(* asks: that it was refused, and nothing happened, or that it happened.    *)
THEOREM OneAnswer == CommandsSpec => []AnswersAgree
<1>1. AnswerInv => AnswersAgree
  <2> SUFFICES ASSUME AnswerInv, NEW c \in Command, SeatOf(c) \notin left
               PROVE  /\ Cardinality(answers[c]) <= 1
                      /\ "refused" \in answers[c] => ran[c] = 0
                      /\ "taken" \in answers[c] /\ aim[c] = "act" => ran[c] = 1
    BY DEF AnswersAgree
  <2>1. Honest(c)
    BY CommandParts DEF AnswerInv, SeatOK
  <2>2. \A r : Cardinality({r}) = 1
    BY FS_Singleton
  <2>3. Cardinality(answers[c]) \in {0, 1}
    BY <2>1, <2>2, FS_EmptySet, Zenon DEF Honest
  <2> QED
    BY <2>1, <2>3 DEF Honest
<1> QED
  BY <1>1, AnswerInit, AnswerNext, PTL DEF CommandsSpec

-----------------------------------------------------------------------------
(* Leaving.  The ledger of a seat that leaves is cleared but for the answer *)
(* to the command it left with, and from then on that answer is held as the *)
(* others were before.                                                      *)

TookLeave(c) == aim[c] = "leave" /\ "taken" \in answers[c]
OnlyLeave(c) ==
  /\ TookLeave(c)
  /\ \A d \in Command \ {c} : SeatOf(d) = SeatOf(c) => ~TookLeave(d)

LeftOK(s) ==
  /\ WellKept(s, ledger[s])
  /\ s \in left <=> \E c \in Command : SeatOf(c) = s /\ TookLeave(c)
  /\ \A c \in Command : SeatOf(c) = s /\ OnlyLeave(c) =>
        answers[c] = {"taken"} /\ (CanBeTried(c) => HeldIn(c, ledger[s]))

LeaveInv == \A s \in Seat : LeftOK(s)

LEMMA LeaveInit == CommandsInit => LeaveInv
<1> SUFFICES ASSUME CommandsInit, NEW s \in Seat PROVE LeftOK(s)
  BY DEF LeaveInv
<1>1. \A c \in Command : answers[c] = {}
  BY DEF CommandsInit
<1> QED
  BY <1>1 DEF CommandsInit, LeftOK, WellKept, TookLeave, OnlyLeave

LEMMA LedgerCommands ==
  ASSUME CommandTypes, NEW s \in Seat
  PROVE  \A i \in DOMAIN ledger[s] : ledger[s][i] \in Entry /\ ledger[s][i].command \in Command
<1>1. \A i \in DOMAIN ledger[s] : ledger[s][i] \in Entry
  BY DEF CommandTypes
<1> QED
  BY <1>1 DEF Entry

(* A step that neither answers nor forgets, nor lets a seat leave. *)
LEMMA LeaveQuiet ==
  ASSUME AnswerInv, LeaveInv, ledger' = ledger, answers' = answers,
         \A s \in Seat : s \in left' <=> s \in left,
         \A c \in Command : answers[c] # {} =>
            aim'[c] = aim[c] /\ (CanBeTried(c)' => CanBeTried(c))
  PROVE  LeaveInv'
<1> SUFFICES ASSUME NEW s \in Seat PROVE LeftOK(s)'
  BY DEF LeaveInv
<1>1. LeftOK(s)
  BY DEF LeaveInv
<1>2. \A c \in Command : TookLeave(c)' <=> TookLeave(c)
  BY DEF TookLeave
<1>3. \A c \in Command : OnlyLeave(c)' <=> OnlyLeave(c)
  BY <1>2 DEF OnlyLeave
<1>4. WellKept(s, ledger[s])'
  BY <1>1 DEF LeftOK, WellKept
<1>5. (s \in left)' <=> \E c \in Command : SeatOf(c) = s /\ TookLeave(c)'
  BY <1>1, <1>2 DEF LeftOK
<1>6. \A c \in Command : SeatOf(c) = s /\ OnlyLeave(c)' =>
        answers'[c] = {"taken"} /\ (CanBeTried(c)' => HeldIn(c, ledger'[s]))
  BY <1>1, <1>3 DEF LeftOK
<1> QED
  BY <1>4, <1>5, <1>6 DEF LeftOK, HeldIn, Near

(* A command that is handled anew is not the one its seat left with. *)
LEMMA LeftWithAnother ==
  ASSUME AnswerInv, LeaveInv, NEW m \in Travelling, Recalls(m.command) = {}
  PROVE  ~OnlyLeave(m.command)
<1> DEFINE c == m.command
           s == SeatOf(c)
<1>1. c \in Command /\ s \in Seat /\ CanBeTried(c)
  BY WhatTravels, CommandParts DEF AnswerInv
<1>2. ~HeldIn(c, ledger[s])
  BY DEF HeldIn, Recalls
<1> QED
  BY <1>1, <1>2 DEF LeaveInv, LeftOK

(* A reply that is no departure, whether it is remembered or not. *)
LEMMA LeaveReply ==
  ASSUME AnswerInv, LeaveInv, NEW m \in Travelling, Recalls(m.command) = {},
         NEW r \in Result, Reply(m, r), left' = left,
         r = "taken" => aim[m.command] # "leave",
         \/ ledger' = ledger
         \/ ledger' = [ledger EXCEPT ![SeatOf(m.command)] = Remember(@, m.command, r)]
  PROVE  LeaveInv'
<1> DEFINE c == m.command
<1>1. c \in Command /\ SeatOf(c) \in Seat /\ CanBeTried(c) /\ ~OnlyLeave(c)
  BY WhatTravels, CommandParts, LeftWithAnother DEF AnswerInv
<1>2. /\ answers' = [answers EXCEPT ![c] = @ \cup {r}] /\ aim' = aim
      /\ \A d \in Command : CanBeTried(d)' => CanBeTried(d)
  BY ReplyTakes DEF AnswerInv
<1>3. \A i \in DOMAIN ledger[SeatOf(c)] : ledger[SeatOf(c)][i].command # c
  BY DEF Recalls
<1>4. \/ ledger' = ledger
      \/ ledger' = [ledger EXCEPT ![SeatOf(c)] = Remember(@, c, r)]
  OBVIOUS
<1>5. r = "taken" => aim[c] # "leave"
  OBVIOUS
<1> HIDE DEF c
<1>6. /\ answers'[c] = answers[c] \cup {r} /\ \A d \in Command : d # c => answers'[d] = answers[d]
      /\ \A d \in Command : answers[d] \subseteq answers'[d]
  BY <1>1, <1>2 DEF AnswerInv, CommandTypes
<1>7. \A d \in Command : TookLeave(d)' <=> TookLeave(d)
  BY <1>2, <1>5, <1>6 DEF TookLeave
<1>8. \A d \in Command : OnlyLeave(d)' <=> OnlyLeave(d)
  BY <1>7 DEF OnlyLeave
<1> SUFFICES ASSUME NEW s \in Seat PROVE LeftOK(s)'
  BY DEF LeaveInv
<1> DEFINE q == ledger[s]
           n == ledger'[s]
<1>9. LeftOK(s) /\ q \in Seq(Entry)
  BY DEF LeaveInv, AnswerInv, CommandTypes
<1>10. /\ \A i \in DOMAIN n : SeatOf(n[i].command) = s /\ n[i].result \in answers'[n[i].command]
       /\ \A i, j \in DOMAIN n : n[i].command = n[j].command => i = j
       /\ \A d \in Command : SeatOf(d) = s /\ CanBeTried(d)' /\ HeldIn(d, q) => HeldIn(d, n)
  <2>1. CASE n = q
    <3>1. \A i \in DOMAIN q : SeatOf(q[i].command) = s /\ q[i].result \in answers'[q[i].command]
      BY <1>6, <1>9, LedgerCommands DEF LeftOK, WellKept, AnswerInv
    <3>2. \A i, j \in DOMAIN q : q[i].command = q[j].command => i = j
      BY <1>9 DEF LeftOK, WellKept
    <3> QED
      BY <2>1, <3>1, <3>2
  <2>2. CASE n # q
    <3>1. s = SeatOf(c) /\ n = Remember(q, c, r)
      BY <1>1, <1>4, <2>2 DEF AnswerInv, CommandTypes
    <3>2. Distinct(s, q)
      BY <1>9 DEF LeftOK, WellKept, Distinct
    <3>3. /\ n \in Seq(Entry) /\ Distinct(s, n)
          /\ Items(n) \subseteq Items(q) \cup {[command |-> c, result |-> r]}
          /\ \A d \in Command : SeatOf(d) = s /\ Near(c, d) /\ HeldIn(d, q) => HeldIn(d, n)
      BY <1>1, <1>3, <1>9, <3>1, <3>2, RememberHolds
    <3> HIDE DEF n
    <3>4. ASSUME NEW i \in DOMAIN n PROVE n[i].result \in answers'[n[i].command]
      <4>1. n[i] \in Items(n)
        BY DEF Items
      <4>2. CASE n[i] = [command |-> c, result |-> r]
        BY <1>6, <4>2
      <4>3. CASE n[i] \in Items(q)
        <5>1. PICK j \in DOMAIN q : n[i] = q[j]
          BY <4>3 DEF Items
        <5> QED
          BY <1>6, <1>9, <5>1, LedgerCommands DEF LeftOK, WellKept, AnswerInv
      <4> QED
        BY <3>3, <4>1, <4>2, <4>3
    <3>5. \A d \in Command : SeatOf(d) = s /\ CanBeTried(d)' => Near(c, d)
      BY <1>1, <1>2, <3>1 DEF AnswerInv, CloseTogether
    <3>6. /\ \A i \in DOMAIN n : SeatOf(n[i].command) = s
          /\ \A i, j \in DOMAIN n : n[i].command = n[j].command => i = j
      BY <3>3 DEF Distinct
    <3> QED
      BY <3>3, <3>4, <3>5, <3>6
  <2> QED
    BY <2>1, <2>2
<1>11. WellKept(s, ledger[s])'
  BY <1>10 DEF WellKept
<1>12. (s \in left)' <=> \E d \in Command : SeatOf(d) = s /\ TookLeave(d)'
  BY <1>7, <1>9 DEF LeftOK
<1>13. ASSUME NEW d \in Command, SeatOf(d) = s, OnlyLeave(d)'
       PROVE  answers'[d] = {"taken"} /\ (CanBeTried(d)' => HeldIn(d, n))
  <2>1. OnlyLeave(d) /\ d # c
    BY <1>1, <1>8, <1>13
  <2> QED
    BY <1>2, <1>6, <1>9, <1>10, <1>13, <2>1 DEF LeftOK
<1> QED
  BY <1>11, <1>12, <1>13 DEF LeftOK, HeldIn, Near

(* The command a seat leaves with had no answer yet, unless the seat had    *)
(* left with another.                                                       *)
LEMMA LeavesOver ==
  ASSUME AnswerInv, LeaveInv, NEW m \in Travelling, Leave(m), phase = "over"
  PROVE  LeaveInv'
<1> DEFINE c == m.command
           t == SeatOf(c)
<1>1. c \in Command /\ t \in Seat /\ CanBeTried(c)
  BY WhatTravels, CommandParts DEF AnswerInv
<1>2. /\ Recalls(c) = {} /\ aim[c] = "leave" /\ left' = left \cup {t} /\ Reply(m, "taken")
      /\ ledger' = [ledger EXCEPT ![t] = Remember(<<>>, c, "taken")]
  BY DEF Leave
<1>3. /\ answers' = [answers EXCEPT ![c] = @ \cup {"taken"}] /\ aim' = aim
      /\ \A d \in Command : CanBeTried(d)' => CanBeTried(d)
  BY <1>2, ReplyTakes DEF AnswerInv, Result
<1>4. ~OnlyLeave(c) /\ ~HeldIn(c, ledger[t])
  BY <1>2, LeftWithAnother DEF Recalls, HeldIn
<1> HIDE DEF c, t
<1>5. /\ answers'[c] = answers[c] \cup {"taken"}
      /\ \A d \in Command : d # c => answers'[d] = answers[d]
  BY <1>1, <1>3 DEF AnswerInv, CommandTypes
<1>6. TookLeave(c)' /\ \A d \in Command : d # c => (TookLeave(d)' <=> TookLeave(d))
  BY <1>2, <1>3, <1>5 DEF TookLeave
<1>7. OnlyLeave(c)' => answers'[c] = {"taken"}
  <2> SUFFICES ASSUME OnlyLeave(c)' PROVE answers'[c] = {"taken"}
    OBVIOUS
  <2>1. \A d \in Command \ {c} : SeatOf(d) = SeatOf(c) => ~TookLeave(d)
    BY <1>6 DEF OnlyLeave
  <2>2. ~TookLeave(c)
    BY <1>4, <2>1 DEF OnlyLeave
  <2>3. t \notin left
    BY <1>1, <2>1, <2>2 DEF LeaveInv, LeftOK, t
  <2>4. answers[c] = {}
    BY <1>1, <1>4, <2>3 DEF AnswerInv, SeatOK, Held, t
  <2> QED
    BY <1>5, <2>4
<1> SUFFICES ASSUME NEW s \in Seat PROVE LeftOK(s)'
  BY DEF LeaveInv
<1>8. LeftOK(s)
  BY DEF LeaveInv
<1>9. CASE s # t
  <2>1. ledger'[s] = ledger[s] /\ (s \in left' <=> s \in left)
    BY <1>2, <1>9 DEF AnswerInv, CommandTypes
  <2>2. \A d \in Command : SeatOf(d) = s => /\ d # c /\ answers'[d] = answers[d]
                                           /\ (TookLeave(d)' <=> TookLeave(d))
    BY <1>5, <1>6, <1>9 DEF t
  <2>3. \A d \in Command : SeatOf(d) = s => (OnlyLeave(d)' <=> OnlyLeave(d))
    BY <2>2 DEF OnlyLeave
  <2>4. WellKept(s, ledger[s])'
    BY <1>8, <2>1, <2>2, LedgerCommands DEF LeftOK, WellKept, AnswerInv
  <2>5. (s \in left)' <=> \E d \in Command : SeatOf(d) = s /\ TookLeave(d)'
    BY <1>8, <2>1, <2>2 DEF LeftOK
  <2>6. \A d \in Command : SeatOf(d) = s /\ OnlyLeave(d)' =>
          answers'[d] = {"taken"} /\ (CanBeTried(d)' => HeldIn(d, ledger'[s]))
    BY <1>3, <1>8, <2>1, <2>2, <2>3 DEF LeftOK
  <2> QED
    BY <2>4, <2>5, <2>6 DEF LeftOK, HeldIn, Near
<1>10. CASE s = t
  <2> DEFINE n == Remember(<<>>, c, "taken")
  <2>1. ledger'[s] = n
    BY <1>1, <1>2, <1>10 DEF AnswerInv, CommandTypes
  <2>2. n = <<[command |-> c, result |-> "taken"]>>
    BY CommandsAssumption DEF Remember
  <2>3. /\ DOMAIN n = {1} /\ n[1].command = c /\ n[1].result = "taken"
    BY <2>2
  <2> HIDE DEF n
  <2>4. WellKept(s, n)'
    BY <1>5, <1>10, <2>3 DEF WellKept, t
  <2>5. HeldIn(c, n)
    BY <2>3 DEF HeldIn
  <2>6. (s \in left)' <=> \E d \in Command : SeatOf(d) = s /\ TookLeave(d)'
    BY <1>1, <1>2, <1>6, <1>10 DEF t
  <2>7. \A d \in Command : SeatOf(d) = s /\ OnlyLeave(d)' => d = c
    BY <1>1, <1>6, <1>10 DEF OnlyLeave, t
  <2> QED
    BY <1>7, <2>1, <2>4, <2>5, <2>6, <2>7 DEF LeftOK, HeldIn, Near
<1> QED
  BY <1>9, <1>10

LEMMA LeaveNext == AnswerInv /\ LeaveInv /\ [CommandsNext]_commandVars => LeaveInv'
<1> SUFFICES ASSUME AnswerInv, LeaveInv, [CommandsNext]_commandVars PROVE LeaveInv'
  OBVIOUS
<1>1. ASSUME NEW s \in Seat, NEW what, Issue(s, what) PROVE LeaveInv'
  <2> DEFINE c == <<s, issued[s] + 1>>
  <2>1. /\ c \in Command /\ SeatOf(c) = s /\ c[2] = issued[s] + 1 /\ issued[s] \in Nat
        /\ aim' = [aim EXCEPT ![c] = what] /\ Emit(c, 1)
        /\ UNCHANGED <<left, ledger, stale, answers>>
    BY <1>1 DEF Issue, SeatOf, serverVars, historyVars, AnswerInv, CommandTypes
  <2>2. \A d \in Command : CanBeTried(d)' => d = c \/ CanBeTried(d)
    BY <2>1, EmitAdds DEF AnswerInv
  <2> HIDE DEF c
  <2>3. answers[c] = {}
    <3>1. ~(c[2] <= issued[s])
      BY <2>1
    <3> QED
      BY <2>1, <3>1 DEF AnswerInv, Sent
  <2> QED
    BY <2>1, <2>2, <2>3, LeaveQuiet DEF AnswerInv, CommandTypes
<1>2. ASSUME NEW c \in Command, Retry(c) \/ GiveUp(c) PROVE LeaveInv'
  <2>1. \A d \in Command : CanBeTried(d)' => CanBeTried(d)
    <3>1. CanBeTried(c)
      BY <1>2 DEF Retry, GiveUp, CanBeTried
    <3>2. CASE Retry(c)
      BY <3>1, <3>2, EmitAdds DEF Retry, AnswerInv
    <3>3. CASE GiveUp(c)
      <4>1. Travelling' = Travelling
        BY <3>3 DEF Travelling, GiveUp, linkVars
      <4> QED
        BY <3>3, <4>1 DEF GiveUp, CanBeTried, AnswerInv, CommandTypes
    <3> QED
      BY <1>2, <3>2, <3>3
  <2> QED
    BY <1>2, <2>1, LeaveQuiet DEF Retry, GiveUp, serverVars, historyVars
<1>3. ASSUME UNCHANGED <<aim, attempt, ledger, answers>>, Travelling' \subseteq Travelling,
             \A s \in Seat : s \in left' <=> s \in left
      PROVE  LeaveInv'
  <2>1. \A d \in Command : CanBeTried(d)' => CanBeTried(d)
    BY <1>3 DEF CanBeTried
  <2> QED
    BY <1>3, <2>1, LeaveQuiet
<1>4. ASSUME NEW s \in Seat, Connect(s) \/ Disconnect(s) PROVE LeaveInv'
  <2>1. wire[s] \in Seq(Message)
    BY DEF AnswerInv, CommandTypes
  <2>2. Travelling' = stale' \cup UNION {Items(wire'[t]) : t \in Seat}
    BY DEF Travelling, Items
  <2>3. CASE Connect(s)
    BY <1>3, <2>2, <2>3, TravellingIs DEF Connect, serverVars, clientVars, historyVars
  <2>4. CASE Disconnect(s)
    <3>1. /\ stale' = stale \cup Items(wire[s])
          /\ \A t \in Seat : Items(wire'[t]) \subseteq Items(wire[t])
      BY <2>4 DEF Disconnect, Items, AnswerInv, CommandTypes
    <3>2. Travelling' \subseteq Travelling
      BY <2>2, <3>1, TravellingIs
    <3> QED
      BY <1>3, <2>4, <3>2 DEF Disconnect, serverVars, clientVars, historyVars
  <2> QED
    BY <1>4, <2>3, <2>4
<1>5. ASSUME NEW m \in stale, Lose(m) PROVE LeaveInv'
  <2>1. Travelling' \subseteq Travelling
    BY <1>5 DEF Lose, Travelling
  <2> QED
    BY <1>3, <1>5, <2>1 DEF Lose, serverVars, clientVars, historyVars
<1>6. CASE Others
  <2>1. Travelling' = Travelling
    BY <1>6 DEF Others, GameEnds, BystanderLeaves, linkVars, Travelling
  <2>2. \A s \in Seat : s \in left' <=> s \in left
    BY <1>6, CommandsAssumption DEF Others, GameEnds, BystanderLeaves
  <2> QED
    BY <1>3, <1>6, <2>1, <2>2 DEF Others, GameEnds, BystanderLeaves, clientVars, linkVars, historyVars
<1>7. CASE UNCHANGED commandVars
  <2>1. Travelling' = Travelling
    BY <1>7 DEF commandVars, linkVars, Travelling
  <2> QED
    BY <1>3, <1>7, <2>1 DEF commandVars, serverVars, clientVars, linkVars, historyVars
<1>8. ASSUME NEW m \in Travelling, Recall(m) PROVE LeaveInv'
  <2> DEFINE c == m.command
             s == SeatOf(c)
  <2>1. PICK i \in Recalls(c) : Reply(m, ledger[s][i].result)
    BY <1>8 DEF Recall
  <2>2. UNCHANGED <<phase, left, ledger>>
    BY <1>8 DEF Recall, serverVars
  <2>3. c \in Command /\ s \in Seat
    BY WhatTravels, CommandParts DEF AnswerInv
  <2>4. i \in DOMAIN ledger[s] /\ ledger[s][i].command = c
    BY DEF Recalls
  <2>5. ledger[s][i].result \in Result /\ ledger[s][i].result \in answers[c]
    BY <2>3, <2>4, LedgerCommands DEF AnswerInv, LeaveInv, LeftOK, WellKept, Entry
  <2>6. /\ answers' = [answers EXCEPT ![c] = @ \cup {ledger[s][i].result}] /\ aim' = aim
        /\ \A d \in Command : CanBeTried(d)' => CanBeTried(d)
    BY <2>1, <2>5, ReplyTakes DEF AnswerInv
  <2>7. answers' = answers
    BY <2>3, <2>5, <2>6 DEF AnswerInv, CommandTypes
  <2> QED
    BY <2>2, <2>6, <2>7, LeaveQuiet
<1>9. ASSUME NEW m \in Travelling, Missing(m) PROVE LeaveInv'
  BY <1>9, LeaveReply DEF Missing, serverVars, Result
<1>10. ASSUME NEW m \in Travelling, Dispatch(m) PROVE LeaveInv'
  BY <1>10, LeaveReply DEF Dispatch, Result
<1>11. ASSUME NEW m \in Travelling, Leave(m) PROVE LeaveInv'
  <2>1. CASE phase = "over"
    BY <1>11, <2>1, LeavesOver
  <2>2. CASE phase # "over"
    BY <1>11, <2>2, LeaveReply DEF Leave, Result
  <2> QED
    BY <2>1, <2>2
<1> QED
  BY <1>1, <1>2, <1>4, <1>5, <1>6, <1>7, <1>8, <1>9, <1>10, <1>11
  DEF CommandsNext, Player, Network, Handle

(* A seat that asks again whether it left is told that it did, and nothing  *)
(* else, although leaving cleared its ledger (leave of game.gateway.ts),    *)
(* unless it went back on that and left once more.                          *)
THEOREM LeavingIsTold == CommandsSpec => []LeavingIsConfirmed
<1>1. LeaveInv => LeavingIsConfirmed
  <2> SUFFICES ASSUME LeaveInv, NEW c \in Command, aim[c] = "leave", "taken" \in answers[c],
                      \A d \in Command \ {c} :
                         SeatOf(d) = SeatOf(c) /\ aim[d] = "leave" => "taken" \notin answers[d]
               PROVE  answers[c] = {"taken"}
    BY DEF LeavingIsConfirmed
  <2>1. OnlyLeave(c) /\ SeatOf(c) \in Seat
    BY CommandParts DEF OnlyLeave, TookLeave
  <2> QED
    BY <2>1 DEF LeaveInv, LeftOK
<1>2. AnswerInv /\ LeaveInv /\ [CommandsNext]_commandVars => AnswerInv' /\ LeaveInv'
  BY AnswerNext, LeaveNext
<1> QED
  BY <1>1, <1>2, AnswerInit, LeaveInit, PTL DEF CommandsSpec

-----------------------------------------------------------------------------
(* The promise *)

Promise == INSTANCE CommandContract WITH over <- (phase = "over"), told <- answers

(* A command the ledger does not know was never handled, unless its seat    *)
(* left.                                                                    *)
LEMMA HandledAnew ==
  ASSUME AnswerInv, NEW m \in Travelling, Recalls(m.command) = {},
         SeatOf(m.command) \notin left
  PROVE  Promise!New(m.command)
<1> DEFINE c == m.command
           s == SeatOf(c)
<1>1. c \in Command /\ s \in Seat /\ CanBeTried(c)
  BY WhatTravels, CommandParts DEF AnswerInv
<1>2. ~HeldIn(c, ledger[s])
  BY DEF HeldIn, Recalls
<1>3. SeatOK(s)
  BY <1>1 DEF AnswerInv
<1>4. answers[c] = {} /\ Honest(c)
  BY <1>1, <1>2, <1>3 DEF SeatOK, Held
<1>5. ran[c] = 0
  BY <1>4 DEF Honest
<1> QED
  BY <1>4, <1>5 DEF Promise!New, SeatOf

(* A command that does nothing: it is refused, or the table is gone. *)
LEMMA Refuses ==
  ASSUME AnswerInv, NEW m \in Travelling, Recalls(m.command) = {},
         NEW r \in {"refused", "missing"}, r = "missing" => SeatOf(m.command) \in left,
         Reply(m, r), UNCHANGED <<phase, left, ran>>
  PROVE  Promise!ContractNext
<1> DEFINE c == m.command
<1>1. c \in Command
  BY WhatTravels DEF AnswerInv
<1>2. answers' = [answers EXCEPT ![c] = @ \cup {r}]
  BY ReplyTakes DEF AnswerInv, Result
<1>3. CASE SeatOf(c) \in left
  <2>1. Promise!Afterwards(c)
    BY <1>2, <1>3 DEF Promise!Afterwards, SeatOf
  <2> QED
    BY <1>1, <2>1 DEF Promise!ContractNext
<1>4. CASE SeatOf(c) \notin left
  <2>1. Promise!New(c) /\ r = "refused"
    BY <1>4, HandledAnew
  <2>2. answers' = [answers EXCEPT ![c] = {"refused"}]
    BY <1>2, <2>1 DEF Promise!New
  <2>3. Promise!Refuse(c)
    BY <2>1, <2>2 DEF Promise!Refuse
  <2> QED
    BY <1>1, <2>3 DEF Promise!ContractNext
<1> QED
  BY <1>3, <1>4

LEMMA DispatchKeepsItsWord ==
  ASSUME AnswerInv, NEW m \in Travelling, Dispatch(m)
  PROVE  Promise!ContractNext
<1> DEFINE c == m.command
<1>1. c \in Command /\ Recalls(c) = {} /\ left' = left
  BY WhatTravels DEF AnswerInv, Dispatch
<1>2. CASE Reply(m, "refused") /\ UNCHANGED <<phase, ran>>
  BY <1>1, <1>2, Refuses
<1>3. CASE /\ phase = "running" /\ Reply(m, "taken")
           /\ ran' = [ran EXCEPT ![c] = @ + 1] /\ phase' \in {"running", "over"}
  <2>1. Promise!New(c)
    <3>1. SeatOf(c) \notin left
      BY <1>3 DEF AnswerInv, LeftOver
    <3> QED
      BY <1>1, <3>1, HandledAnew
  <2>2. answers' = [answers EXCEPT ![c] = @ \cup {"taken"}]
    BY <1>3, ReplyTakes DEF AnswerInv, Result
  <2>3. answers' = [answers EXCEPT ![c] = {"taken"}] /\ ran' = [ran EXCEPT ![c] = 1]
    BY <1>3, <2>1, <2>2 DEF Promise!New
  <2>4. Promise!Take(c)
    BY <1>1, <1>3, <2>1, <2>3 DEF Promise!Take
  <2> QED
    BY <1>1, <2>4 DEF Promise!ContractNext
<1> QED
  BY <1>2, <1>3 DEF Dispatch

LEMMA LeaveKeepsItsWord ==
  ASSUME AnswerInv, NEW m \in Travelling, Leave(m)
  PROVE  Promise!ContractNext
<1> DEFINE c == m.command
<1>1. c \in Command /\ Recalls(c) = {} /\ UNCHANGED <<phase, ran>>
  BY WhatTravels DEF AnswerInv, Leave
<1>2. CASE phase # "over"
  BY <1>1, <1>2, Refuses DEF Leave
<1>3. CASE phase = "over"
  <2>1. left' = left \cup {c[1]} /\ Reply(m, "taken")
    BY <1>3 DEF Leave, SeatOf
  <2>2. answers' = [answers EXCEPT ![c] = @ \cup {"taken"}]
    BY <2>1, ReplyTakes DEF AnswerInv, Result
  <2>3. CASE c[1] \in left
    <3>1. left' = left
      BY <2>1, <2>3
    <3>2. Promise!Afterwards(c)
      BY <1>1, <2>2, <2>3, <3>1 DEF Promise!Afterwards
    <3> QED
      BY <1>1, <3>2 DEF Promise!ContractNext
  <2>4. CASE c[1] \notin left
    <3>1. Promise!New(c)
      BY <1>1, <2>4, HandledAnew DEF SeatOf
    <3>2. answers' = [answers EXCEPT ![c] = {"taken"}]
      BY <2>2, <3>1 DEF Promise!New
    <3>3. Promise!LetGo(c)
      BY <1>1, <1>3, <2>1, <3>1, <3>2 DEF Promise!LetGo
    <3> QED
      BY <1>1, <3>3 DEF Promise!ContractNext
  <2> QED
    BY <2>3, <2>4
<1> QED
  BY <1>2, <1>3

(* An answer from the ledger is one the seat was given before. *)
LEMMA RecallKeepsItsWord ==
  ASSUME AnswerInv, LeaveInv, NEW m \in Travelling, Recall(m)
  PROVE  UNCHANGED <<phase, left, ran, answers>>
<1> DEFINE c == m.command
           s == SeatOf(c)
<1>1. PICK i \in Recalls(c) : Reply(m, ledger[s][i].result)
  BY DEF Recall
<1>2. UNCHANGED <<phase, left, ran>>
  BY DEF Recall, serverVars
<1>3. c \in Command /\ s \in Seat
  BY WhatTravels, CommandParts DEF AnswerInv
<1>4. i \in DOMAIN ledger[s] /\ ledger[s][i].command = c
  BY DEF Recalls
<1>5. ledger[s][i].result \in Result /\ ledger[s][i].result \in answers[c]
  BY <1>3, <1>4, LedgerCommands DEF AnswerInv, LeaveInv, LeftOK, WellKept, Entry
<1>6. answers' = [answers EXCEPT ![c] = @ \cup {ledger[s][i].result}]
  BY <1>1, <1>5, ReplyTakes DEF AnswerInv
<1>7. answers' = answers
  BY <1>3, <1>5, <1>6 DEF AnswerInv, CommandTypes
<1> QED
  BY <1>2, <1>7

(* Two attempts, a ledger that forgets, connections that break and answers  *)
(* that are lost come to the promise of CommandContract: every command of a *)
(* seat that stays is taken or refused once, and the seat is told so        *)
(* (handleCommand of game.gateway.ts, command-ledger.ts).                   *)
THEOREM KeepsItsWord == CommandsSpec => Promise!ContractSpec
<1>1. CommandsInit => Promise!ContractInit
  BY DEF CommandsInit, Promise!ContractInit
<1>2. ASSUME AnswerInv, LeaveInv, [CommandsNext]_commandVars
      PROVE  [Promise!ContractNext]_(Promise!contractVars)
  <2>1. ASSUME UNCHANGED <<phase, left, ran, answers>>
        PROVE  [Promise!ContractNext]_(Promise!contractVars)
    BY <2>1 DEF Promise!contractVars
  <2>2. CASE Player
    BY <2>1, <2>2 DEF Player, Issue, Retry, GiveUp, serverVars, historyVars
  <2>3. CASE Network
    BY <2>1, <2>3 DEF Network, Connect, Disconnect, Lose, serverVars, historyVars
  <2>4. ASSUME NEW m \in Travelling, Recall(m)
        PROVE  [Promise!ContractNext]_(Promise!contractVars)
    BY <1>2, <2>1, <2>4, RecallKeepsItsWord
  <2>5. ASSUME NEW m \in Travelling, Missing(m) PROVE Promise!ContractNext
    <3>1. /\ Recalls(m.command) = {} /\ Reply(m, "missing")
          /\ Gone /\ UNCHANGED <<phase, left, ran>>
      BY <2>5 DEF Missing, serverVars
    <3>2. SeatOf(m.command) \in left
      BY <1>2, <2>5, <3>1, WhatTravels, CommandParts DEF AnswerInv, Gone
    <3> QED
      BY <1>2, <2>5, <3>1, <3>2, Refuses
  <2>6. ASSUME NEW m \in Travelling, Dispatch(m) \/ Leave(m) PROVE Promise!ContractNext
    BY <1>2, <2>6, DispatchKeepsItsWord, LeaveKeepsItsWord
  <2>7. CASE GameEnds
    <3>1. Promise!End
      BY <2>7 DEF GameEnds, historyVars, Promise!End
    <3> QED
      BY <3>1 DEF Promise!ContractNext
  <2>8. ASSUME NEW s \in Bystander, BystanderLeaves(s) PROVE Promise!ContractNext
    <3>1. Promise!GoAway(s)
      BY <2>8 DEF BystanderLeaves, historyVars, Promise!GoAway
    <3> QED
      BY <3>1 DEF Promise!ContractNext
  <2>9. CASE UNCHANGED commandVars
    BY <2>1, <2>9 DEF commandVars, serverVars, historyVars
  <2> QED
    BY <1>2, <2>2, <2>3, <2>4, <2>5, <2>6, <2>7, <2>8, <2>9 DEF CommandsNext, Handle, Others
<1>3. AnswerInv /\ LeaveInv /\ [CommandsNext]_commandVars => AnswerInv' /\ LeaveInv'
  BY AnswerNext, LeaveNext
<1> QED
  BY <1>1, <1>2, <1>3, AnswerInit, LeaveInit, PTL DEF CommandsSpec, Promise!ContractSpec
=============================================================================
