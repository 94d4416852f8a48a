----------------------------- MODULE LobbyProofs -----------------------------
(***************************************************************************)
(* Theorems about Lobby, for any accounts, any bounds on the seats of a    *)
(* table and any number of starts: that it keeps LobbyContract is the last. *)
(***************************************************************************)
EXTENDS Lobby, Induction, SequenceTheorems, FiniteSetTheorems

-----------------------------------------------------------------------------
(* The ready list without some accounts.  Without is defined by recursion   *)
(* along the list; what it returns is shown by a least counterexample.      *)

(* g says, for each prefix of the list up to n, what is kept of it. *)
Keeps(g, list, X, n) ==
    g = [i \in 0 .. n |-> IF i = 0 THEN <<>>
                          ELSE IF list[i] \in X THEN g[i - 1]
                          ELSE Append(g[i - 1], list[i])]

LEMMA KeepsExists ==
    ASSUME NEW list, NEW X
    PROVE  \A n \in Nat : \E g : Keeps(g, list, X, n)
<1> DEFINE Bad == {n \in Nat : ~ \E g : Keeps(g, list, X, n)}
<1> SUFFICES ASSUME Bad # {} PROVE FALSE
  OBVIOUS
<1>1. PICK n \in Bad : \A y \in Bad : ~(y < n)
  BY LeastElement
<1> HIDE DEF Bad
<1>2. n \in Nat /\ ~ \E g : Keeps(g, list, X, n)
  BY DEF Bad
<1>3. CASE n = 0
  <2> DEFINE g == [i \in 0 .. 0 |-> <<>>]
  <2>1. Keeps(g, list, X, 0)
    BY DEF Keeps
  <2> QED
    BY <2>1, <1>2, <1>3
<1>4. CASE n # 0
  <2>1. n - 1 \in Nat /\ n - 1 \notin Bad
    BY <1>1, <1>2, <1>4
  <2>2. PICK g : Keeps(g, list, X, n - 1)
    BY <2>1 DEF Bad
  <2> DEFINE last == IF list[n] \in X THEN g[n - 1] ELSE Append(g[n - 1], list[n])
             h == [i \in 0 .. n |-> IF i = n THEN last ELSE g[i]]
  <2>3. ASSUME NEW i \in 0 .. n
        PROVE  h[i] = IF i = 0 THEN <<>>
                      ELSE IF list[i] \in X THEN h[i - 1]
                      ELSE Append(h[i - 1], list[i])
    <3>1. \A j \in 0 .. n - 1 :
             g[j] = IF j = 0 THEN <<>>
                    ELSE IF list[j] \in X THEN g[j - 1]
                    ELSE Append(g[j - 1], list[j])
      BY <2>1, <2>2 DEF Keeps
    <3>2. CASE i = n
      <4>1. i # 0 /\ i - 1 \in 0 .. n /\ h[i - 1] = g[n - 1]
        BY <1>2, <1>4, <2>1, <3>2
      <4>2. h[i] = last
        BY <3>2
      <4> HIDE DEF h
      <4> QED
        BY <3>2, <4>1, <4>2
    <3>3. CASE i # n
      <4>1. i \in 0 .. n - 1 /\ h[i] = g[i]
        BY <1>2, <3>3
      <4>2. i # 0 => h[i - 1] = g[i - 1]
        BY <1>2, <3>3
      <4> HIDE DEF h
      <4> QED
        BY <3>1, <4>1, <4>2
    <3> QED
      BY <3>2, <3>3
  <2>4. Keeps(h, list, X, n)
    BY <2>3 DEF Keeps
  <2> QED
    BY <2>4, <1>2
<1> QED
  BY <1>3, <1>4

LEMMA WithoutIsKept ==
    ASSUME NEW S, NEW list \in Seq(S), NEW X
    PROVE  \E g : /\ Without(list, X) = g[Len(list)]
                  /\ g[0] = <<>>
                  /\ \A i \in 1 .. Len(list) :
                       g[i] = IF list[i] \in X THEN g[i - 1]
                              ELSE Append(g[i - 1], list[i])
<1> DEFINE g == CHOOSE g : Keeps(g, list, X, Len(list))
<1>1. Keeps(g, list, X, Len(list))
  BY KeepsExists
<1>2. Without(list, X) = g[Len(list)]
  BY DEF Without, Keeps
<1> HIDE DEF g
<1>3. \A i \in 0 .. Len(list) :
         g[i] = IF i = 0 THEN <<>>
                ELSE IF list[i] \in X THEN g[i - 1]
                ELSE Append(g[i - 1], list[i])
  BY <1>1 DEF Keeps
<1> QED
  BY <1>2, <1>3

(* What is left is a list of what was there and is not removed. *)
LEMMA WithoutElements ==
    ASSUME NEW S, NEW list \in Seq(S), NEW X
    PROVE  /\ Without(list, X) \in Seq(S)
           /\ ToSet(Without(list, X)) \subseteq ToSet(list) \ X
<1>1. PICK g : /\ Without(list, X) = g[Len(list)]
               /\ g[0] = <<>>
               /\ \A i \in 1 .. Len(list) :
                    g[i] = IF list[i] \in X THEN g[i - 1]
                           ELSE Append(g[i - 1], list[i])
  BY WithoutIsKept
<1> DEFINE Good(i) == /\ g[i] \in Seq(S)
                      /\ \A j \in 1 .. Len(g[i]) : g[i][j] \in ToSet(list) \ X
           Bad == {i \in 0 .. Len(list) : ~Good(i)}
<1>2. ASSUME Bad # {} PROVE FALSE
  <2>1. Bad \in SUBSET Nat
    OBVIOUS
  <2>2. PICK n \in Bad : \A y \in Bad : ~(y < n)
    BY <1>2, <2>1, LeastElement
  <2>3. n \in 0 .. Len(list) /\ ~Good(n)
    OBVIOUS
  <2>4. Good(0)
    BY <1>1
  <2>5. n # 0
    BY <2>3, <2>4
  <2>6. n - 1 \in 0 .. Len(list) /\ Good(n - 1)
    BY <2>2, <2>3, <2>5
  <2>7. g[n] = IF list[n] \in X THEN g[n - 1] ELSE Append(g[n - 1], list[n])
    BY <1>1, <2>3, <2>5
  <2>8. list[n] \in S /\ list[n] \in ToSet(list)
    BY <2>3, <2>5 DEF ToSet
  <2>9. CASE list[n] \in X
    BY <2>3, <2>6, <2>7, <2>9
  <2>10. CASE list[n] \notin X
    BY <2>3, <2>6, <2>7, <2>8, <2>10, AppendProperties
  <2> QED
    BY <2>9, <2>10
<1>3. Good(Len(list))
  BY <1>2
<1> QED
  BY <1>1, <1>3 DEF ToSet

Distinct(list) == \A i, j \in DOMAIN list : list[i] = list[j] => i = j

(* A list that names nobody twice is left naming nobody twice. *)
LEMMA WithoutDistinct ==
    ASSUME NEW S, NEW list \in Seq(S), NEW X, Distinct(list)
    PROVE  Distinct(Without(list, X))
<1>1. PICK g : /\ Without(list, X) = g[Len(list)]
               /\ g[0] = <<>>
               /\ \A i \in 1 .. Len(list) :
                    g[i] = IF list[i] \in X THEN g[i - 1]
                           ELSE Append(g[i - 1], list[i])
  BY WithoutIsKept
<1> DEFINE FromPrefix(i) == \A j \in 1 .. Len(g[i]) : \E m \in 1 .. i : g[i][j] = list[m]
           Good(i) == g[i] \in Seq(S) /\ FromPrefix(i) /\ Distinct(g[i])
           Bad == {i \in 0 .. Len(list) : ~Good(i)}
<1>2. ASSUME Bad # {} PROVE FALSE
  <2>1. Bad \in SUBSET Nat
    OBVIOUS
  <2>2. PICK n \in Bad : \A y \in Bad : ~(y < n)
    BY <1>2, <2>1, LeastElement
  <2>3. n \in 0 .. Len(list) /\ ~Good(n)
    OBVIOUS
  <2>4. Good(0)
    BY <1>1 DEF Distinct
  <2>5. n # 0
    BY <2>3, <2>4
  <2>6. n - 1 \in 0 .. Len(list) /\ Good(n - 1)
    BY <2>2, <2>3, <2>5
  <2>7. g[n] = IF list[n] \in X THEN g[n - 1] ELSE Append(g[n - 1], list[n])
    BY <1>1, <2>3, <2>5
  <2>8. n \in 1 .. Len(list) /\ list[n] \in S
    BY <2>3, <2>5
  <2>9. CASE list[n] \in X
    BY <2>3, <2>6, <2>7, <2>8, <2>9
  <2>10. CASE list[n] \notin X
    <3>1. /\ g[n] \in Seq(S)
          /\ Len(g[n]) = Len(g[n - 1]) + 1
          /\ \A j \in 1 .. Len(g[n - 1]) : g[n][j] = g[n - 1][j]
          /\ g[n][Len(g[n])] = list[n]
      BY <2>6, <2>7, <2>8, <2>10, AppendProperties
    <3>2. FromPrefix(n)
      <4> SUFFICES ASSUME NEW j \in 1 .. Len(g[n])
                   PROVE  \E m \in 1 .. n : g[n][j] = list[m]
        OBVIOUS
      <4>1. CASE j = Len(g[n])
        BY <2>8, <3>1, <4>1
      <4>2. CASE j # Len(g[n])
        <5>1. Len(g[n - 1]) \in Nat
          BY <2>6
        <5>2. j \in 1 .. Len(g[n - 1])
          BY <3>1, <4>2, <5>1
        <5>3. PICK m \in 1 .. n - 1 : g[n - 1][j] = list[m]
          BY <2>6, <5>2
        <5>4. m \in 1 .. n /\ g[n][j] = list[m]
          BY <2>8, <3>1, <5>2, <5>3
        <5> QED
          BY <5>4
      <4> QED
        BY <4>1, <4>2
    <3>3. \A j \in 1 .. Len(g[n - 1]) : g[n][j] # list[n]
      <4>1. \A m \in 1 .. n - 1 : list[m] # list[n]
        BY <2>8 DEF Distinct
      <4> QED
        BY <2>6, <3>1, <4>1
    <3>4. Distinct(g[n])
      <4> SUFFICES ASSUME NEW i \in 1 .. Len(g[n]), NEW j \in 1 .. Len(g[n]),
                          g[n][i] = g[n][j]
                   PROVE  i = j
        <5>1. DOMAIN g[n] = 1 .. Len(g[n])
          BY <3>1
        <5> QED
          BY <5>1 DEF Distinct
      <4> DEFINE l == Len(g[n - 1])
      <4>1. l \in Nat /\ Len(g[n]) = l + 1
        BY <2>6, <3>1
      <4>2. i \in 1 .. l \/ i = l + 1
        BY <4>1
      <4>3. j \in 1 .. l \/ j = l + 1
        BY <4>1
      <4>4. \A m \in 1 .. l : g[n][m] # list[n] /\ g[n][m] = g[n - 1][m]
        BY <3>1, <3>3
      <4>5. g[n][l + 1] = list[n]
        BY <3>1
      <4>6. CASE i \in 1 .. l /\ j \in 1 .. l
        <5>1. g[n - 1][i] = g[n - 1][j]
          BY <4>4, <4>6
        <5>2. DOMAIN g[n - 1] = 1 .. l
          BY <2>6
        <5>3. Distinct(g[n - 1])
          BY <2>6
        <5> QED
          BY <4>6, <5>1, <5>2, <5>3 DEF Distinct
      <4>7. CASE i = l + 1 \/ j = l + 1
        BY <4>2, <4>3, <4>4, <4>5, <4>7
      <4> QED
        BY <4>2, <4>3, <4>6, <4>7
    <3> QED
      BY <2>3, <3>1, <3>2, <3>4
  <2> QED
    BY <2>9, <2>10
<1>3. Good(Len(list))
  BY <1>2
<1> QED
  BY <1>1, <1>3

(* What is left is no longer than the list, and no longer than k when all   *)
(* from the k-th on are removed.                                            *)
LEMMA WithoutLength ==
    ASSUME NEW S, NEW list \in Seq(S), NEW X
    PROVE  Len(Without(list, X)) <= Len(list)
<1>1. PICK g : /\ Without(list, X) = g[Len(list)]
               /\ g[0] = <<>>
               /\ \A i \in 1 .. Len(list) :
                    g[i] = IF list[i] \in X THEN g[i - 1]
                           ELSE Append(g[i - 1], list[i])
  BY WithoutIsKept
<1> DEFINE Good(i) == g[i] \in Seq(S) /\ Len(g[i]) <= i
           Bad == {i \in 0 .. Len(list) : ~Good(i)}
<1>2. ASSUME Bad # {} PROVE FALSE
  <2>1. Bad \in SUBSET Nat
    OBVIOUS
  <2>2. PICK n \in Bad : \A y \in Bad : ~(y < n)
    BY <1>2, <2>1, LeastElement
  <2>3. n \in 0 .. Len(list) /\ ~Good(n)
    OBVIOUS
  <2>4. Good(0)
    BY <1>1
  <2>5. n \in 1 .. Len(list) /\ n - 1 \in 0 .. Len(list) /\ Good(n - 1)
    BY <2>2, <2>3, <2>4
  <2>6. list[n] \in S
    BY <2>5
  <2>7. /\ Append(g[n - 1], list[n]) \in Seq(S)
        /\ Len(Append(g[n - 1], list[n])) = Len(g[n - 1]) + 1
    BY <2>5, <2>6, AppendProperties
  <2>8. g[n] = IF list[n] \in X THEN g[n - 1] ELSE Append(g[n - 1], list[n])
    BY <1>1, <2>5
  <2>9. Len(g[n - 1]) \in Nat
    BY <2>5
  <2>10. Good(n)
    BY <2>5, <2>7, <2>8, <2>9
  <2> QED
    BY <2>3, <2>10
<1>3. Good(Len(list))
  BY <1>2
<1> QED
  BY <1>1, <1>3

LEMMA TrimmedLength ==
    ASSUME NEW S, NEW list \in Seq(S), NEW k \in Nat
    PROVE  Len(Without(list, ToSet(SubSeq(list, k + 1, Len(list))))) <= k
<1> DEFINE X == ToSet(SubSeq(list, k + 1, Len(list)))
<1>1. \A i \in k + 1 .. Len(list) : list[i] \in X
  <2> SUFFICES ASSUME NEW i \in k + 1 .. Len(list) PROVE list[i] \in X
    OBVIOUS
  <2>1. /\ Len(SubSeq(list, k + 1, Len(list))) = Len(list) - k
        /\ SubSeq(list, k + 1, Len(list))[i - k] = list[i]
        /\ SubSeq(list, k + 1, Len(list)) \in Seq(S)
    BY SubSeqProperties
  <2>2. i - k \in DOMAIN SubSeq(list, k + 1, Len(list))
    BY <2>1
  <2> QED
    BY <2>1, <2>2 DEF ToSet
<1> HIDE DEF X
<1>2. PICK g : /\ Without(list, X) = g[Len(list)]
               /\ g[0] = <<>>
               /\ \A i \in 1 .. Len(list) :
                    g[i] = IF list[i] \in X THEN g[i - 1]
                           ELSE Append(g[i - 1], list[i])
  BY WithoutIsKept
<1> DEFINE Good(i) == g[i] \in Seq(S) /\ Len(g[i]) <= i /\ Len(g[i]) <= k
           Bad == {i \in 0 .. Len(list) : ~Good(i)}
<1>3. ASSUME Bad # {} PROVE FALSE
  <2>1. Bad \in SUBSET Nat
    OBVIOUS
  <2>2. PICK n \in Bad : \A y \in Bad : ~(y < n)
    BY <1>3, <2>1, LeastElement
  <2>3. n \in 0 .. Len(list) /\ ~Good(n)
    OBVIOUS
  <2>4. Good(0)
    BY <1>2
  <2>5. n \in 1 .. Len(list) /\ n - 1 \in 0 .. Len(list) /\ Good(n - 1)
    BY <2>2, <2>3, <2>4
  <2>6. list[n] \in S
    BY <2>5
  <2>7. CASE n <= k
    <3>1. /\ Append(g[n - 1], list[n]) \in Seq(S)
          /\ Len(Append(g[n - 1], list[n])) = Len(g[n - 1]) + 1
      BY <2>5, <2>6, AppendProperties
    <3>2. g[n] = IF list[n] \in X THEN g[n - 1] ELSE Append(g[n - 1], list[n])
      BY <1>2, <2>5
    <3>3. Len(g[n - 1]) \in Nat
      BY <2>5
    <3>4. Good(n)
      BY <2>5, <2>7, <3>1, <3>2, <3>3
    <3> QED
      BY <2>3, <3>4
  <2>8. CASE ~(n <= k)
    BY <1>1, <1>2, <2>3, <2>5, <2>8
  <2> QED
    BY <2>7, <2>8
<1>4. Good(Len(list))
  BY <1>3
<1> QED
  BY <1>2, <1>4 DEF X

-----------------------------------------------------------------------------
(* The inductive invariant.  StartingIsFree needs that the flag is down     *)
(* only when no call is out and that there is never more than one: else     *)
(* the answer to one call would put the group of another into a game.       *)

OneCall ==
    /\ ~gameStartInProgress => starting = {}
    /\ \A c, d \in starting : c = d

IInv == LobbyTypeOK /\ OneCall /\ ReadyIsFree /\ StartingIsFree /\ ReadyFitsTable

LEMMA InitIInv == LobbyInit => IInv
<1> SUFFICES ASSUME LobbyInit PROVE IInv
  OBVIOUS
<1> USE DEF LobbyInit
<1>1. LobbyTypeOK
  <2>1. seats \in MinSeats .. MaxSeats /\ calls \in 0 .. MaxStarts
    BY LobbyAssumption
  <2>2. assigned \in [Account -> Game \cup {NoGame}]
    OBVIOUS
  <2>3. ready \in Seq(Account)
    BY EmptySeq
  <2>5. gameStartInProgress \in BOOLEAN
    OBVIOUS
  <2>4. starting \subseteq [game : Game, group : SUBSET Account]
    OBVIOUS
  <2> QED
    BY <2>1, <2>2, <2>3, <2>4, <2>5 DEF LobbyTypeOK
<1>2. ToSet(ready) = {}
  BY DEF ToSet
<1>3. ReadyIsFree /\ OneCall /\ StartingIsFree
  BY <1>2 DEF ReadyIsFree, OneCall, StartingIsFree
<1>4. ReadyFitsTable
  BY LobbyAssumption DEF ReadyFitsTable
<1> QED
  BY <1>1, <1>3, <1>4 DEF IInv

(* Taking accounts off the list keeps it a list of free accounts that fits. *)
LEMMA TakingOff ==
    ASSUME IInv, NEW X, ready' = Without(ready, X), seats' = seats
    PROVE  /\ ready' \in Seq(Account)
           /\ ToSet(ready') \subseteq ToSet(ready) \ X
           /\ ReadyFitsTable'
<1>1. ready \in Seq(Account) /\ seats \in Int /\ Len(ready) <= seats
  BY LobbyAssumption DEF IInv, LobbyTypeOK, ReadyFitsTable
<1>2. Without(ready, X) \in Seq(Account) /\ ToSet(ready') \subseteq ToSet(ready) \ X
  BY <1>1, WithoutElements
<1>3. Distinct(ready)
  BY DEF IInv, ReadyFitsTable, Distinct
<1>4. Distinct(ready')
  BY <1>1, <1>3, WithoutDistinct
<1>5. Len(ready') <= Len(ready)
  BY <1>1, WithoutLength
<1>6. Len(ready') \in Nat /\ Len(ready) \in Nat
  BY <1>1, <1>2
<1>7. Len(ready') <= seats'
  BY <1>1, <1>5, <1>6
<1> QED
  BY <1>2, <1>4, <1>7 DEF ReadyFitsTable, Distinct

LEMMA ReadyStep ==
    ASSUME IInv, NEW a \in Account, Ready(a)
    PROVE  IInv'
<1> USE DEF Ready
<1>1. /\ ready \in Seq(Account) /\ seats \in Int
      /\ Len(ready) < seats
  BY LobbyAssumption DEF IInv, LobbyTypeOK
<1>2. /\ ready' \in Seq(Account)
      /\ Len(ready') = Len(ready) + 1
      /\ \A i \in 1 .. Len(ready) : ready'[i] = ready[i]
      /\ ready'[Len(ready')] = a
  BY <1>1, AppendProperties
<1>3. Len(ready) \in Nat /\ DOMAIN ready = 1 .. Len(ready) /\ DOMAIN ready' = 1 .. Len(ready')
  BY <1>1, <1>2
<1>4. LobbyTypeOK'
  BY <1>2 DEF IInv, LobbyTypeOK
<1>5. ToSet(ready') \subseteq ToSet(ready) \cup {a}
  BY <1>2, <1>3 DEF ToSet
<1>6. ReadyIsFree'
  BY <1>5 DEF IInv, ReadyIsFree
<1>7. OneCall' /\ StartingIsFree'
  BY DEF IInv, OneCall, StartingIsFree
<1>8. \A i \in 1 .. Len(ready) : ready[i] # a
  BY <1>3 DEF ToSet
<1>9. ReadyFitsTable'
  <2>1. Len(ready') <= seats'
    BY <1>1, <1>2, <1>3
  <2>2. ASSUME NEW i \in DOMAIN ready', NEW j \in DOMAIN ready', ready'[i] = ready'[j]
        PROVE  i = j
    <3>1. i \in 1 .. Len(ready) \/ i = Len(ready')
      BY <1>2, <1>3
    <3>2. j \in 1 .. Len(ready) \/ j = Len(ready')
      BY <1>2, <1>3
    <3>3. \A k, l \in 1 .. Len(ready) : ready[k] = ready[l] => k = l
      BY <1>3 DEF IInv, ReadyFitsTable
    <3> QED
      BY <1>2, <1>8, <2>2, <3>1, <3>2, <3>3
  <2> QED
    BY <2>1, <2>2 DEF ReadyFitsTable
<1> QED
  BY <1>4, <1>6, <1>7, <1>9 DEF IInv

LEMMA UnreadyStep ==
    ASSUME IInv, NEW a \in Account, Unready(a)
    PROVE  IInv'
<1> USE DEF Unready
<1>1. /\ ready' \in Seq(Account)
      /\ ToSet(ready') \subseteq ToSet(ready)
      /\ ReadyFitsTable'
  BY TakingOff
<1>2. LobbyTypeOK'
  BY <1>1 DEF IInv, LobbyTypeOK
<1>3. ReadyIsFree' /\ OneCall' /\ StartingIsFree'
  BY <1>1 DEF IInv, ReadyIsFree, OneCall, StartingIsFree
<1> QED
  BY <1>1, <1>2, <1>3 DEF IInv

LEMMA SettingsStep ==
    ASSUME IInv, NEW a \in Account, NEW n \in MinSeats .. MaxSeats, UpdateSettings(a, n)
    PROVE  IInv'
<1> USE DEF UpdateSettings
<1> DEFINE X == ToSet(SubSeq(ready, n + 1, Len(ready)))
<1>1. ready \in Seq(Account) /\ n \in Nat
  BY LobbyAssumption DEF IInv, LobbyTypeOK
<1>2. Distinct(ready)
  BY DEF IInv, ReadyFitsTable, Distinct
<1>3. Len(ready') <= n
  BY <1>1, TrimmedLength
<1> HIDE DEF X
<1>4. ready' = Without(ready, X)
  BY DEF X
<1>5. ready' \in Seq(Account) /\ ToSet(ready') \subseteq ToSet(ready)
  BY <1>1, <1>4, WithoutElements
<1>6. Distinct(ready')
  BY <1>1, <1>2, <1>4, WithoutDistinct
<1>7. ReadyFitsTable'
  BY <1>3, <1>6 DEF ReadyFitsTable, Distinct
<1>8. LobbyTypeOK'
  BY <1>5 DEF IInv, LobbyTypeOK
<1>9. ReadyIsFree' /\ OneCall' /\ StartingIsFree'
  BY <1>5 DEF IInv, ReadyIsFree, OneCall, StartingIsFree
<1> QED
  BY <1>7, <1>8, <1>9 DEF IInv

LEMMA StartStep ==
    ASSUME IInv, NEW a \in Account, StartGame(a)
    PROVE  IInv'
<1> USE DEF StartGame
<1> DEFINE c == [game |-> calls + 1, group |-> ToSet(ready)]
<1>1. starting = {} /\ starting' = {c}
  BY DEF IInv, OneCall
<1>2. calls + 1 \in Game /\ calls' \in 0 .. MaxStarts
  BY LobbyAssumption DEF IInv, LobbyTypeOK, Game
<1>3. ToSet(ready) \subseteq Account
  BY DEF IInv, LobbyTypeOK, ToSet
<1>4. LobbyTypeOK'
  BY <1>1, <1>2, <1>3 DEF IInv, LobbyTypeOK
<1>5. OneCall'
  BY <1>1 DEF OneCall
<1>6. StartingIsFree'
  BY <1>1 DEF StartingIsFree
<1>7. ReadyIsFree' /\ ReadyFitsTable'
  BY DEF IInv, ReadyIsFree, ReadyFitsTable
<1> QED
  BY <1>4, <1>5, <1>6, <1>7 DEF IInv

LEMMA AcceptedStep ==
    ASSUME IInv, NEW c \in starting, GameAccepted(c)
    PROVE  IInv'
<1> USE DEF GameAccepted
<1>1. \A a \in c.group : assigned[a] = NoGame
  BY DEF IInv, StartingIsFree
<1>2. /\ assigned' = [a \in Account |-> IF a \in c.group THEN c.game ELSE assigned[a]]
      /\ ready' = Without(ready, c.group)
      /\ seats' = seats
  BY <1>1
<1>3. /\ ready' \in Seq(Account)
      /\ ToSet(ready') \subseteq ToSet(ready) \ c.group
      /\ ReadyFitsTable'
  BY <1>2, TakingOff
<1>4. starting' = {}
  BY DEF IInv, OneCall
<1>5. c.game \in Game
  BY DEF IInv, LobbyTypeOK
<1>6. LobbyTypeOK'
  BY <1>2, <1>3, <1>4, <1>5 DEF IInv, LobbyTypeOK
<1>7. ToSet(ready') \subseteq Account
  BY <1>3 DEF ToSet
<1>8. ReadyIsFree'
  BY <1>2, <1>3, <1>7 DEF IInv, ReadyIsFree
<1>9. OneCall' /\ StartingIsFree'
  BY <1>4 DEF OneCall, StartingIsFree
<1> QED
  BY <1>3, <1>6, <1>8, <1>9 DEF IInv

LEMMA FailsStep ==
    ASSUME IInv, NEW c \in starting, StartFails(c)
    PROVE  IInv'
<1> USE DEF StartFails
<1>1. starting' = {}
  BY DEF IInv, OneCall
<1>2. LobbyTypeOK'
  BY <1>1 DEF IInv, LobbyTypeOK
<1>3. OneCall' /\ StartingIsFree'
  BY <1>1 DEF OneCall, StartingIsFree
<1>4. ReadyIsFree' /\ ReadyFitsTable'
  BY DEF IInv, ReadyIsFree, ReadyFitsTable
<1> QED
  BY <1>2, <1>3, <1>4 DEF IInv

LEMMA CompleteStep ==
    ASSUME IInv, NEW g, CompleteGame(g)
    PROVE  IInv'
<1> USE DEF CompleteGame
<1>1. \A a \in Account : assigned'[a] \in {assigned[a], NoGame}
  OBVIOUS
<1>2. LobbyTypeOK'
  BY DEF IInv, LobbyTypeOK
<1>3. ToSet(ready) \subseteq Account
  BY DEF IInv, LobbyTypeOK, ToSet
<1>4. ReadyIsFree'
  BY <1>1, <1>3 DEF IInv, ReadyIsFree
<1>5. \A c \in starting : c.group \subseteq Account
  BY DEF IInv, LobbyTypeOK
<1>6. StartingIsFree'
  BY <1>1, <1>5 DEF IInv, StartingIsFree
<1>7. OneCall' /\ ReadyFitsTable'
  BY DEF IInv, OneCall, ReadyFitsTable
<1> QED
  BY <1>2, <1>4, <1>6, <1>7 DEF IInv

LEMMA RestartStep == ASSUME IInv, RestartLobby PROVE IInv'
<1> USE DEF RestartLobby
<1>1. LobbyTypeOK'
  <2>1. ready' \in Seq(Account) /\ seats' \in MinSeats .. MaxSeats
    BY EmptySeq, LobbyAssumption
  <2>2. calls' \in 0 .. MaxStarts
    BY DEF IInv, LobbyTypeOK
  <2> QED
    BY <2>1, <2>2 DEF LobbyTypeOK
<1>2. OneCall' /\ StartingIsFree'
  BY DEF OneCall, StartingIsFree
<1>3. ToSet(ready') = {} /\ Len(ready') = 0
  BY DEF ToSet
<1>4. ReadyIsFree'
  BY <1>3 DEF ReadyIsFree
<1>5. ReadyFitsTable'
  BY <1>3, LobbyAssumption DEF ReadyFitsTable
<1> QED
  BY <1>1, <1>2, <1>4, <1>5 DEF IInv

LEMMA NextIInv == IInv /\ [LobbyNext]_lobbyVars => IInv'
<1> SUFFICES ASSUME IInv, [LobbyNext]_lobbyVars PROVE IInv'
  OBVIOUS
<1>1. CASE Request
  BY <1>1, ReadyStep, UnreadyStep, SettingsStep, StartStep DEF Request
<1>2. CASE Answer
  BY <1>2, AcceptedStep, FailsStep DEF Answer
<1>3. CASE Completion
  BY <1>3, CompleteStep DEF Completion
<1>4. CASE UNCHANGED lobbyVars
  BY <1>4 DEF IInv, LobbyTypeOK, OneCall, ReadyIsFree, StartingIsFree,
              ReadyFitsTable, lobbyVars
<1> QED
  BY <1>1, <1>2, <1>3, <1>4, RestartStep DEF LobbyNext

LEMMA AlwaysIInv == LobbySpec => []IInv
<1> QED
  BY InitIInv, NextIInv, PTL DEF LobbySpec

-----------------------------------------------------------------------------
(* Every variable keeps its type, over any number of starts. *)
THEOREM LobbyTypeCorrect == LobbySpec => []LobbyTypeOK
<1>1. IInv => LobbyTypeOK
  BY DEF IInv
<1> QED
  BY <1>1, AlwaysIInv, PTL

(* No account waits for a game while it is in one (ready, startGame and     *)
(* completeGame of lobby.service.ts), however requests and the answer of    *)
(* the game server interleave.                                              *)
THEOREM ReadyStaysFree == LobbySpec => []ReadyIsFree
<1>1. IInv => ReadyIsFree
  BY DEF IInv
<1> QED
  BY <1>1, AlwaysIInv, PTL

(* The ready list never outgrows the table and names nobody twice, whatever *)
(* the host sets and when (ready and updateSettings).                       *)
THEOREM ReadyAlwaysFits == LobbySpec => []ReadyFitsTable
<1>1. IInv => ReadyFitsTable
  BY DEF IInv
<1> QED
  BY <1>1, AlwaysIInv, PTL

(* The group of a start that is out is in no game until it is answered, so  *)
(* the assignment store takes every group the game server has accepted.     *)
THEOREM StartingStaysFree == LobbySpec => []StartingIsFree
<1>1. IInv => StartingIsFree
  BY DEF IInv
<1> QED
  BY <1>1, AlwaysIInv, PTL

-----------------------------------------------------------------------------
(* Lobby implements LobbyContract. *)

(* Nothing but the removed accounts goes from the list. *)
LEMMA WithoutKeepsOthers ==
    ASSUME NEW S, NEW list \in Seq(S), NEW X
    PROVE  ToSet(Without(list, X)) = ToSet(list) \ X
<1>1. PICK g : /\ Without(list, X) = g[Len(list)]
               /\ g[0] = <<>>
               /\ \A i \in 1 .. Len(list) :
                    g[i] = IF list[i] \in X THEN g[i - 1]
                           ELSE Append(g[i - 1], list[i])
  BY WithoutIsKept
<1> DEFINE Keeps1(i) == \A m \in 1 .. i : list[m] \notin X =>
                          \E j \in 1 .. Len(g[i]) : g[i][j] = list[m]
           Good(i) == g[i] \in Seq(S) /\ Keeps1(i)
           Bad == {i \in 0 .. Len(list) : ~Good(i)}
<1>2. ASSUME Bad # {} PROVE FALSE
  <2>1. Bad \in SUBSET Nat
    OBVIOUS
  <2>2. PICK n \in Bad : \A y \in Bad : ~(y < n)
    BY <1>2, <2>1, LeastElement
  <2>3. n \in 0 .. Len(list) /\ ~Good(n)
    OBVIOUS
  <2>4. Good(0)
    BY <1>1
  <2>5. n \in 1 .. Len(list) /\ n - 1 \in 0 .. Len(list) /\ Good(n - 1)
    BY <2>2, <2>3, <2>4
  <2>6. list[n] \in S
    BY <2>5
  <2>7. g[n] = IF list[n] \in X THEN g[n - 1] ELSE Append(g[n - 1], list[n])
    BY <1>1, <2>5
  <2> HIDE DEF Bad
  <2>8. \A m \in 1 .. n : m \in 1 .. n - 1 \/ m = n
    BY <2>5
  <2>9. CASE list[n] \in X
    <3>1. Keeps1(n)
      BY <2>5, <2>7, <2>8, <2>9
    <3> QED
      BY <2>3, <2>5, <2>7, <2>9, <3>1
  <2>10. CASE list[n] \notin X
    <3>1. /\ g[n] \in Seq(S)
          /\ Len(g[n]) = Len(g[n - 1]) + 1
          /\ \A j \in 1 .. Len(g[n - 1]) : g[n][j] = g[n - 1][j]
          /\ g[n][Len(g[n])] = list[n]
      BY <2>5, <2>6, <2>7, <2>10, AppendProperties
    <3>2. Len(g[n - 1]) \in Nat
      BY <2>5
    <3>3. Keeps1(n)
      <4> SUFFICES ASSUME NEW m \in 1 .. n, list[m] \notin X
                   PROVE  \E j \in 1 .. Len(g[n]) : g[n][j] = list[m]
        OBVIOUS
      <4>1. CASE m = n
        BY <3>1, <3>2, <4>1
      <4>2. CASE m \in 1 .. n - 1
        <5>1. PICK j \in 1 .. Len(g[n - 1]) : g[n - 1][j] = list[m]
          BY <2>5, <4>2
        <5>2. j \in 1 .. Len(g[n]) /\ g[n][j] = list[m]
          BY <3>1, <3>2, <5>1
        <5> QED
          BY <5>2
      <4> QED
        BY <2>8, <4>1, <4>2
    <3> QED
      BY <2>3, <3>1, <3>3
  <2> QED
    BY <2>9, <2>10
<1>3. Good(Len(list))
  BY <1>2
<1>4. ToSet(list) \ X \subseteq ToSet(Without(list, X))
  BY <1>1, <1>3 DEF ToSet
<1> QED
  BY <1>4, WithoutElements

(* A list that names nobody twice has as many members as places. *)
LEMMA DistinctCardinality ==
    ASSUME NEW S, NEW list \in Seq(S), Distinct(list)
    PROVE  IsFiniteSet(ToSet(list)) /\ Cardinality(ToSet(list)) = Len(list)
<1>1. Len(list) \in Nat /\ DOMAIN list = 1 .. Len(list)
  OBVIOUS
<1>2. IsFiniteSet(1 .. Len(list)) /\ Cardinality(1 .. Len(list)) = Len(list)
  BY <1>1, FS_Interval
<1>3. list \in Surjection(1 .. Len(list), ToSet(list))
  BY <1>1 DEF Surjection, ToSet
<1>4. list \in Injection(1 .. Len(list), ToSet(list))
  BY <1>1 DEF Injection, IsInjective, ToSet, Distinct
<1> QED
  BY <1>2, <1>3, <1>4, FS_Surjection

-----------------------------------------------------------------------------
(* The invariant the refinement needs beyond IInv: a group on its way has   *)
(* the size of a table, and its game is the one of a call.                  *)
GoodGroups ==
    \A c \in starting : /\ c.game \in 1 .. calls
                        /\ Cardinality(c.group) \in MinSeats .. MaxSeats

LEMMA ReadySize ==
    ASSUME IInv
    PROVE  /\ Cardinality(ToSet(ready)) = Len(ready)
           /\ Len(ready) \in Nat
           /\ Len(ready) <= seats
           /\ ToSet(ready) \subseteq Account
<1>1. ready \in Seq(Account) /\ Distinct(ready)
  BY DEF IInv, LobbyTypeOK, ReadyFitsTable, Distinct
<1>2. ToSet(ready) \subseteq Account
  BY <1>1 DEF ToSet
<1> QED
  BY <1>1, <1>2, DistinctCardinality DEF IInv, ReadyFitsTable

LEMMA NextGoodGroups ==
    IInv /\ GoodGroups /\ [LobbyNext]_lobbyVars => GoodGroups'
<1> SUFFICES ASSUME IInv, GoodGroups, [LobbyNext]_lobbyVars PROVE GoodGroups'
  OBVIOUS
<1>1. calls \in Nat /\ seats \in MinSeats .. MaxSeats
  BY LobbyAssumption DEF IInv, LobbyTypeOK
<1>2. ASSUME NEW a \in Account, StartGame(a) PROVE GoodGroups'
  <2>1. calls' = calls + 1
    BY <1>2 DEF StartGame
  <2>2. Cardinality(ToSet(ready)) \in MinSeats .. MaxSeats
    BY <1>1, <1>2, ReadySize, LobbyAssumption DEF StartGame
  <2>3. starting' = {[game |-> calls + 1, group |-> ToSet(ready)]}
    BY <1>2 DEF StartGame, IInv, OneCall
  <2>4. calls + 1 \in 1 .. calls'
    BY <1>1, <2>1
  <2> QED
    BY <2>2, <2>3, <2>4 DEF GoodGroups
<1>3. ASSUME starting' \subseteq starting, calls' = calls PROVE GoodGroups'
  BY <1>3 DEF GoodGroups
<1>4. CASE Request
  BY <1>2, <1>3, <1>4 DEF Request, Ready, Unready, UpdateSettings
<1>5. CASE Answer
  BY <1>3, <1>5 DEF Answer, GameAccepted, StartFails
<1>6. CASE Completion
  BY <1>3, <1>6 DEF Completion, CompleteGame
<1>7. CASE RestartLobby
  BY <1>3, <1>7 DEF RestartLobby
<1>8. CASE UNCHANGED lobbyVars
  BY <1>3, <1>8 DEF lobbyVars
<1> QED
  BY <1>4, <1>5, <1>6, <1>7, <1>8 DEF LobbyNext

-----------------------------------------------------------------------------
(* The refinement mapping, step by step. *)

Dealt == (1 .. calls) \ {c.game : c \in starting}

LEMMA SameCardinality ==
    ASSUME NEW S
    PROVE  Promise!Cardinality(S) = Cardinality(S)
  BY DEF Cardinality, Promise!Cardinality, IsFiniteSet, Promise!IsFiniteSet

LEMMA InitRefines == LobbyInit => Promise!ContractInit
<1> SUFFICES ASSUME LobbyInit PROVE Promise!ContractInit
  OBVIOUS
<1>1. ToSet(ready) = {}
  BY DEF LobbyInit, ToSet
<1>2. Dealt = {}
  BY DEF LobbyInit, Dealt
<1> QED
  BY <1>1, <1>2 DEF LobbyInit, Promise!ContractInit, Dealt

(* Sitting down is a contract step of one account. *)
LEMMA ReadyRefines ==
    ASSUME IInv, NEW a \in Account, Ready(a)
    PROVE  Promise!SitDown(a)
<1>1. ready \in Seq(Account) /\ seats \in Int /\ seats <= MaxSeats
  BY LobbyAssumption DEF IInv, LobbyTypeOK
<1>2. /\ Len(ready') = Len(ready) + 1
      /\ ready' \in Seq(Account)
      /\ \A i \in 1 .. Len(ready) : ready'[i] = ready[i]
      /\ ready'[Len(ready')] = a
  BY <1>1, AppendProperties DEF Ready
<1>3. /\ Len(ready) \in Nat
      /\ DOMAIN ready = 1 .. Len(ready)
      /\ DOMAIN ready' = 1 .. Len(ready')
  BY <1>1, <1>2
<1>4. ToSet(ready)' = ToSet(ready) \cup {a}
  <2>1. ToSet(ready') \subseteq ToSet(ready) \cup {a}
    BY <1>2, <1>3 DEF ToSet
  <2>2. a \in ToSet(ready')
    BY <1>2, <1>3 DEF ToSet
  <2>3. ToSet(ready) \subseteq ToSet(ready')
    BY <1>2, <1>3 DEF ToSet
  <2> QED
    BY <2>1, <2>2, <2>3
<1>5. Cardinality(ToSet(ready)) < MaxSeats
  BY <1>1, <1>3, ReadySize, LobbyAssumption DEF Ready
<1>6. Dealt' = Dealt
  BY DEF Ready, Dealt
<1> QED
  BY <1>4, <1>5, <1>6, SameCardinality DEF Ready, Promise!SitDown, Dealt

(* Leaving the list, asked for or not, is standing up. *)
LEMMA TakenOffRefines ==
    ASSUME IInv, NEW X, ready' = Without(ready, X),
           UNCHANGED <<assigned, starting, calls>>
    PROVE  [Promise!ContractNext]_(Promise!contractVars)
<1>1. ToSet(ready)' = ToSet(ready) \ X
  BY WithoutKeepsOthers DEF IInv, LobbyTypeOK
<1>2. Dealt' = Dealt
  BY DEF Dealt
<1>3. CASE ToSet(ready) \cap X = {}
  BY <1>1, <1>2, <1>3 DEF Promise!contractVars, Dealt
<1>4. CASE ToSet(ready) \cap X # {}
  <2> DEFINE gone == ToSet(ready) \cap X
  <2>1. gone \in SUBSET ToSet(ready) /\ gone # {} /\ ToSet(ready)' = ToSet(ready) \ gone
    BY <1>1, <1>4
  <2> HIDE DEF gone
  <2>2. \E S \in SUBSET ToSet(ready) : S # {} /\ ToSet(ready)' = ToSet(ready) \ S
    BY <2>1
  <2>3. Promise!StandUp
    BY <1>2, <2>2 DEF Promise!StandUp, Dealt
  <2> QED
    BY <2>3 DEF Promise!ContractNext
<1> QED
  BY <1>3, <1>4

(* A start that is on its way is not seen in the contract. *)
LEMMA StartRefines ==
    ASSUME IInv, NEW a \in Account, StartGame(a)
    PROVE  UNCHANGED Promise!contractVars
<1>1. starting = {} /\ starting' = {[game |-> calls + 1, group |-> ToSet(ready)]}
  BY DEF StartGame, IInv, OneCall
<1>2. calls \in Nat /\ calls' = calls + 1
  BY DEF StartGame, IInv, LobbyTypeOK
<1>3. Dealt = 1 .. calls
  BY <1>1 DEF Dealt
<1>4. {c.game : c \in starting'} = {calls + 1}
  BY <1>1
<1>5. Dealt' = (1 .. calls + 1) \ {calls + 1}
  BY <1>2, <1>4, Zenon DEF Dealt
<1>6. Dealt' = 1 .. calls
  BY <1>2, <1>5
<1> QED
  BY <1>3, <1>6 DEF StartGame, Promise!contractVars, Dealt

(* What the answer to the only call does to the ids. *)
LEMMA AnswerDeals ==
    ASSUME IInv, GoodGroups, NEW c \in starting,
           starting' = starting \ {c}, calls' = calls
    PROVE  c.game \notin Dealt /\ Dealt' = Dealt \cup {c.game}
<1>1. starting = {c} /\ starting' = {}
  BY DEF IInv, OneCall
<1>2. {d.game : d \in starting} = {c.game}
  BY <1>1
<1>3. c.game \in 1 .. calls
  BY DEF GoodGroups
<1>4. Dealt = (1 .. calls) \ {c.game}
  BY <1>2 DEF Dealt
<1>5. Dealt' = 1 .. calls
  BY <1>1 DEF Dealt
<1> QED
  BY <1>3, <1>4, <1>5

(* The answer that accepts begins the game for the whole group. *)
LEMMA AcceptedRefines ==
    ASSUME IInv, GoodGroups, NEW c \in starting, GameAccepted(c)
    PROVE  \E group \in SUBSET Account, g \in Game : Promise!Begin(group, g)
<1>1. \A a \in c.group : assigned[a] = NoGame
  BY DEF IInv, StartingIsFree
<1>2. /\ assigned' = [a \in Account |-> IF a \in c.group THEN c.game ELSE assigned[a]]
      /\ ready' = Without(ready, c.group)
  BY <1>1 DEF GameAccepted
<1>3. ToSet(ready)' = ToSet(ready) \ c.group
  BY <1>2, WithoutKeepsOthers DEF IInv, LobbyTypeOK
<1>4. c.game \notin Dealt /\ Dealt' = Dealt \cup {c.game}
  BY AnswerDeals DEF GameAccepted
<1>5. c.group \in SUBSET Account /\ c.game \in Game
  BY DEF IInv, LobbyTypeOK
<1>6. Promise!Begin(c.group, c.game)
  BY <1>1, <1>2, <1>3, <1>4, SameCardinality DEF Promise!Begin, GoodGroups, Dealt
<1> QED
  BY <1>5, <1>6

(* The call that fails uses up its id. *)
LEMMA FailsRefines ==
    ASSUME IInv, GoodGroups, NEW c \in starting, StartFails(c)
    PROVE  \E g \in Game : Promise!Waste(g)
<1>1. c.game \notin Dealt /\ Dealt' = Dealt \cup {c.game}
  BY AnswerDeals DEF StartFails
<1>2. c.game \in Game
  BY DEF IInv, LobbyTypeOK
<1>3. Promise!Waste(c.game)
  BY <1>1 DEF StartFails, Promise!Waste, Dealt
<1> QED
  BY <1>2, <1>3

(* A restart uses up the ids of the starts that were out. *)
LEMMA RestartRefines ==
    ASSUME IInv, GoodGroups, RestartLobby
    PROVE  Promise!Forget
<1>1. ToSet(ready') = {}
  BY DEF RestartLobby, ToSet
<1>2. Dealt' = Dealt \cup {c.game : c \in starting}
  BY DEF RestartLobby, Dealt, GoodGroups
<1>3. {c.game : c \in starting} \in SUBSET Game
  BY DEF IInv, LobbyTypeOK
<1> QED
  BY <1>1, <1>2, <1>3 DEF RestartLobby, Promise!Forget, Dealt

LEMMA NextRefines ==
    IInv /\ GoodGroups /\ [LobbyNext]_lobbyVars
      => [Promise!ContractNext]_(Promise!contractVars)
<1> SUFFICES ASSUME IInv, GoodGroups, [LobbyNext]_lobbyVars
             PROVE  [Promise!ContractNext]_(Promise!contractVars)
  OBVIOUS
<1>1. ASSUME NEW a \in Account, Ready(a)
      PROVE  [Promise!ContractNext]_(Promise!contractVars)
  BY <1>1, ReadyRefines DEF Promise!ContractNext
<1>2. ASSUME NEW a \in Account, Unready(a)
      PROVE  [Promise!ContractNext]_(Promise!contractVars)
  BY <1>2, TakenOffRefines DEF Unready
<1>3. ASSUME NEW a \in Account, NEW n \in MinSeats .. MaxSeats, UpdateSettings(a, n)
      PROVE  [Promise!ContractNext]_(Promise!contractVars)
  BY <1>3, TakenOffRefines DEF UpdateSettings
<1>4. ASSUME NEW a \in Account, StartGame(a)
      PROVE  [Promise!ContractNext]_(Promise!contractVars)
  BY <1>4, StartRefines
<1>5. ASSUME NEW c \in starting, GameAccepted(c)
      PROVE  [Promise!ContractNext]_(Promise!contractVars)
  BY <1>5, AcceptedRefines DEF Promise!ContractNext
<1>6. ASSUME NEW c \in starting, StartFails(c)
      PROVE  [Promise!ContractNext]_(Promise!contractVars)
  BY <1>6, FailsRefines DEF Promise!ContractNext
<1>7. ASSUME NEW g \in 1 .. calls, CompleteGame(g)
      PROVE  [Promise!ContractNext]_(Promise!contractVars)
  <2>1. g \in Game
    BY <1>7, LobbyAssumption DEF IInv, LobbyTypeOK, Game
  <2>2. Promise!End(g)
    BY <1>7 DEF CompleteGame, Promise!End
  <2> QED
    BY <2>1, <2>2 DEF Promise!ContractNext
<1>8. CASE RestartLobby
  BY <1>8, RestartRefines DEF Promise!ContractNext
<1>9. CASE UNCHANGED lobbyVars
  BY <1>9 DEF lobbyVars, Promise!contractVars
<1> QED
  BY <1>1, <1>2, <1>3, <1>4, <1>5, <1>6, <1>7, <1>8, <1>9
     DEF LobbyNext, Request, Answer, Completion

(* The lobby keeps its contract: an account sits down only while it is in   *)
(* no game, a game takes a whole group of free accounts of the size of a    *)
(* table under a fresh id, and ends for all of them at once.                *)
THEOREM LobbyKeepsContract == LobbySpec => Contract
<1>1. LobbyInit => GoodGroups
  BY DEF LobbyInit, GoodGroups
<1>2. LobbySpec => [](IInv /\ GoodGroups)
  BY <1>1, InitIInv, NextIInv, NextGoodGroups, PTL DEF LobbySpec
<1> QED
  BY <1>2, InitRefines, NextRefines, PTL DEF LobbySpec, Contract, Promise!ContractSpec
=============================================================================
