------------------------- MODULE BullFightingProofs -------------------------
(***************************************************************************)
(* That the code compares hands as the game does, whichever three cards it *)
(* finds first, and that of two hands without a common card one wins.      *)
(***************************************************************************)
EXTENDS BullFightingCards, TLAPS

Hands == [1..5 -> Deck]

LEMMA CardIsNat == Deck \subseteq Nat
  BY DEF Deck

LEMMA PointIsNat ==
    ASSUME NEW card \in Deck
    PROVE  GetPoint(card) \in Nat
<1>1. card \in Nat
  BY CardIsNat
<1>2. card % 16 \in Nat
  BY <1>1
<1> QED BY <1>2 DEF GetPoint

\* The points of three cards, of all, and of the two that are left.
LEMMA PointsAreNat ==
    ASSUME NEW hand \in Hands
    PROVE  /\ Points(hand) \in Nat
           /\ \A t \in Triples : PointsAt(hand, t) \in Nat
<1> DEFINE p(i) == GetPoint(hand[i])
<1>1. \A i \in 1..5 : p(i) \in Nat
  BY PointIsNat DEF Hands
<1>2. \A i, j, k \in 1..5 : p(i) + p(j) + p(k) \in Nat
  <2> HIDE DEF p
  <2> QED BY <1>1
<1>3. \A t \in Triples : t[1] \in 1..5 /\ t[2] \in 1..5 /\ t[3] \in 1..5
  BY DEF Triples
<1>4. \A t \in Triples : PointsAt(hand, t) \in Nat
  BY <1>2, <1>3 DEF PointsAt
<1>5. Points(hand) = p(1) + p(2) + p(3) + p(4) + p(5)
  BY DEF Points, PointsAt
<1>6. Points(hand) \in Nat
  <2> HIDE DEF p
  <2>1. p(1) \in Nat /\ p(2) \in Nat /\ p(3) \in Nat /\ p(4) \in Nat /\ p(5) \in Nat
    BY <1>1
  <2> QED BY <1>5, <2>1
<1> QED BY <1>4, <1>6

\* Some three cards make a bull for the code when they do for the game.
LEMMA BullsAgree ==
    ASSUME NEW hand \in Hands
    PROVE  IsBull(hand) <=>
             \E i, j, k \in 1..5 :
               /\ i < j /\ j < k
               /\ (GetPoint(hand[i]) + GetPoint(hand[j]) + GetPoint(hand[k])) % 10 = 0
<1>1. ASSUME IsBull(hand)
      PROVE  \E i, j, k \in 1..5 :
               /\ i < j /\ j < k
               /\ (GetPoint(hand[i]) + GetPoint(hand[j]) + GetPoint(hand[k])) % 10 = 0
  <2> PICK t \in Triples : PointsAt(hand, t) % 10 = 0
    BY <1>1 DEF IsBull, BullTriples
  <2>1. t[1] \in 1..5 /\ t[2] \in 1..5 /\ t[3] \in 1..5 /\ t[1] < t[2] /\ t[2] < t[3]
    BY DEF Triples
  <2> QED BY <2>1, Zenon DEF PointsAt
<1>2. ASSUME NEW i \in 1..5, NEW j \in 1..5, NEW k \in 1..5, i < j, j < k,
             (GetPoint(hand[i]) + GetPoint(hand[j]) + GetPoint(hand[k])) % 10 = 0
      PROVE  IsBull(hand)
  <2>1. <<i, j, k>> \in Triples
    BY <1>2 DEF Triples
  <2>2. PointsAt(hand, <<i, j, k>>) % 10 = 0
    BY <1>2 DEF PointsAt
  <2> QED BY <2>1, <2>2 DEF IsBull, BullTriples
<1> QED BY <1>1, <1>2

\* What the other two cards make does not depend on the three.
LEMMA RestIsRank ==
    ASSUME NEW hand \in Hands
    PROVE  /\ BullPoint(hand) = Rank(hand) /\ Rank(hand) \in 0..10
           /\ IsBull(hand) <=> Rank(hand) # 0
<1> PICK n \in Nat : n = Points(hand)
  BY PointsAreNat
<1>1. n % 10 \in 0..9
  OBVIOUS
<1>2. Rank(hand) = IF ~IsBull(hand) THEN 0 ELSE IF n % 10 = 0 THEN 10 ELSE n % 10
  BY BullsAgree, Zenon DEF Rank
<1>3. CASE IsBull(hand)
  <2> PICK t : t = CHOOSE x \in BullTriples(hand) : TRUE
    OBVIOUS
  <2>1. t \in BullTriples(hand)
    BY <1>3 DEF IsBull
  <2>2. t \in Triples /\ PointsAt(hand, t) % 10 = 0
    BY <2>1 DEF BullTriples
  <2> PICK m \in Nat : m = PointsAt(hand, t)
    BY <2>2, PointsAreNat
  <2>3. m % 10 = 0 => (n - m) % 10 = n % 10
    OBVIOUS
  <2>4. BullPoint(hand) = IF n % 10 = 0 THEN 10 ELSE n % 10
    BY <1>3, <2>2, <2>3 DEF BullPoint
  <2> QED BY <1>1, <1>2, <1>3, <2>4
<1>4. CASE ~IsBull(hand)
  BY <1>2, <1>4 DEF BullPoint
<1> QED BY <1>3, <1>4

\* The highest card is one of the hand, and none is higher.
LEMMA MaxCardIs ==
    ASSUME NEW hand \in Hands
    PROVE  \E i \in 1..5 : MaxCard(hand) = hand[i] /\ \A j \in 1..5 : hand[i] >= hand[j]
<1>1. \A i \in 1..5 : hand[i] \in Nat
  BY CardIsNat DEF Hands
<1>2. \E i \in 1..5 : \A j \in 1..5 : hand[i] >= hand[j]
  <2> PICK a, b, c, d, e : /\ a = hand[1] /\ b = hand[2] /\ c = hand[3]
                           /\ d = hand[4] /\ e = hand[5]
    OBVIOUS
  <2>1. a \in Nat /\ b \in Nat /\ c \in Nat /\ d \in Nat /\ e \in Nat
    BY <1>1
  <2>2. \E m \in {a, b, c, d, e} : m >= a /\ m >= b /\ m >= c /\ m >= d /\ m >= e
    BY <2>1
  <2>3. \A j \in 1..5 : j \in {1, 2, 3, 4, 5}
    OBVIOUS
  <2> PICK m \in {a, b, c, d, e} : m >= a /\ m >= b /\ m >= c /\ m >= d /\ m >= e
    BY <2>2
  <2>4. \A j \in 1..5 : m >= hand[j]
    BY <2>3
  <2>5. \E i \in 1..5 : m = hand[i]
    OBVIOUS
  <2> QED BY <2>4, <2>5
<1> PICK i \in 1..5 : \A j \in 1..5 : hand[i] >= hand[j]
  BY <1>2
<1> DEFINE Q(c) == \A j \in 1..5 : c >= hand[j]
<1>3. hand[i] \in {hand[x] : x \in 1..5} /\ Q(hand[i])
  OBVIOUS
<1>4. MaxCard(hand) = CHOOSE c \in {hand[x] : x \in 1..5} : Q(c)
  BY DEF MaxCard
<1> HIDE DEF Q
<1>5. MaxCard(hand) \in {hand[x] : x \in 1..5} /\ Q(MaxCard(hand))
  BY <1>3, <1>4, Zenon
<1> QED BY <1>5 DEF Q

LEMMA MaxCardsCompare ==
    ASSUME NEW hand1 \in Hands, NEW hand2 \in Hands
    PROVE  MaxCard(hand1) > MaxCard(hand2) <=>
             \E i \in 1..5 : \A j \in 1..5 : hand1[i] > hand2[j]
<1>1. \A i \in 1..5 : hand1[i] \in Nat /\ hand2[i] \in Nat
  BY CardIsNat DEF Hands
<1> PICK a \in 1..5 : MaxCard(hand1) = hand1[a] /\ \A j \in 1..5 : hand1[a] >= hand1[j]
  BY MaxCardIs
<1> PICK b \in 1..5 : MaxCard(hand2) = hand2[b] /\ \A j \in 1..5 : hand2[b] >= hand2[j]
  BY MaxCardIs
<1>2. ASSUME hand1[a] > hand2[b]
      PROVE  \A j \in 1..5 : hand1[a] > hand2[j]
  BY <1>1, <1>2
<1>3. ASSUME NEW i \in 1..5, \A j \in 1..5 : hand1[i] > hand2[j]
      PROVE  hand1[a] > hand2[b]
  <2>1. hand1[i] > hand2[b] /\ hand1[a] >= hand1[i]
    BY <1>3
  <2> QED BY <1>1, <2>1
<1> QED BY <1>2, <1>3

\* CompareCard decides as the game does, for any two hands: what is left of a
\* hand with a bull counts the same whichever three cards IsBull finds first.
THEOREM HandsAreCompared ==
    \A hand1, hand2 \in Hands : FormerWins(hand1, hand2) <=> Outranks(hand1, hand2)
<1> SUFFICES ASSUME NEW hand1 \in Hands, NEW hand2 \in Hands
             PROVE  FormerWins(hand1, hand2) <=> Outranks(hand1, hand2)
  OBVIOUS
<1> PICK r1, r2 : r1 = Rank(hand1) /\ r2 = Rank(hand2)
  OBVIOUS
<1>1. /\ BullPoint(hand1) = r1 /\ BullPoint(hand2) = r2 /\ r1 \in 0..10 /\ r2 \in 0..10
      /\ IsBull(hand1) <=> r1 # 0
      /\ IsBull(hand2) <=> r2 # 0
  BY RestIsRank
<1>2. Outranks(hand1, hand2) <=> r1 > r2 \/ (r1 = r2 /\ MaxCard(hand1) > MaxCard(hand2))
  BY MaxCardsCompare, Zenon DEF Outranks
<1>3. FormerWins(hand1, hand2) <=>
        IF (r1 # 0) = (r2 # 0)
        THEN IF r1 # 0 /\ r1 # r2 THEN r1 > r2 ELSE MaxCard(hand1) > MaxCard(hand2)
        ELSE r1 # 0
  <2>1. IsBull(hand1) = (r1 # 0) /\ IsBull(hand2) = (r2 # 0)
    BY <1>1 DEF IsBull
  <2> QED BY <1>1, <2>1, Zenon DEF FormerWins
<1> QED BY <1>1, <1>2, <1>3

\* Two hands of one deal never tie: the shuffler deals no card twice, and of two
\* hands without a common card CompareCard lets exactly one win.
THEOREM OneHandWins ==
    ASSUME NEW hand1 \in Hands, NEW hand2 \in Hands,
           \A i, j \in 1..5 : hand1[i] # hand2[j]
    PROVE  FormerWins(hand1, hand2) <=> ~FormerWins(hand2, hand1)
<1> PICK r1, r2, m1, m2 : /\ r1 = Rank(hand1) /\ m1 = MaxCard(hand1)
                          /\ r2 = Rank(hand2) /\ m2 = MaxCard(hand2)
  OBVIOUS
<1>1. r1 \in 0..10 /\ r2 \in 0..10
  BY RestIsRank
<1>2. m1 \in Nat /\ m2 \in Nat /\ m1 # m2
  <2> PICK i \in 1..5 : m1 = hand1[i]
    BY MaxCardIs
  <2> PICK j \in 1..5 : m2 = hand2[j]
    BY MaxCardIs
  <2>1. hand1[i] \in Nat /\ hand2[j] \in Nat
    BY CardIsNat DEF Hands
  <2> QED BY <2>1
<1>3. Outranks(hand1, hand2) <=> r1 > r2 \/ (r1 = r2 /\ m1 > m2)
  BY MaxCardsCompare, Zenon DEF Outranks
<1>4. Outranks(hand2, hand1) <=> r2 > r1 \/ (r2 = r1 /\ m2 > m1)
  BY MaxCardsCompare, Zenon DEF Outranks
<1>5. Outranks(hand1, hand2) <=> ~Outranks(hand2, hand1)
  BY <1>1, <1>2, <1>3, <1>4
<1> QED BY <1>5, HandsAreCompared
=============================================================================
