------------------------- MODULE BullFightingCards -------------------------
(***************************************************************************)
(* The hands of the bull-fighting game: card_helper.lua and                *)
(* bull_fighting_card_helper.lua.  A card is a byte, its suit in the high  *)
(* nibble and its number in the low one; a hand has five.                  *)
(***************************************************************************)
EXTENDS Integers

\* The shuffler's cards, without the two jokers.
Deck == {16 * suit + number : suit \in 0..3, number \in 1..13}

\* bit.band(nCard, 0x08) > 0 and bit.band(nCard, 0x06) > 0
IsTenPointCard(card) == (card \div 8) % 2 = 1 /\ (card % 8) \div 2 > 0

GetPoint(card) == IF IsTenPointCard(card) THEN 10 ELSE card % 16

Triples == {t \in (1..5) \X (1..5) \X (1..5) : t[1] < t[2] /\ t[2] < t[3]}

PointsAt(hand, t) == GetPoint(hand[t[1]]) + GetPoint(hand[t[2]]) + GetPoint(hand[t[3]])

Points(hand) == PointsAt(hand, <<1, 2, 3>>) + GetPoint(hand[4]) + GetPoint(hand[5])

\* The places of three cards that make a multiple of ten.
BullTriples(hand) == {t \in Triples : PointsAt(hand, t) % 10 = 0}

IsBull(hand) == BullTriples(hand) # {}

\* What the other two cards make: 1..9, 10 for a multiple of ten, 0 without a bull.
BullPoint(hand) ==
    LET rest == (Points(hand) - PointsAt(hand, CHOOSE t \in BullTriples(hand) : TRUE)) % 10
    IN  IF ~IsBull(hand) THEN 0 ELSE IF rest = 0 THEN 10 ELSE rest

MaxCard(hand) == CHOOSE c \in {hand[i] : i \in 1..5} : \A i \in 1..5 : c >= hand[i]

\* CompareCard: whether the first hand wins.
FormerWins(hand1, hand2) ==
    IF IsBull(hand1) = IsBull(hand2)
    THEN IF IsBull(hand1) /\ BullPoint(hand1) # BullPoint(hand2)
         THEN BullPoint(hand1) > BullPoint(hand2)
         ELSE MaxCard(hand1) > MaxCard(hand2)
    ELSE IsBull(hand1)
-----------------------------------------------------------------------------
\* The game's order of hands, without the choice of three cards: a hand with a
\* bull counts what all its cards make, and the highest card decides a draw.
Rank(hand) ==
    LET three == \E i, j, k \in 1..5 :
                    /\ i < j /\ j < k
                    /\ (GetPoint(hand[i]) + GetPoint(hand[j]) + GetPoint(hand[k])) % 10 = 0
        all   == Points(hand) % 10
    IN  IF ~three THEN 0 ELSE IF all = 0 THEN 10 ELSE all

Outranks(hand1, hand2) ==
    \/ Rank(hand1) > Rank(hand2)
    \/ /\ Rank(hand1) = Rank(hand2)
       /\ \E i \in 1..5 : \A j \in 1..5 : hand1[i] > hand2[j]
=============================================================================
