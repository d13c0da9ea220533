---------------------------- MODULE MCRoomTable ----------------------------
(***************************************************************************)
(* An instance of RoomTable for TLC, and the comparison of hands against   *)
(* the game's order on hands that have every kind of bull.                 *)
(***************************************************************************)
EXTENDS RoomTable

\* A card is 16 times its suit and its number.  The dealer's hand first.
NoBull   == <<1, 18, 4, 56, 24>>    \* 1 2 4 8 8
BullOne  == <<10, 27, 44, 5, 22>>   \* 10 11 12 5 6
BullTen  == <<13, 29, 45, 61, 26>>  \* 13 13 13 13 10
BullNine == <<2, 3, 53, 20, 37>>    \* 2 3 5 4 5
NoBullHi == <<17, 34, 52, 40, 60>>  \* 1 2 4 8 12
Hands    == {NoBull, BullOne, BullTen, BullNine, NoBullHi}

\* The first and second positions beat the dealer and the last two do not.
MCDeals == {<<BullOne, BullTen, BullNine, NoBullHi, NoBull>>}

\* Every hand of the tens, the fives and a few low cards of two suits.
SmallDeck == {1, 2, 5, 6, 7, 10, 13, 18, 21, 25, 26}
SmallHands == {h \in [1..5 -> SmallDeck] : \A i \in 1..4 : h[i] < h[i + 1]}

\* GetBullPoint does not depend on which three cards it finds first, and a hand
\* wins exactly when it comes before the other in the game's order.
ASSUME PointsAreRanks == \A h \in SmallHands : BullPoint(h) = Rank(h)
ASSUME WinnersOutrank ==
    \A a \in SmallHands \cup Hands, b \in Hands : FormerWins(a, b) <=> Outranks(a, b)
=============================================================================
