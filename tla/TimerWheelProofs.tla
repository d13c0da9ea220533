-------------------------- MODULE TimerWheelProofs --------------------------
(***************************************************************************)
(* Theorems about TimerWheel: its types, the map that remove_timer looks   *)
(* timers up in, and that it implements PendingTimers.                     *)
(*                                                                         *)
(* The argument counts the slots every wheel has passed since the start.   *)
(* The counts are the digits of the frame in a mixed radix, where a wheel  *)
(* that has just gone around may still owe a carry; a timer lies in a slot *)
(* that its wheel comes to within one round, and in its own frame, or in   *)
(* the next if it was put there when INNER_BARRIER was set.                *)
(***************************************************************************)
EXTENDS TimerWheel, TLAPS

\* The number, from the start, of the slot of wheel k for a timer of frame x.
Number(k, x) == IF k = 1 THEN x ELSE x \div Span[k] - 1

\* passed[k] slots of wheel k lie behind when the frame is f; passed[5] counts
\* the rounds of the last wheel.  The wheels below m have been turned.
Counted(f, ix, passed, m) ==
    /\ passed \in [1..5 -> Nat] /\ ix \in [1..4 -> Nat]
    /\ passed[1] = f
    /\ \A k \in 1..4 :
         /\ passed[k] = passed[k + 1] * Size[k] + ix[k]
         /\ ix[k] <= Size[k]
         /\ ix[k] = Size[k] => k = m - 1 /\ f = passed[k] * Span[k]
         /\ passed[k] * Span[k] <= f /\ f <= passed[k] * Span[k] + Span[k]
         /\ k < m => f < passed[k] * Span[k] + Span[k]

\* A timer of frame x belongs in slot p: its wheel comes to p in this round.
Belongs(x, p, passed) ==
    /\ p \in Slot
    /\ passed[p[1]] <= Number(p[1], x)
    /\ Number(p[1], x) < passed[p[1]] + Size[p[1]]
    /\ p[2] = Number(p[1], x) % Size[p[1]]

\* The frame a timer of frame x runs in when it is in slot p of the first wheel.
RunsIn(x, p) == IF IsLate(x, p) THEN x + 1 ELSE x

InPlace(x, p, passed) == Belongs(RunsIn(x, p), p, passed)

\* A map from timers to slots, and the slots' contents, say the same.
Agree(map, content) ==
    \A t \in Timers : \A p \in Slot : t \in content[p] <=> map[t] = p

\* Every pending timer is where its wheel will find it.
AllBelong(map, x, passed) ==
    \A t \in Timers : map[t] # None => InPlace(x[t], map[t], passed)

Turning == IF at = "idle" THEN 2 ELSE 6

WheelsInv == \E passed : /\ Counted(frame, index, passed, Turning)
                         /\ AllBelong(slotOf, expires, passed)

\* The slot that is run.
RunInv ==
    /\ at = "callback" <=> current # None
    /\ at = "callback" =>
         barrier /\ slotOf[current] \in {None, <<1, index[1]>>}
    /\ at # "idle" => frame < MaxFrame
    /\ elapsed = 0 => frame = 0 /\ at = "idle" /\ ~barrier

WheelInv == TypeOK /\ MapFindsTimers /\ WheelsInv /\ RunInv
-----------------------------------------------------------------------------
(* Arithmetic. *)

\* A quotient rounds down.
LEMMA QuotientBounds ==
    ASSUME NEW x \in Nat, NEW s \in Nat \ {0}
    PROVE  /\ x \div s \in Nat
           /\ (x \div s) * s <= x /\ x < (x \div s) * s + s
  OBVIOUS

\* Multiples keep the order of what they are multiples of, and show it.
LEMMA TimesOrder ==
    ASSUME NEW a \in Int, NEW b \in Int, NEW s \in Nat \ {0}
    PROVE  /\ a <= b => a * s <= b * s
           /\ a < b => a * s + s <= b * s
           /\ a * s < b * s => a < b
           /\ a * s <= b * s => a <= b
  OBVIOUS

\* Numbers of one round that have the same remainder are the same.
LEMMA SameRemainder ==
    ASSUME NEW a \in Nat, NEW b \in Nat, NEW n \in Nat \ {0},
           a <= b, b < a + n, a % n = b % n
    PROVE  a = b
<1>1. /\ a = (a \div n) * n + (a % n) /\ b = (b \div n) * n + (b % n)
      /\ a \div n \in Int /\ b \div n \in Int /\ a % n \in Int /\ b % n \in Int
  OBVIOUS
<1> PICK p \in Int, q \in Int, r \in Int : a = p * n + r /\ b = q * n + r
  BY <1>1
<1>2. p * n <= q * n /\ q * n < p * n + n
  <2>1. p * n \in Int /\ q * n \in Int
    OBVIOUS
  <2> QED BY <2>1
<1>3. p <= q /\ ~(p < q)
  BY <1>2, TimesOrder
<1> QED BY <1>3

\* The remainder is the digit.
LEMMA RemainderIsDigit ==
    ASSUME NEW c \in Nat, NEW n \in Nat \ {0}, NEW i \in 0..(n - 1)
    PROVE  (c * n + i) % n = i
<1>1. PICK x \in Nat : x = c * n + i
  OBVIOUS
<1>2. /\ x = (x \div n) * n + (x % n)
      /\ x \div n \in Int /\ x % n \in 0..(n - 1)
  OBVIOUS
<1> PICK q \in Int, r \in 0..(n - 1) : x = q * n + r /\ r = x % n
  BY <1>2
<1>3. q * n \in Int /\ c * n \in Int /\ q * n + r = c * n + i
  BY <1>1
<1>4. ~(q < c) /\ ~(c < q)
  <2>1. q < c => q * n + n <= c * n
    BY TimesOrder
  <2>2. c < q => c * n + n <= q * n
    BY TimesOrder
  <2> QED BY <1>3, <2>1, <2>2
<1>5. r = i
  BY <1>3, <1>4
<1> QED BY <1>1, <1>5

\* The next number has the next remainder.
LEMMA NextRemainder ==
    ASSUME NEW x \in Nat, NEW n \in Nat, n > 1
    PROVE  /\ ((x % n) + 1) % n = (x + 1) % n /\ (x + 1) % n # x % n
           /\ (x + 1) % n \in 0..(n - 1)
<1> PICK q \in Nat, r \in 0..(n - 1) : x = q * n + r /\ r = x % n
  <2>1. x = (x \div n) * n + (x % n) /\ x \div n \in Nat /\ x % n \in 0..(n - 1)
    OBVIOUS
  <2> QED BY <2>1
<1>1. CASE r + 1 < n
  <2>1. r + 1 \in 0..(n - 1) /\ q * n \in Nat
    BY <1>1
  <2>2. (q * n + (r + 1)) % n = r + 1
    <3> PICK i \in 0..(n - 1) : i = r + 1
      BY <2>1
    <3>1. n \in Nat \ {0}
      OBVIOUS
    <3>2. (q * n + i) % n = i
      BY <3>1, RemainderIsDigit, Zenon
    <3> QED BY <3>2, Zenon
  <2>3. (r + 1) % n = r + 1
    BY <2>1
  <2>4. x + 1 = q * n + (r + 1)
    BY <2>1
  <2> QED BY <2>1, <2>2, <2>3, <2>4
<1>2. CASE r + 1 = n
  <2>1. 0 \in 0..(n - 1) /\ q * n \in Nat /\ (q + 1) * n = q * n + n
    OBVIOUS
  <2>2. ((q + 1) * n + 0) % n = 0
    BY <2>1, RemainderIsDigit
  <2>3. (r + 1) % n = 0
    BY <1>2
  <2>4. x + 1 = (q + 1) * n + 0
    BY <1>2, <2>1
  <2> QED BY <1>2, <2>1, <2>2, <2>3, <2>4
<1> QED BY <1>1, <1>2

\* c rounds of a wheel of n slots of s, and one more, make f.
Rounds(f, c, n, s) == c \in Nat /\ n \in Nat /\ s \in Nat /\ f = (c * n + n) * s

LEMMA TimesRound ==
    ASSUME NEW f, NEW c, NEW n, NEW s, Rounds(f, c, n, s)
    PROVE  f = (c + 1) * (s * n)
<1>1. c \in Nat /\ n \in Nat /\ s \in Nat /\ f = (c * n + n) * s
  BY DEF Rounds
<1>2. \A x \in Nat, y \in Nat : x * y + y = (x + 1) * y
  OBVIOUS
<1>3. \A x \in Nat, y \in Nat, z \in Nat : (x * y) * z = x * (z * y)
  OBVIOUS
<1> QED BY <1>1, <1>2, <1>3
-----------------------------------------------------------------------------
(* The wheels. *)

\* A round of a wheel is a slot of the next one.
LEMMA Sizes ==
    /\ \A k \in 1..4 : Size[k] \in Nat /\ Size[k] > 1 /\ Span[k] \in Nat /\ Span[k] > 0
    /\ \A k \in 2..4 : Span[k] = Span[k - 1] * Size[k - 1]
    /\ Span[1] = 1 /\ Horizon = Span[4] * Size[4]
<1>1. \A a \in Nat \ {0}, b \in Nat \ {0} : a * b \in Nat \ {0}
  OBVIOUS
<1>2. /\ Size1 \in Nat \ {0, 1} /\ Size2 \in Nat \ {0, 1}
      /\ Size3 \in Nat \ {0, 1} /\ Size4 \in Nat \ {0, 1}
  BY TimerAssumption
<1> PICK a, b, c : a = Size1 /\ b = a * Size2 /\ c = b * Size3
  OBVIOUS
<1>3. /\ Size[1] = Size1 /\ Size[2] = Size2 /\ Size[3] = Size3 /\ Size[4] = Size4
      /\ Span[1] = 1 /\ Span[2] = a /\ Span[3] = b /\ Span[4] = c
  BY DEF Size, Span
<1>4. a \in Nat \ {0} /\ b \in Nat \ {0} /\ c \in Nat \ {0}
  BY <1>1, <1>2
<1>5. \A k \in 1..4 : Size[k] \in Nat /\ Size[k] > 1 /\ Span[k] \in Nat /\ Span[k] > 0
  BY <1>2, <1>3, <1>4
<1>6. a = 1 * Size1
  BY <1>2
<1>7. \A k \in 2..4 : Span[k] = Span[k - 1] * Size[k - 1]
  <2>1. \A k \in 2..4 : k = 2 \/ k = 3 \/ k = 4
    OBVIOUS
  <2>2. Span[2] = Span[2 - 1] * Size[2 - 1]
    BY <1>3, <1>6
  <2>3. Span[3] = Span[3 - 1] * Size[3 - 1]
    BY <1>3
  <2>4. Span[4] = Span[4 - 1] * Size[4 - 1]
    BY <1>3
  <2> QED BY <2>1, <2>2, <2>3, <2>4
<1> QED BY <1>3, <1>5, <1>7 DEF Horizon

\* Higher wheels have longer slots.
LEMMA SpansGrow ==
    ASSUME NEW j \in 1..4, NEW k \in 1..4, Span[j] < Span[k]
    PROVE  j < k
<1>1. \A a \in Nat, b \in Nat : a > 0 /\ b > 1 => a < a * b
  OBVIOUS
<1>2. Span[1] < Span[2] /\ Span[2] < Span[3] /\ Span[3] < Span[4]
  <2>1. Span[2] = Span[1] * Size[1] /\ Span[3] = Span[2] * Size[2]
        /\ Span[4] = Span[3] * Size[3]
    <3>1. \A i \in 2..4 : Span[i] = Span[i - 1] * Size[i - 1]
      BY Sizes
    <3> QED BY <3>1
  <2> PICK a, b, c, d, m1, m2, m3 :
        /\ a = Span[1] /\ b = Span[2] /\ c = Span[3] /\ d = Span[4]
        /\ m1 = Size[1] /\ m2 = Size[2] /\ m3 = Size[3]
    OBVIOUS
  <2>2. /\ a \in Nat /\ b \in Nat /\ c \in Nat /\ a > 0 /\ b > 0 /\ c > 0
        /\ m1 \in Nat /\ m2 \in Nat /\ m3 \in Nat /\ m1 > 1 /\ m2 > 1 /\ m3 > 1
    BY Sizes
  <2>3. b = a * m1 /\ c = b * m2 /\ d = c * m3
    BY <2>1
  <2> QED BY <1>1, <2>2, <2>3
<1>3. \A i \in 1..4 : Span[i] \in Nat
  BY Sizes
<1> QED BY <1>2, <1>3

\* A slot is a wheel and a place on it.
LEMMA Slots ==
    \A p : p \in Slot <=>
             \E k \in 1..4 : \E j \in 0..(Size[k] - 1) : p = <<k, j>>
  BY DEF Slot

LEMMA SlotParts ==
    ASSUME NEW p \in Slot
    PROVE  /\ p = <<p[1], p[2]>> /\ p[1] \in 1..4
           /\ p[2] \in 0..(Size[p[1]] - 1) /\ p # None
<1> PICK k \in 1..4 : \E j \in 0..(Size[k] - 1) : p = <<k, j>>
  BY Slots
<1> PICK j \in 0..(Size[k] - 1) : p = <<k, j>>
  OBVIOUS
<1>1. p # None
  BY NoneAssumption
<1> QED BY <1>1

\* The wheel for a timer ahead of the frame is one whose round covers it and
\* whose slots are not longer than the time ahead.
LEMMA WheelForCovers ==
    ASSUME NEW ahead \in Nat, ahead < Horizon
    PROVE  /\ WheelFor(ahead) \in 1..4
           /\ ahead < Span[WheelFor(ahead)] * Size[WheelFor(ahead)]
           /\ WheelFor(ahead) > 1 => ahead >= Span[WheelFor(ahead)]
<1>1. Span[2] = Span[1] * Size[1] /\ Span[3] = Span[2] * Size[2]
      /\ Span[4] = Span[3] * Size[3]
  <2>1. \A i \in 2..4 : Span[i] = Span[i - 1] * Size[i - 1]
    BY Sizes
  <2> QED BY <2>1
<1>2. \A k \in 1..4 : Span[k] \in Nat
  BY Sizes
<1>3. ahead < Span[4] * Size[4]
  BY Sizes
<1>4. \E k \in 1..4 : ahead < Span[k] * Size[k] /\ (k > 1 => ahead >= Span[k])
  <2>1. CASE ahead < Span[2]
    BY <2>1, <1>1
  <2>2. CASE ahead >= Span[2] /\ ahead < Span[3]
    BY <2>2, <1>1
  <2>3. CASE ahead >= Span[3] /\ ahead < Span[4]
    BY <2>3, <1>1
  <2>4. CASE ahead >= Span[4]
    BY <2>4, <1>3
  <2> QED BY <1>2, <2>1, <2>2, <2>3, <2>4
<1> QED BY <1>4 DEF WheelFor

\* A time between one slot and a round of a wheel ahead is in a slot the wheel
\* has not passed and comes to in this round.
LEMMA NumberInRound ==
    ASSUME NEW x \in Nat, NEW f \in Nat, NEW c \in Nat,
           NEW s \in Nat \ {0}, NEW n \in Nat \ {0},
           c * s <= f, f <= c * s + s, f + s <= x, x < f + s * n
    PROVE  c <= x \div s - 1 /\ x \div s - 1 < c + n
<1> PICK q \in Nat : q = x \div s /\ q * s <= x /\ x < q * s + s
  BY QuotientBounds
<1>1. /\ (q + 1) * s = q * s + s /\ (c + 1) * s = c * s + s
      /\ (c + 1 + n) * s = c * s + s + s * n
  OBVIOUS
<1>2. q * s \in Nat /\ c * s \in Nat /\ s * n \in Nat
  OBVIOUS
<1>3. (c + 1) * s < (q + 1) * s
  BY <1>1, <1>2
<1>4. q * s < (c + 1 + n) * s
  BY <1>1, <1>2
<1>5. c + 1 < q + 1
  BY <1>3, TimesOrder
<1>6. q < c + 1 + n
  BY <1>4, TimesOrder
<1> QED BY <1>5, <1>6

\* What Counted says of one wheel.
LEMMA CountedAt ==
    ASSUME NEW f, NEW ix, NEW passed, NEW m, Counted(f, ix, passed, m),
           NEW k \in 1..4
    PROVE  /\ f \in Nat /\ passed[k] \in Nat /\ passed[k + 1] \in Nat
           /\ ix[k] \in Nat /\ ix[k] <= Size[k]
           /\ passed[k] = passed[k + 1] * Size[k] + ix[k]
           /\ passed[k] * Span[k] <= f /\ f <= passed[k] * Span[k] + Span[k]
           /\ k < m => f < passed[k] * Span[k] + Span[k]
           /\ ix[k] = Size[k] => k = m - 1 /\ f = passed[k] * Span[k]
           /\ passed[1] = f
<1>1. k \in 1..5 /\ k + 1 \in 1..5
  OBVIOUS
<1> QED BY <1>1 DEF Counted

\* The slot a wheel is at is its count's digit.
LEMMA IndexIsDigit ==
    ASSUME NEW f, NEW ix, NEW passed, NEW m, Counted(f, ix, passed, m)
    PROVE  \A k \in 1..4 : ix[k] < Size[k] =>
             passed[k] % Size[k] = ix[k] /\ <<k, ix[k]>> \in Slot
<1> SUFFICES ASSUME NEW k \in 1..4, ix[k] < Size[k]
             PROVE  passed[k] % Size[k] = ix[k] /\ <<k, ix[k]>> \in Slot
  OBVIOUS
<1>1. /\ passed[k + 1] \in Nat /\ ix[k] \in Nat
      /\ passed[k] = passed[k + 1] * Size[k] + ix[k]
  BY CountedAt
<1>2. Size[k] \in Nat \ {0}
  BY Sizes
<1>3. ix[k] \in 0..(Size[k] - 1)
  BY <1>1, <1>2
<1>4. (passed[k + 1] * Size[k] + ix[k]) % Size[k] = ix[k]
  BY <1>1, <1>2, <1>3, RemainderIsDigit
<1> QED BY <1>1, <1>3, <1>4, Slots

AtDigit(ix, passed, k) ==
    ix[k] < Size[k] => passed[k] % Size[k] = ix[k] /\ <<k, ix[k]>> \in Slot

LEMMA IndicesAreDigits ==
    ASSUME NEW f, NEW ix, NEW passed, NEW m, Counted(f, ix, passed, m)
    PROVE  \A k \in 1..4 : AtDigit(ix, passed, k)
  BY IndexIsDigit DEF AtDigit

LEMMA NotLate ==
    ASSUME NEW x, NEW p, ~IsLate(x, p), NEW passed, Belongs(x, p, passed)
    PROVE  InPlace(x, p, passed)
  BY DEF InPlace, RunsIn

\* Only in the first wheel is a timer late.
LEMMA HigherIsNotLate ==
    ASSUME NEW x, NEW p, p[1] # 1, NEW passed
    PROVE  ~IsLate(x, p) /\ (InPlace(x, p, passed) <=> Belongs(x, p, passed))
  BY DEF InPlace, RunsIn, IsLate

\* _internal_add_timer puts a timer where its wheel will find it.
LEMMA SlotForBelongs ==
    ASSUME NEW passed, NEW ix, NEW m, Counted(frame, ix, passed, m),
           NEW x \in Nat, frame <= x, x - frame < Horizon,
           x = frame => ix[1] < Size[1]
    PROVE  /\ InPlace(x, SlotFor(x, ix[1]), passed)
           /\ IsLate(x, SlotFor(x, ix[1])) => barrier /\ x = frame
           /\ SlotFor(x, ix[1])[1] > 1 => x - frame >= Span[SlotFor(x, ix[1])[1]]
<1>1. 1 \in 1..4 /\ Size[1] \in Nat \ {0} /\ Span[1] = 1
  BY Sizes
<1>2. frame \in Nat /\ passed[1] = frame
  BY <1>1, CountedAt
<1> PICK k : k = WheelFor(x - frame)
  OBVIOUS
<1>3. CASE x = frame /\ barrier
  <2>1. passed[1] % Size[1] = ix[1] /\ <<1, ix[1]>> \in Slot
    BY <1>1, <1>3, IndexIsDigit
  <2> PICK j : j = (x + 1) % Size[1]
    OBVIOUS
  <2>2. Size[1] > 1
    BY <1>1, Sizes
  <2>3. /\ ((x % Size[1]) + 1) % Size[1] = j /\ j # x % Size[1]
        /\ j \in 0..(Size[1] - 1)
    BY <1>1, <2>2, NextRemainder
  <2>4. SlotFor(x, ix[1]) = <<1, (ix[1] + 1) % Size[1]>>
    BY <1>2, <1>3 DEF SlotFor
  <2>5. SlotFor(x, ix[1]) = <<1, j>>
    BY <1>2, <1>3, <2>1, <2>3, <2>4
  <2>6. <<1, j>> \in Slot /\ <<1, j>>[1] = 1 /\ <<1, j>>[2] = j
    BY <1>1, <2>3, Slots
  <2>7. RunsIn(x, <<1, j>>) = x + 1
    BY <2>3, <2>6, SlotParts DEF RunsIn, IsLate
  <2>8. Number(1, x + 1) = x + 1
    BY DEF Number
  <2>9. Belongs(x + 1, <<1, j>>, passed)
    BY <1>1, <1>2, <1>3, <2>2, <2>6, <2>8 DEF Belongs
  <2> QED BY <1>3, <2>5, <2>6, <2>7, <2>9 DEF InPlace
<1>4. CASE x = frame /\ ~barrier
  <2>1. SlotFor(x, ix[1]) = <<1, ix[1]>>
    BY <1>2, <1>4 DEF SlotFor
  <2>2. passed[1] % Size[1] = ix[1] /\ <<1, ix[1]>> \in Slot
    BY <1>1, <1>4, IndexIsDigit
  <2>3. Number(1, x) = x
    BY DEF Number
  <2>4. <<1, ix[1]>>[1] = 1 /\ <<1, ix[1]>>[2] = ix[1]
    OBVIOUS
  <2>5. Belongs(x, <<1, ix[1]>>, passed)
    BY <1>1, <1>2, <1>4, <2>2, <2>3, <2>4 DEF Belongs
  <2>6. ~IsLate(x, <<1, ix[1]>>)
    BY <1>2, <1>4, <2>2, <2>4 DEF IsLate
  <2> QED BY <2>1, <2>4, <2>5, <2>6, NotLate
<1>5. CASE x # frame
  <2>1. x - frame \in Nat /\ x - frame > 0
    BY <1>2, <1>5
  <2>2. /\ k \in 1..4 /\ x - frame < Span[k] * Size[k]
        /\ k > 1 => x - frame >= Span[k]
    BY <2>1, WheelForCovers
  <2>3. Size[k] \in Nat \ {0} /\ Span[k] \in Nat \ {0}
    BY <2>2, Sizes
  <2>4. SlotFor(x, ix[1]) = <<k, Number(k, x) % Size[k]>>
    BY <2>1, <1>1, <2>2 DEF SlotFor, Number
  <2>5. passed[k] <= Number(k, x) /\ Number(k, x) < passed[k] + Size[k]
    <3>1. CASE k = 1
      BY <1>1, <1>2, <2>1, <2>2, <3>1 DEF Number
    <3>2. CASE k # 1
      <4>1. k > 1
        BY <2>2, <3>2
      <4>2. frame + Span[k] <= x
        BY <1>2, <2>1, <2>2, <2>3, <4>1
      <4>3. x < frame + Span[k] * Size[k]
        <5> PICK r : r = Span[k] * Size[k]
          OBVIOUS
        <5>1. r \in Nat /\ x - frame < r
          BY <2>2, <2>3
        <5> QED BY <1>2, <5>1
      <4>4. /\ passed[k] \in Nat
            /\ passed[k] * Span[k] <= frame /\ frame <= passed[k] * Span[k] + Span[k]
        BY <2>2, CountedAt
      <4>5. passed[k] <= x \div Span[k] - 1 /\ x \div Span[k] - 1 < passed[k] + Size[k]
        BY <1>2, <2>3, <4>2, <4>3, <4>4, NumberInRound
      <4> QED BY <3>2, <4>5 DEF Number
    <3> QED BY <3>1, <3>2
  <2>6. Number(k, x) \in Nat
    <3>1. CASE k = 1
      BY <3>1 DEF Number
    <3>2. CASE k # 1
      <4>1. passed[k] \in Nat /\ x \div Span[k] \in Nat
        BY <2>2, <2>3, CountedAt, QuotientBounds
      <4> QED BY <2>5, <3>2, <4>1 DEF Number
    <3> QED BY <3>1, <3>2
  <2>7. Number(k, x) % Size[k] \in 0..(Size[k] - 1)
    BY <2>3, <2>6
  <2>8. <<k, Number(k, x) % Size[k]>> \in Slot
    BY <2>2, <2>7, Slots
  <2>9. <<k, Number(k, x) % Size[k]>>[1] = k
        /\ <<k, Number(k, x) % Size[k]>>[2] = Number(k, x) % Size[k]
    OBVIOUS
  <2> PICK p : p = <<k, Number(k, x) % Size[k]>>
    OBVIOUS
  <2>10. Belongs(x, p, passed)
    BY <2>5, <2>8, <2>9 DEF Belongs
  <2>11. ~IsLate(x, p)
    BY <2>9 DEF IsLate, Number
  <2> QED BY <2>2, <2>4, <2>9, <2>10, <2>11, NotLate
<1> QED BY <1>4, <1>5, <1>3
-----------------------------------------------------------------------------
(* Turning the wheels. *)

\* A wheel that has not gone around leaves the next one where it is.
LEMMA NoCarry ==
    ASSUME NEW f, NEW ix, NEW passed, NEW k \in 2..5, Counted(f, ix, passed, k),
           ix[k - 1] < Size[k - 1]
    PROVE  Counted(f, ix, passed, k + 1)
<1> PICK i \in 1..4 : i = k - 1
  OBVIOUS
<1>1. \A j \in 1..4 : ix[j] # Size[j]
  <2> TAKE j \in 1..4
  <2>1. ix[j] = Size[j] => j = i
    BY CountedAt
  <2>2. Size[i] \in Nat /\ ix[i] < Size[i] /\ ix[i] \in Nat
    BY Sizes, CountedAt
  <2> QED BY <2>1, <2>2
<1>2. k \in 1..4 => f < passed[k] * Span[k] + Span[k]
  <2> SUFFICES ASSUME k \in 1..4
               PROVE  f < passed[k] * Span[k] + Span[k]
    OBVIOUS
  <2>1. /\ f \in Nat /\ passed[i] \in Nat /\ passed[i + 1] \in Nat /\ ix[i] \in Nat
        /\ passed[i] = passed[i + 1] * Size[i] + ix[i]
        /\ f < passed[i] * Span[i] + Span[i]
    BY CountedAt
  <2>2. k \in 2..4 /\ Span[k] = Span[i] * Size[i] /\ i + 1 = k
    BY Sizes
  <2>3. Span[i] \in Nat \ {0} /\ Size[i] \in Nat \ {0}
    BY Sizes
  <2> PICK s, n, c, d, e : s = Span[i] /\ n = Size[i] /\ c = passed[k] /\ d = ix[i]
                             /\ e = passed[i]
    OBVIOUS
  <2>4. /\ s \in Nat \ {0} /\ n \in Nat \ {0} /\ c \in Nat /\ d \in Nat /\ d < n
        /\ e = c * n + d /\ f < e * s + s /\ Span[k] = s * n /\ e \in Nat
    BY <2>1, <2>2, <2>3
  <2>5. e + 1 <= (c + 1) * n
    <3>1. (c + 1) * n = c * n + n /\ c * n \in Nat
      BY <2>4
    <3> QED BY <2>4, <3>1
  <2>6. (e + 1) * s <= ((c + 1) * n) * s
    BY <2>4, <2>5, TimesOrder
  <2>7. (e + 1) * s = e * s + s /\ ((c + 1) * n) * s = c * (s * n) + s * n
    BY <2>4
  <2>8. e * s \in Nat /\ c * (s * n) \in Nat /\ s * n \in Nat
    BY <2>4
  <2> QED BY <2>1, <2>4, <2>6, <2>7, <2>8
<1>3. \A j \in 1..4 : j < k + 1 => j < k \/ j = k
  OBVIOUS
<1> QED BY <1>1, <1>2, <1>3 DEF Counted

\* Wheel k moves on, and the one below starts again.
Carries(ix, ix2, passed, passed2, k) ==
    /\ ix2 \in [1..4 -> Nat] /\ ix2[k - 1] = 0 /\ ix2[k] = ix[k] + 1
    /\ \A j \in 1..4 : j # k - 1 /\ j # k => ix2[j] = ix[j]
    /\ passed2 \in [1..5 -> Nat] /\ passed2[k] = passed[k] + 1
    /\ \A j \in 1..5 : j # k => passed2[j] = passed[j]

\* A wheel that has gone around starts again, and moves the next one on.
LEMMA Carry ==
    ASSUME NEW f, NEW ix, NEW passed, NEW k \in 2..4, Counted(f, ix, passed, k),
           ix[k - 1] = Size[k - 1],
           NEW ix2, NEW passed2, Carries(ix, ix2, passed, passed2, k)
    PROVE  /\ Counted(f, ix2, passed2, k + 1)
           /\ f = (passed[k] + 1) * Span[k]
<1> PICK i \in 1..3 : i = k - 1
  OBVIOUS
<1>0. i \in 1..4 /\ k \in 1..4 /\ i # k /\ i + 1 = k
  OBVIOUS
<1>1. /\ f \in Nat /\ passed[i] \in Nat /\ passed[k] \in Nat
      /\ passed[i] = passed[k] * Size[i] + Size[i]
      /\ f = passed[i] * Span[i]
  BY <1>0, CountedAt
<1>2. Span[k] = Span[i] * Size[i] /\ Span[i] \in Nat /\ Size[i] \in Nat
      /\ Span[k] \in Nat /\ Span[k] > 0 /\ Size[i] > 1
  BY <1>0, Sizes
<1>3. f = (passed[k] + 1) * Span[k]
  <2>1. Rounds(f, passed[k], Size[i], Span[i])
    <3>1. passed[k] \in Nat /\ Size[i] \in Nat /\ Span[i] \in Nat
      BY <1>1, <1>2
    <3>2. f = (passed[k] * Size[i] + Size[i]) * Span[i]
      BY <1>1, Zenon
    <3> QED BY <3>1, <3>2, Zenon DEF Rounds
  <2>2. f = (passed[k] + 1) * (Span[i] * Size[i])
    BY <2>1, TimesRound
  <2>3. Span[k] = Span[i] * Size[i]
    BY <1>2
  <2> QED BY <2>2, <2>3, Zenon
<1>4. \A j \in 1..4 : j # k - 1 => ix[j] # Size[j]
  BY CountedAt
<1>5. \A j \in 1..4 : ix[j] \in Nat /\ ix[j] <= Size[j] /\ Size[j] \in Nat
  BY CountedAt, Sizes
<1>6. /\ ix2 \in [1..4 -> Nat] /\ ix2[i] = 0 /\ ix2[k] = ix[k] + 1
      /\ \A j \in 1..4 : j # i /\ j # k => ix2[j] = ix[j]
  BY DEF Carries
<1>7. /\ passed2 \in [1..5 -> Nat] /\ passed2[k] = passed[k] + 1
      /\ \A j \in 1..5 : j # k => passed2[j] = passed[j]
  BY DEF Carries
<1>8. passed2[1] = f
  BY <1>7 DEF Counted
<1>9. ASSUME NEW j \in 1..4
      PROVE  /\ passed2[j] = passed2[j + 1] * Size[j] + ix2[j]
             /\ ix2[j] <= Size[j]
             /\ ix2[j] = Size[j] => j = k /\ f = passed2[j] * Span[j]
             /\ passed2[j] * Span[j] <= f /\ f <= passed2[j] * Span[j] + Span[j]
             /\ j < k + 1 => f < passed2[j] * Span[j] + Span[j]
  <2>0. j + 1 \in 1..5 /\ j \in 1..5
    OBVIOUS
  <2>1. CASE j = i
    <3>1. /\ passed2[j] = passed[j] /\ passed2[j + 1] = passed[k] + 1 /\ ix2[j] = 0
      BY <1>0, <1>6, <1>7, <2>0, <2>1
    <3>2. (passed[k] + 1) * Size[i] = passed[k] * Size[i] + Size[i]
          /\ passed[k] * Size[i] \in Nat
      BY <1>1, <1>2
    <3>3. /\ passed[j] * Span[j] <= f /\ f <= passed[j] * Span[j] + Span[j]
          /\ f < passed[j] * Span[j] + Span[j]
      BY <2>1, CountedAt
    <3> QED BY <1>1, <1>2, <2>1, <3>1, <3>2, <3>3
  <2>2. CASE j = k
    <3>1. passed2[j] = passed[k] + 1 /\ passed2[j + 1] = passed[k + 1] /\ ix2[j] = ix[k] + 1
      BY <1>0, <1>6, <1>7, <2>0, <2>2
    <3>2. passed[k] = passed[k + 1] * Size[k] + ix[k] /\ passed[k + 1] \in Nat
      BY <1>0, CountedAt
    <3>3. ix[k] < Size[k] /\ ix[k] \in Nat /\ Size[k] \in Nat
      BY <1>0, <1>4, <1>5
    <3>4. passed[k + 1] * Size[k] \in Nat
      BY <3>2, <3>3
    <3> QED BY <1>1, <1>2, <1>3, <2>2, <3>1, <3>2, <3>3, <3>4
  <2>3. CASE j # i /\ j # k
    <3>1. passed2[j] = passed[j] /\ passed2[j + 1] = passed[j + 1] /\ ix2[j] = ix[j]
      BY <1>0, <1>6, <1>7, <2>0, <2>3
    <3>2. ix[j] # Size[j] /\ ix[j] <= Size[j]
      BY <1>4, <1>5, <2>3
    <3>3. j < k + 1 => j < k
      BY <2>3
    <3>4. /\ passed[j] = passed[j + 1] * Size[j] + ix[j]
          /\ passed[j] * Span[j] <= f /\ f <= passed[j] * Span[j] + Span[j]
          /\ j < k => f < passed[j] * Span[j] + Span[j]
      BY CountedAt
    <3> QED BY <3>1, <3>2, <3>3, <3>4
  <2> QED BY <2>1, <2>2, <2>3
<1>10. \A j \in 1..4 : j = (k + 1) - 1 <=> j = k
  OBVIOUS
<1> QED BY <1>3, <1>6, <1>7, <1>8, <1>9, <1>10 DEF Counted

\* What a turning wheel works on: the record update hands from wheel to wheel.
WheelTypes(content, map) ==
    /\ content \in [Slot -> SUBSET Timers]
    /\ map \in [Timers -> Slot \cup {None}]

\* The frame a slot of a higher wheel begins with is the one its timers' times
\* start at: they all fit the wheels below.
LEMMA SlotIsDue ==
    ASSUME NEW f, NEW ix, NEW passed, NEW k \in 2..4, Counted(f, ix, passed, k),
           f = (passed[k] + 1) * Span[k], ix[k] < Size[k],
           NEW x \in Nat, Belongs(x, <<k, ix[k]>>, passed)
    PROVE  f <= x /\ x < f + Span[k]
<1>0. k \in 1..4
  OBVIOUS
<1>1. Size[k] \in Nat \ {0} /\ Span[k] \in Nat \ {0} /\ passed[k] \in Nat
  BY <1>0, Sizes, CountedAt
<1>2. passed[k] % Size[k] = ix[k]
  <2>1. AtDigit(ix, passed, k)
    BY <1>0, IndicesAreDigits
  <2> QED BY <2>1, Zenon DEF AtDigit
<1> PICK q : q = x \div Span[k]
  OBVIOUS
<1>3. q \in Nat /\ q * Span[k] <= x /\ x < q * Span[k] + Span[k]
  BY <1>1, QuotientBounds
<1>4. /\ passed[k] <= q - 1 /\ q - 1 < passed[k] + Size[k]
      /\ ix[k] = (q - 1) % Size[k]
  <2>1. Number(k, x) = q - 1
    BY DEF Number
  <2>2. <<k, ix[k]>>[1] = k /\ <<k, ix[k]>>[2] = ix[k]
    OBVIOUS
  <2> QED BY <2>1, <2>2 DEF Belongs
<1>5. q - 1 \in Nat
  BY <1>1, <1>3, <1>4
<1>6. passed[k] = q - 1
  BY <1>1, <1>4, <1>2, <1>5, SameRemainder
<1>7. f = q * Span[k]
  BY <1>1, <1>3, <1>6
<1> QED BY <1>3, <1>7

\* Wheel k has passed one more slot.
OneMore(passed, passed2, k) ==
    /\ passed2 \in [1..5 -> Nat] /\ passed2[k] = passed[k] + 1
    /\ \A j \in 1..5 : j # k => passed2[j] = passed[j]

LEMMA OnePassed ==
    ASSUME NEW passed \in [1..5 -> Nat], NEW k \in 1..5
    PROVE  OneMore(passed, [passed EXCEPT ![k] = @ + 1], k)
  BY DEF OneMore

\* A timer that is not in the slot the wheel moves on from stays in its round.
LEMMA OthersBelong ==
    ASSUME NEW f, NEW ix, NEW passed, NEW m, Counted(f, ix, passed, m),
           NEW k \in 1..4, ix[k] < Size[k],
           NEW x \in Nat, NEW p, Belongs(x, p, passed), p # <<k, ix[k]>>,
           NEW passed2, OneMore(passed, passed2, k)
    PROVE  Belongs(x, p, passed2)
<1>1. /\ p = <<p[1], p[2]>> /\ p[1] \in 1..4 /\ p \in Slot
      /\ p[2] \in 0..(Size[p[1]] - 1)
  BY SlotParts DEF Belongs
<1>2. passed \in [1..5 -> Nat] /\ k \in 1..5 /\ p[1] \in 1..5
  BY <1>1 DEF Counted
<1>3. CASE p[1] # k
  <2>1. passed2[p[1]] = passed[p[1]]
    BY <1>2, <1>3 DEF OneMore
  <2> QED BY <2>1 DEF Belongs
<1>4. CASE p[1] = k
  <2>1. passed2[k] = passed[k] + 1 /\ passed[k] \in Nat
    BY <1>2 DEF OneMore
  <2>2. p[2] # ix[k]
    BY <1>1, <1>4
  <2>3. passed[k] % Size[k] = ix[k]
    <3>1. AtDigit(ix, passed, k)
      BY IndicesAreDigits
    <3> QED BY <3>1, Zenon DEF AtDigit
  <2>4. Number(k, x) # passed[k]
    BY <1>4, <2>2, <2>3 DEF Belongs
  <2>5. Number(k, x) \in Int
    <3>1. Span[k] \in Nat \ {0}
      BY Sizes
    <3>2. x \div Span[k] \in Nat
      BY <3>1, QuotientBounds
    <3> QED BY <3>2 DEF Number
  <2>6. passed[k] <= Number(k, x) /\ Number(k, x) < passed[k] + Size[k]
    BY <1>4 DEF Belongs
  <2>7. Size[k] \in Nat
    BY Sizes
  <2>8. passed2[k] <= Number(k, x) /\ Number(k, x) < passed2[k] + Size[k]
    BY <2>1, <2>4, <2>5, <2>6, <2>7
  <2> QED BY <1>1, <1>4, <2>8 DEF Belongs
<1> QED BY <1>3, <1>4

\* map has the timers of map0, and the late ones; others are late only when they
\* are due now, and INNER_BARRIER is set.
LateIn(map, t) == IsLate(expires[t], map[t])
Follows(map, map0) ==
    \A t \in Timers :
      /\ map[t] = None <=> map0[t] = None
      /\ LateIn(map0, t) => LateIn(map, t)
      /\ LateIn(map, t) => LateIn(map0, t) \/ (barrier /\ expires[t] = frame)

\* The wheels below m have been turned, those of map0 are the pending timers,
\* and every timer is where its wheel will find it.
Stage(s, m, map0) ==
    \E ix, content, map, passed :
      /\ s = [index |-> ix, slots |-> content, slotOf |-> map]
      /\ WheelTypes(content, map) /\ Agree(map, content)
      /\ Counted(frame, ix, passed, m)
      /\ AllBelong(map, expires, passed)
      /\ Follows(map, map0)

LEMMA StageReached ==
    ASSUME NEW s, NEW m, NEW map0, NEW ix, NEW content, NEW map, NEW passed,
           s = [index |-> ix, slots |-> content, slotOf |-> map],
           WheelTypes(content, map), Agree(map, content),
           Counted(frame, ix, passed, m), AllBelong(map, expires, passed),
           Follows(map, map0)
    PROVE  Stage(s, m, map0)
  BY DEF Stage

\* Wheel k is due to move on, after which the counts are passed2.
MovesOn(ix, passed, ix2, passed2, k) ==
    /\ Counted(frame, ix, passed, k) /\ Counted(frame, ix2, passed2, k + 1)
    /\ ix[k - 1] = Size[k - 1] /\ ix[k] < Size[k]
    /\ frame = (passed[k] + 1) * Span[k]

\* The timers of the slot that is due fit the wheels below.
LEMMA DueTimersFit ==
    ASSUME NEW k \in 2..4, NEW ix, NEW passed, NEW ix2, NEW passed2,
           MovesOn(ix, passed, ix2, passed2, k),
           NEW x \in Nat, Belongs(x, <<k, ix[k]>>, passed)
    PROVE  /\ InPlace(x, SlotFor(x, ix2[1]), passed2)
           /\ IsLate(x, SlotFor(x, ix2[1])) => barrier /\ x = frame
           /\ SlotFor(x, ix2[1]) \in Slot /\ SlotFor(x, ix2[1]) # <<k, ix[k]>>
<1> USE DEF MovesOn
<1>0. k \in 1..4 /\ 1 \in 1..4 /\ 1 # (k + 1) - 1 /\ ~(4 < k)
  OBVIOUS
<1>1. ix2[1] < Size[1]
  <2>1. ix2[1] # Size[1]
    BY <1>0, CountedAt
  <2>2. ix2[1] \in Nat /\ ix2[1] <= Size[1]
    BY <1>0, CountedAt
  <2>3. Size[1] \in Nat
    BY <1>0, Sizes
  <2> QED BY <2>1, <2>2, <2>3
<1>2. frame \in Nat /\ Span[k] \in Nat /\ Span[k] > 0
  BY <1>0, CountedAt, Sizes
<1>3. Span[k] <= Horizon /\ Horizon \in Nat
  <2>1. \A a \in Nat, b \in Nat : b > 0 => a <= a * b /\ a * b \in Nat
    OBVIOUS
  <2>2. \A i \in 1..4 : Span[i] \in Nat /\ Size[i] \in Nat /\ Size[i] > 0
    BY Sizes
  <2>3. Span[4] <= Horizon /\ Horizon \in Nat
    BY <2>1, <2>2, Sizes
  <2>4. ~(Span[4] < Span[k])
    BY <1>0, SpansGrow
  <2> QED BY <1>2, <2>2, <2>3, <2>4
<1>4. frame <= x /\ x < frame + Span[k]
  BY SlotIsDue
<1>5. x - frame < Horizon
  BY <1>2, <1>3, <1>4
<1> PICK p : p = SlotFor(x, ix2[1])
  OBVIOUS
<1>6. /\ InPlace(x, p, passed2) /\ (p[1] > 1 => x - frame >= Span[p[1]])
      /\ IsLate(x, p) => barrier /\ x = frame
  BY <1>1, <1>4, <1>5, SlotForBelongs
<1>7. p \in Slot
  BY <1>6 DEF InPlace, Belongs
<1>8. p[1] # k
  <2> SUFFICES ASSUME p[1] = k PROVE FALSE
    OBVIOUS
  <2>1. x - frame >= Span[k]
    BY <1>6
  <2> QED BY <1>2, <1>4, <2>1
<1>9. <<k, ix[k]>>[1] = k
  OBVIOUS
<1> QED BY <1>6, <1>7, <1>8, <1>9

\* The timers of slot from go where dest says.
Moves(content, map, content2, map2, from, dest) ==
    /\ \A t \in content[from] : dest[t] \in Slot /\ dest[t] # from
    /\ content2 \in [Slot -> SUBSET Timers]
    /\ \A p \in Slot : \A t \in Timers : t \in content2[p] <=>
         p # from /\ (t \in content[p] \/ (t \in content[from] /\ dest[t] = p))
    /\ map2 = [t \in Timers |-> map2[t]]
    /\ \A t \in Timers : map2[t] = IF t \in content[from] THEN dest[t] ELSE map[t]

\* Moving the timers of one slot to others keeps the map and the slots in step.
LEMMA MoveAll ==
    ASSUME NEW content, NEW map, WheelTypes(content, map), Agree(map, content),
           NEW from \in Slot, NEW content2, NEW map2, NEW dest,
           Moves(content, map, content2, map2, from, dest)
    PROVE  /\ WheelTypes(content2, map2) /\ Agree(map2, content2)
           /\ \A t \in Timers : map2[t] = None <=> map[t] = None
           /\ \A t \in content[from] : t \in Timers /\ map[t] = from
           /\ \A t \in Timers : t \notin content[from] => map2[t] = map[t] /\ map[t] # from
<1> USE DEF Moves
<1>1. \A t \in content[from] : t \in Timers /\ map[t] = from
  BY DEF WheelTypes, Agree
<1>2. \A t \in Timers : t \notin content[from] => map2[t] = map[t] /\ map[t] # from
  BY DEF Agree
<1>3. map2 \in [Timers -> Slot \cup {None}]
  <2>1. \A t \in Timers : map2[t] \in Slot \cup {None}
    BY DEF WheelTypes
  <2> QED BY <2>1
<1>4. Agree(map2, content2)
  <2> SUFFICES ASSUME NEW t \in Timers, NEW p \in Slot
               PROVE  t \in content2[p] <=> map2[t] = p
    BY DEF Agree
  <2>1. t \in content[p] <=> map[t] = p
    BY DEF Agree
  <2>2. CASE t \in content[from]
    BY <1>1, <2>1, <2>2
  <2>3. CASE t \notin content[from]
    BY <1>2, <2>1, <2>3
  <2> QED BY <2>2, <2>3
<1>5. ASSUME NEW t \in Timers PROVE map2[t] = None <=> map[t] = None
  <2>1. CASE t \in content[from]
    <3>1. dest[t] \in Slot /\ map2[t] = dest[t] /\ map[t] = from
      BY <1>1, <2>1
    <3>2. dest[t] # None /\ from # None
      BY <3>1, SlotParts
    <3> QED BY <3>1, <3>2
  <2>2. CASE t \notin content[from]
    BY <1>2, <2>2
  <2> QED BY <2>1, <2>2
<1> QED BY <1>1, <1>2, <1>3, <1>4, <1>5 DEF WheelTypes

\* What cascade_timers makes of the wheels, slot by slot and timer by timer.
Cascaded(content, map, content2, map2, from, first) ==
    /\ content2 = [p \in Slot |-> content2[p]]
    /\ \A p \in Slot : \A t : t \in content2[p] <=>
         /\ p # from
         /\ t \in content[p] \/ (t \in content[from] /\ SlotFor(expires[t], first) = p)
    /\ map2 = [t \in Timers |-> map2[t]]
    /\ \A t \in Timers : map2[t] =
         IF t \in content[from] THEN SlotFor(expires[t], first) ELSE map[t]

CascadesTo(s, k, from, new) ==
    /\ new = [index |-> new.index, slots |-> new.slots, slotOf |-> new.slotOf]
    /\ new.index = [s.index EXCEPT ![k] = @ + 1]
    /\ Cascaded(s.slots, s.slotOf, new.slots, new.slotOf, from, s.index[1])

LEMMA CascadeResult ==
    ASSUME NEW k, NEW s, NEW from, from = <<k, s.index[k]>>,
           NEW new, new = CascadeTimers(s, k)
    PROVE  CascadesTo(s, k, from, new)
<1>1. /\ new = [index |-> new.index, slots |-> new.slots, slotOf |-> new.slotOf]
      /\ new.index = [s.index EXCEPT ![k] = @ + 1]
  BY DEF CascadeTimers
<1>2. new.slots = [p \in Slot |-> new.slots[p]]
  BY DEF CascadeTimers
<1>3. new.slotOf = [t \in Timers |-> new.slotOf[t]]
  BY DEF CascadeTimers
<1>4. ASSUME NEW p \in Slot
      PROVE  \A t : t \in new.slots[p] <=>
               /\ p # from
               /\ t \in s.slots[p] \/ (t \in s.slots[from] /\ SlotFor(expires[t], s.index[1]) = p)
  <2>1. new.slots[p] = IF p = <<k, s.index[k]>> THEN {}
          ELSE s.slots[p] \cup
               {t \in s.slots[<<k, s.index[k]>>] : SlotFor(expires[t], s.index[1]) = p}
    BY DEF CascadeTimers
  <2>2. CASE p = from
    BY <2>1, <2>2
  <2>3. CASE p # from
    <3>1. new.slots[p] = s.slots[p] \cup
               {t \in s.slots[<<k, s.index[k]>>] : SlotFor(expires[t], s.index[1]) = p}
      BY <2>1, <2>3
    <3> QED BY <2>3, <3>1
  <2> QED BY <2>2, <2>3
<1>5. ASSUME NEW t \in Timers
      PROVE  new.slotOf[t] =
               IF t \in s.slots[from] THEN SlotFor(expires[t], s.index[1]) ELSE s.slotOf[t]
  BY DEF CascadeTimers
<1>6. Cascaded(s.slots, s.slotOf, new.slots, new.slotOf, from, s.index[1])
  BY <1>2, <1>3, <1>4, <1>5, Zenon DEF Cascaded
<1> QED BY <1>1, <1>6 DEF CascadesTo

\* The index of a wheel that is run, and of the one below, which starts again.
LEMMA CascadeCounts ==
    ASSUME NEW k \in 2..4, NEW ix, NEW passed, Counted(frame, ix, passed, k),
           ix[k - 1] = Size[k - 1],
           NEW ix2, NEW passed2, Carries(ix, ix2, passed, passed2, k)
    PROVE  /\ ix[k] < Size[k] /\ <<k, ix[k]>> \in Slot
           /\ Counted(frame, ix2, passed2, k + 1) /\ frame = (passed[k] + 1) * Span[k]
<1>1. k \in 1..4 /\ k # k - 1
  OBVIOUS
<1>2. ix[k] < Size[k]
  <2>1. ix[k] # Size[k]
    BY <1>1, CountedAt
  <2>2. ix[k] \in Nat /\ ix[k] <= Size[k] /\ Size[k] \in Nat
    BY <1>1, CountedAt, Sizes
  <2> QED BY <2>1, <2>2
<1>3. <<k, ix[k]>> \in Slot
  BY <1>1, <1>2, IndexIsDigit
<1>4. Counted(frame, ix2, passed2, k + 1) /\ frame = (passed[k] + 1) * Span[k]
  BY Carry
<1> QED BY <1>2, <1>3, <1>4

\* cascade_timers leaves every timer of the slot in a lower wheel, where that
\* one will find it, and the others where they are.
LEMMA CascadeKeeps ==
    ASSUME NEW k \in 2..4, NEW ix, NEW content, NEW map, NEW passed,
           Counted(frame, ix, passed, k), ix[k - 1] = Size[k - 1],
           WheelTypes(content, map), Agree(map, content),
           expires \in [Timers -> Nat], AllBelong(map, expires, passed),
           NEW s, s.index = [ix EXCEPT ![k - 1] = 0],
                  s.slots = content, s.slotOf = map
    PROVE  Stage(CascadeTimers(s, k), k + 1, map)
<1> PICK new : new = CascadeTimers(s, k)
  OBVIOUS
<1> PICK from : from = <<k, s.index[k]>>
  OBVIOUS
<1> PICK ix1, ix2, content2, map2 :
      /\ ix1 = s.index /\ ix2 = new.index
      /\ content2 = new.slots /\ map2 = new.slotOf
  OBVIOUS
<1> PICK dest : dest = [t \in Timers |-> SlotFor(expires[t], ix1[1])]
  OBVIOUS
<1> PICK passed2 : OneMore(passed, passed2, k)
  <2>1. passed \in [1..5 -> Nat] /\ k \in 1..5
    BY DEF Counted
  <2> QED BY <2>1, OnePassed
<1>1. /\ new = [index |-> ix2, slots |-> content2, slotOf |-> map2]
      /\ ix2 = [ix1 EXCEPT ![k] = @ + 1]
      /\ Cascaded(content, map, content2, map2, from, ix1[1])
  <2>1. CascadesTo(s, k, from, new)
    BY CascadeResult, Zenon
  <2> QED BY <2>1 DEF CascadesTo
<1>2. /\ ix[k] < Size[k] /\ from \in Slot /\ from = <<k, ix[k]>> /\ ix2[1] = ix1[1]
      /\ Counted(frame, ix2, passed2, k + 1) /\ frame = (passed[k] + 1) * Span[k]
  <2>1. k \in 1..4 /\ k - 1 \in 1..4 /\ k # k - 1 /\ 1 \in 1..4 /\ 1 # k
    OBVIOUS
  <2>2. ix \in [1..4 -> Nat] /\ ix1 = [ix EXCEPT ![k - 1] = 0]
    BY DEF Counted
  <2>3. /\ ix1 \in [1..4 -> Nat] /\ ix1[k - 1] = 0
        /\ \A j \in 1..4 : j # k - 1 => ix1[j] = ix[j]
    BY <2>1, <2>2
  <2>4. /\ ix2 \in [1..4 -> Nat] /\ ix2[k] = ix1[k] + 1
        /\ \A j \in 1..4 : j # k => ix2[j] = ix1[j]
    BY <1>1, <2>1, <2>3
  <2>5. ix1[k] = ix[k] /\ ix2[1] = ix1[1] /\ ix2[k - 1] = 0
    BY <2>1, <2>3, <2>4
  <2>6. Carries(ix, ix2, passed, passed2, k)
    <3>1. ix2[k] = ix[k] + 1
      BY <2>4, <2>5
    <3>2. \A j \in 1..4 : j # k - 1 /\ j # k => ix2[j] = ix[j]
      BY <2>3, <2>4
    <3> QED BY <2>4, <2>5, <3>1, <3>2 DEF Carries, OneMore
  <2>7. /\ ix[k] < Size[k] /\ <<k, ix[k]>> \in Slot
        /\ Counted(frame, ix2, passed2, k + 1) /\ frame = (passed[k] + 1) * Span[k]
    BY <2>6, CascadeCounts
  <2>8. from = <<k, ix[k]>>
    BY <2>5
  <2> QED BY <2>5, <2>7, <2>8, Zenon
<1>3. \A t \in content[from] : t \in Timers /\ map[t] = from /\ from # None
  BY <1>2, SlotParts DEF WheelTypes, Agree
<1>4. ASSUME NEW t \in content[from]
      PROVE  /\ InPlace(expires[t], dest[t], passed2)
             /\ IsLate(expires[t], dest[t]) => barrier /\ expires[t] = frame
             /\ dest[t] \in Slot /\ dest[t] # from
  <2>1. t \in Timers /\ map[t] # None /\ dest[t] = SlotFor(expires[t], ix2[1])
    BY <1>2, <1>3
  <2>2. expires[t] \in Nat /\ Belongs(expires[t], <<k, ix[k]>>, passed)
    <3>1. InPlace(expires[t], <<k, ix[k]>>, passed)
      BY <1>2, <1>3, <2>1, Zenon DEF AllBelong
    <3>2. expires[t] \in Nat
      BY <2>1
    <3>3. <<k, ix[k]>>[1] # 1
      OBVIOUS
    <3> QED BY <3>1, <3>2, <3>3, HigherIsNotLate, Zenon
  <2> PICK x \in Nat : x = expires[t]
    BY <2>2
  <2>3. Belongs(x, <<k, ix[k]>>, passed)
    BY <2>2, Zenon
  <2>4. /\ InPlace(x, SlotFor(x, ix2[1]), passed2)
        /\ IsLate(x, SlotFor(x, ix2[1])) => barrier /\ x = frame
        /\ SlotFor(x, ix2[1]) \in Slot /\ SlotFor(x, ix2[1]) # <<k, ix[k]>>
    <3>1. MovesOn(ix, passed, ix2, passed2, k)
      BY <1>2 DEF MovesOn
    <3> QED BY <2>3, <3>1, DueTimersFit
  <2> QED BY <1>2, <2>1, <2>4, Zenon
<1>5. Moves(content, map, content2, map2, from, dest)
  <2>1. \A t \in content[from] : dest[t] = SlotFor(expires[t], ix1[1])
    BY <1>3
  <2>2. \A p \in Slot : \A t \in Timers : t \in content2[p] <=>
          p # from /\ (t \in content[p] \/ (t \in content[from] /\ dest[t] = p))
    BY <1>1, <2>1, Zenon DEF Cascaded
  <2>3. \A t \in Timers : map2[t] = IF t \in content[from] THEN dest[t] ELSE map[t]
    BY <1>1, <2>1, Zenon DEF Cascaded
  <2>4. content2 \in [Slot -> SUBSET Timers]
    <3>1. \A p \in Slot : \A t : t \in content[p] => t \in Timers
      BY DEF WheelTypes
    <3>2. \A p \in Slot : \A t : t \in content2[p] => t \in Timers
      BY <1>1, <1>2, <3>1, Zenon DEF Cascaded
    <3>3. \A p \in Slot : content2[p] \in SUBSET Timers
      BY <3>2, Zenon
    <3> QED BY <1>1, <3>3, Zenon DEF Cascaded
  <2>5. map2 = [t \in Timers |-> map2[t]]
    BY <1>1, Zenon DEF Cascaded
  <2> QED BY <1>4, <2>2, <2>3, <2>4, <2>5, Zenon DEF Moves
<1>6. /\ WheelTypes(content2, map2) /\ Agree(map2, content2)
      /\ \A t \in Timers : map2[t] = None <=> map[t] = None
      /\ \A t \in Timers : t \notin content[from] => map2[t] = map[t] /\ map[t] # from
  BY <1>2, <1>5, MoveAll
<1>7. AllBelong(map2, expires, passed2)
  <2> SUFFICES ASSUME NEW t \in Timers, map2[t] # None
               PROVE  InPlace(expires[t], map2[t], passed2)
    BY Zenon DEF AllBelong
  <2>1. CASE t \in content[from]
    BY <1>4, <1>5, <2>1, Zenon DEF Moves
  <2>2. CASE t \notin content[from]
    <3>1. map2[t] = map[t] /\ map[t] # <<k, ix[k]>> /\ map[t] # None
      BY <1>2, <1>6, <2>2, Zenon
    <3> PICK y : y = RunsIn(expires[t], map[t])
      OBVIOUS
    <3>2. Belongs(y, map[t], passed)
      BY <3>1, Zenon DEF AllBelong, InPlace
    <3>3. k \in 1..4 /\ y \in Nat
      BY DEF RunsIn
    <3>4. Belongs(y, map[t], passed2)
      BY <1>2, <3>1, <3>2, <3>3, OthersBelong, Zenon
    <3> QED BY <3>1, <3>4, Zenon DEF InPlace
  <2> QED BY <2>1, <2>2
<1>9. Follows(map2, map)
  <2> SUFFICES ASSUME NEW t \in Timers
               PROVE  /\ LateIn(map, t) => LateIn(map2, t)
                      /\ LateIn(map2, t) => LateIn(map, t) \/ (barrier /\ expires[t] = frame)
    BY <1>6, Zenon DEF Follows
  <2>1. CASE t \in content[from]
    <3>1. from[1] # 1
      BY <1>2
    <3>2. ~LateIn(map, t)
      BY <1>3, <2>1, <3>1, Zenon DEF LateIn, IsLate
    <3>3. LateIn(map2, t) => barrier /\ expires[t] = frame
      BY <1>4, <1>5, <2>1, Zenon DEF Moves, LateIn
    <3> QED BY <3>2, <3>3
  <2>2. CASE t \notin content[from]
    <3>1. LateIn(map2, t) <=> LateIn(map, t)
      BY <1>6, <2>2, Zenon DEF LateIn
    <3> QED BY <3>1
  <2> QED BY <2>1, <2>2
<1>8. /\ new = [index |-> ix2, slots |-> content2, slotOf |-> map2]
      /\ Counted(frame, ix2, passed2, k + 1)
  BY <1>1, <1>2
<1>10. Stage(new, k + 1, map)
  BY <1>6, <1>7, <1>8, <1>9, StageReached
<1> QED BY <1>10

LEMMA StageOf ==
    ASSUME NEW s, NEW m, NEW map0, NEW map1, Stage(s, m, map1),
           Follows(map1, map0)
    PROVE  Stage(s, m, map0)
<1> PICK ix, content, map, passed :
      /\ s = [index |-> ix, slots |-> content, slotOf |-> map]
      /\ WheelTypes(content, map) /\ Agree(map, content)
      /\ Counted(frame, ix, passed, m)
      /\ AllBelong(map, expires, passed)
      /\ Follows(map, map1)
  BY DEF Stage
<1>1. Follows(map, map0)
  BY Zenon DEF Follows
<1> QED BY <1>1, StageReached

\* One turn of update's inner loop.
LEMMA TurnKeeps ==
    ASSUME NEW k \in 2..4, NEW s, NEW map0, Stage(s, k, map0),
           expires \in [Timers -> Nat]
    PROVE  Stage(Turn(s, k), k + 1, map0)
<1> PICK ix, content, map, passed :
      /\ s = [index |-> ix, slots |-> content, slotOf |-> map]
      /\ WheelTypes(content, map) /\ Agree(map, content)
      /\ Counted(frame, ix, passed, k)
      /\ AllBelong(map, expires, passed)
      /\ Follows(map, map0)
  BY DEF Stage
<1>1. k - 1 \in 1..4
  OBVIOUS
<1>2. ix[k - 1] \in Nat /\ ix[k - 1] <= Size[k - 1] /\ Size[k - 1] \in Nat
  BY <1>1, CountedAt, Sizes
<1>3. s.index = ix
  OBVIOUS
<1>4. CASE ix[k - 1] < Size[k - 1]
  <2>1. Turn(s, k) = s
    BY <1>2, <1>3, <1>4 DEF Turn
  <2>2. Counted(frame, ix, passed, k + 1)
    <3>1. k \in 2..5
      OBVIOUS
    <3> QED BY <1>4, <3>1, NoCarry
  <2>3. Stage(s, k + 1, map0)
    BY <2>2, StageReached
  <2> QED BY <2>1, <2>3
<1>5. CASE ix[k - 1] = Size[k - 1]
  <2> PICK r : r = [s EXCEPT !.index[k - 1] = 0]
    OBVIOUS
  <2>1. r.index = [ix EXCEPT ![k - 1] = 0] /\ r.slots = content /\ r.slotOf = map
    OBVIOUS
  <2>2. Turn(s, k) = CascadeTimers(r, k)
    BY <1>2, <1>3, <1>5 DEF Turn
  <2>3. Stage(CascadeTimers(r, k), k + 1, map)
    BY <1>5, <2>1, CascadeKeeps
  <2>4. Stage(CascadeTimers(r, k), k + 1, map0)
    BY <2>3, StageOf
  <2> QED BY <2>2, <2>4
<1> QED BY <1>2, <1>4, <1>5

\* All turns of an update.
LEMMA TurnedKeeps ==
    ASSUME WheelTypes(slots, slotOf), Agree(slotOf, slots),
           NEW passed, Counted(frame, index, passed, 2),
           AllBelong(slotOf, expires, passed), expires \in [Timers -> Nat]
    PROVE  Stage(Turned, 5, slotOf)
<1> PICK s : s = [index |-> index, slots |-> slots, slotOf |-> slotOf]
  OBVIOUS
<1>1. Stage(s, 2, slotOf)
  <2>1. Follows(slotOf, slotOf)
    BY Zenon DEF Follows
  <2> QED BY <2>1, StageReached
<1>2. /\ 2 \in 2..4 /\ 3 \in 2..4 /\ 4 \in 2..4
      /\ 2 + 1 = 3 /\ 3 + 1 = 4 /\ 4 + 1 = 5
  OBVIOUS
<1> PICK s2, s3, s4 : s2 = Turn(s, 2) /\ s3 = Turn(s2, 3) /\ s4 = Turn(s3, 4)
  OBVIOUS
<1>3. Stage(s2, 3, slotOf)
  BY <1>1, <1>2, TurnKeeps
<1>4. Stage(s3, 4, slotOf)
  BY <1>2, <1>3, TurnKeeps
<1>5. Stage(s4, 5, slotOf)
  BY <1>2, <1>4, TurnKeeps
<1>6. Turned = s4
  BY DEF Turned
<1> QED BY <1>5, <1>6
-----------------------------------------------------------------------------
(* Every step keeps the invariant. *)

LEMMA CountedIndex ==
    ASSUME NEW f, NEW ix, NEW passed, NEW m, Counted(f, ix, passed, m)
    PROVE  ix \in [1..4 -> Nat] /\ \A k \in 1..4 : ix[k] <= Size[k]
  BY DEF Counted

\* Wheels that have all been turned may be asked to turn again.
LEMMA CountedAgain ==
    ASSUME NEW f, NEW ix, NEW passed, Counted(f, ix, passed, 6)
    PROVE  Counted(f, ix, passed, 2) /\ \A k \in 1..4 : ix[k] < Size[k]
<1>1. ASSUME NEW k \in 1..4 PROVE ix[k] # Size[k] /\ ix[k] < Size[k]
  <2>1. ix[k] \in Nat /\ ix[k] <= Size[k] /\ Size[k] \in Nat
        /\ (ix[k] = Size[k] => k = 6 - 1)
    BY CountedAt, Sizes
  <2> QED BY <2>1
<1>2. \A k \in 1..4 : k < 2 => k < 6
  OBVIOUS
<1> QED BY <1>1, <1>2 DEF Counted

LEMMA TypesNow ==
    ASSUME WheelInv
    PROVE  /\ WheelTypes(slots, slotOf) /\ Agree(slotOf, slots)
           /\ expires \in [Timers -> Nat] /\ frame \in Nat /\ MaxFrame \in Nat
           /\ \E passed : /\ Counted(frame, index, passed, Turning)
                          /\ Counted(frame, index, passed, 2)
                          /\ AllBelong(slotOf, expires, passed)
<1>1. WheelTypes(slots, slotOf) /\ Agree(slotOf, slots) /\ MaxFrame \in Nat
  BY TimerAssumption DEF WheelInv, TypeOK, WheelTypes, MapFindsTimers, Agree
<1>2. expires \in [Timers -> Nat] /\ frame \in Nat
  <2>1. expires \in [Timers -> 0..MaxFrame] /\ frame \in 0..MaxFrame
    BY DEF WheelInv, TypeOK
  <2>2. 0..MaxFrame \subseteq Nat
    BY <1>1
  <2> QED BY <2>1, <2>2
<1> PICK passed : Counted(frame, index, passed, Turning) /\ AllBelong(slotOf, expires, passed)
  BY DEF WheelInv, WheelsInv
<1>3. Counted(frame, index, passed, 2)
  BY CountedAgain DEF Turning
<1> QED BY <1>1, <1>2, <1>3

LEMMA Initially == Init => WheelInv
<1> SUFFICES ASSUME Init PROVE WheelInv
  OBVIOUS
<1> USE DEF Init
<1>1. MaxFrame \in Nat /\ MaxRaises \in Nat
  BY TimerAssumption
<1>2. \A k \in 1..4 : /\ Size[k] \in Nat /\ Size[k] > 1 /\ Span[k] \in Nat /\ Span[k] > 0
                      /\ 0 * Size[k] = 0 /\ 0 * Span[k] = 0
  BY Sizes
<1>3. index \in [1..4 -> Nat] /\ \A k \in 1..4 : index[k] = 0
  OBVIOUS
<1>4. TypeOK
  <2>1. slots \in [Slot -> SUBSET Timers] /\ slotOf \in [Timers -> Slot \cup {None}]
    OBVIOUS
  <2>2. expires \in [Timers -> 0..MaxFrame] /\ cycle \in [Timers -> Cycles \cup {0}]
    BY <1>1
  <2>3. \A k \in 1..4 : index[k] <= Size[k]
    BY <1>2, <1>3
  <2>4. /\ frame \in 0..MaxFrame /\ elapsed \in 0..1 /\ raises \in 0..MaxRaises
        /\ at \in {"idle", "slot", "callback"} /\ current \in Timers \cup {None}
    BY <1>1
  <2>5. barrier \in BOOLEAN
    OBVIOUS
  <2> QED BY <1>3, <2>1, <2>2, <2>3, <2>4, <2>5, Zenon DEF TypeOK
<1>5. MapFindsTimers
  BY NoneAssumption DEF MapFindsTimers
<1> PICK passed : passed = [k \in 1..5 |-> 0]
  OBVIOUS
<1>6. Counted(frame, index, passed, 2)
  <2>1. passed \in [1..5 -> Nat]
    OBVIOUS
  <2>2. \A k \in 1..4 : passed[k] = 0 /\ passed[k + 1] = 0
    OBVIOUS
  <2> QED BY <1>2, <1>3, <2>1, <2>2 DEF Counted
<1>7. AllBelong(slotOf, expires, passed)
  BY DEF AllBelong
<1>8. WheelsInv
  BY <1>6, <1>7 DEF WheelsInv, Turning
<1>9. RunInv
  BY DEF RunInv
<1> QED BY <1>4, <1>5, <1>8, <1>9 DEF WheelInv

\* One timer is put in a slot, and is in no other.
Puts(content, map, content2, map2, t, p) ==
    /\ content2 = [[q \in Slot |-> content[q] \ {t}] EXCEPT ![p] = @ \cup {t}]
    /\ map2 = [map EXCEPT ![t] = p]

LEMMA PutAgrees ==
    ASSUME NEW content, NEW map, WheelTypes(content, map), Agree(map, content),
           NEW t \in Timers, NEW p \in Slot, NEW content2, NEW map2,
           Puts(content, map, content2, map2, t, p)
    PROVE  WheelTypes(content2, map2) /\ Agree(map2, content2)
<1> USE DEF Puts
<1>1. content2 \in [Slot -> SUBSET Timers] /\ map2 \in [Timers -> Slot \cup {None}]
  BY DEF WheelTypes
<1>2. ASSUME NEW u \in Timers, NEW q \in Slot PROVE u \in content2[q] <=> map2[u] = q
  <2>1. u \in content[q] <=> map[u] = q
    BY DEF Agree
  <2>2. content2[q] = IF q = p THEN (content[q] \ {t}) \cup {t} ELSE content[q] \ {t}
    OBVIOUS
  <2>3. map2[u] = IF u = t THEN p ELSE map[u]
    BY DEF WheelTypes
  <2> QED BY <2>1, <2>2, <2>3
<1> QED BY <1>1, <1>2 DEF WheelTypes, Agree

\* One timer is taken out of its slot.
LEMMA TakeAgrees ==
    ASSUME NEW content, NEW map, WheelTypes(content, map), Agree(map, content),
           NEW t \in Timers,
           NEW content2, content2 = [q \in Slot |-> content[q] \ {t}],
           NEW map2, map2 = [map EXCEPT ![t] = None]
    PROVE  WheelTypes(content2, map2) /\ Agree(map2, content2)
<1>1. content2 \in [Slot -> SUBSET Timers] /\ map2 \in [Timers -> Slot \cup {None}]
  BY DEF WheelTypes
<1>2. ASSUME NEW u \in Timers, NEW q \in Slot PROVE u \in content2[q] <=> map2[u] = q
  <2>1. u \in content[q] <=> map[u] = q
    BY DEF Agree
  <2>2. map2[u] = IF u = t THEN None ELSE map[u]
    BY DEF WheelTypes
  <2>3. q # None
    BY NoneAssumption
  <2> QED BY <2>1, <2>2, <2>3
<1> QED BY <1>1, <1>2 DEF WheelTypes, Agree

\* A timer put with a time of its own leaves the others in their rounds.
LEMMA PutBelongs ==
    ASSUME NEW map, NEW x, NEW passed, AllBelong(map, x, passed),
           NEW t \in Timers, NEW p, NEW y, InPlace(y, p, passed),
           map \in [Timers -> Slot \cup {None}], x \in [Timers -> Nat],
           NEW map2, map2 = [map EXCEPT ![t] = p], NEW x2, x2 = [x EXCEPT ![t] = y]
    PROVE  AllBelong(map2, x2, passed)
  BY DEF AllBelong

LEMMA TakeBelongs ==
    ASSUME NEW map, NEW x, NEW passed, AllBelong(map, x, passed), NEW t \in Timers,
           map \in [Timers -> Slot \cup {None}],
           NEW map2, map2 = [map EXCEPT ![t] = None],
           NEW x2, \A u \in Timers : u # t => x2[u] = x[u]
    PROVE  AllBelong(map2, x2, passed)
  BY DEF AllBelong

\* add_timer puts a timer in its frame: the slot that is run is not behind it.
LEMMA AddTimerKeeps ==
    ASSUME WheelInv, NEW t \in Timers, NEW e \in Delays, NEW c \in Cycles,
           AddTimer(t, e, c)
    PROVE  /\ WheelInv'
           /\ \E x \in Nat : /\ expires' = [expires EXCEPT ![t] = x] /\ frame <= x
                             /\ ~IsLate(x, slotOf'[t])
                             /\ slotOf'[t] # None /\ slotOf[t] = None
                             /\ \A u \in Timers : u # t => slotOf'[u] = slotOf[u]
<1> PICK passed : /\ Counted(frame, index, passed, Turning)
                  /\ Counted(frame, index, passed, 2)
                  /\ AllBelong(slotOf, expires, passed)
  BY TypesNow
<1>1. /\ WheelTypes(slots, slotOf) /\ Agree(slotOf, slots) /\ expires \in [Timers -> Nat]
      /\ frame \in Nat /\ MaxFrame \in Nat
  BY TypesNow
<1>2. e \in Nat /\ c \in Nat /\ elapsed \in 0..1
  BY TimerAssumption DEF WheelInv, TypeOK
<1> PICK x \in Expires(e) :
       /\ x - frame < Horizon /\ x + c + 1 < MaxFrame
       /\ expires' = [expires EXCEPT ![t] = x]
       /\ cycle' = [cycle EXCEPT ![t] = c]
       /\ slots' = [slots EXCEPT ![SlotFor(x, index[1])] = @ \cup {t}]
       /\ slotOf' = [slotOf EXCEPT ![t] = SlotFor(x, index[1])]
  BY DEF AddTimer
<1>3. /\ slotOf[t] = None /\ t # current
      /\ UNCHANGED <<frame, elapsed, index, at, current, barrier, raises>>
  BY DEF AddTimer
<1>4. x \in Nat /\ frame <= x /\ (x = frame => elapsed = 0)
  BY <1>1, <1>2 DEF Expires
<1>5. x = frame => ~barrier /\ index[1] < Size[1]
  <2> SUFFICES ASSUME x = frame PROVE ~barrier /\ index[1] < Size[1]
    OBVIOUS
  <2>1. frame = 0 /\ ~barrier
    BY <1>4 DEF WheelInv, RunInv
  <2>2. /\ index[1] \in Nat /\ index[1] <= Size[1] /\ Size[1] \in Nat /\ Size[1] > 1
        /\ passed[1 + 1] \in Nat /\ passed[1] = passed[1 + 1] * Size[1] + index[1]
        /\ passed[1] = frame
    <3>1. 1 \in 1..4
      OBVIOUS
    <3> QED BY <3>1, CountedAt, Sizes
  <2>3. passed[1 + 1] * Size[1] \in Nat
    BY <2>2
  <2>4. index[1] = 0
    BY <2>1, <2>2, <2>3
  <2> QED BY <2>1, <2>2, <2>4
<1> PICK p : p = SlotFor(x, index[1])
  OBVIOUS
<1>6. InPlace(x, p, passed) /\ ~IsLate(x, p) /\ p \in Slot /\ p # None
  <2>1. InPlace(x, p, passed) /\ ~IsLate(x, p)
    BY <1>4, <1>5, SlotForBelongs
  <2> QED BY <2>1, SlotParts DEF InPlace, Belongs
<1>7. slotOf'[t] = p /\ \A u \in Timers : u # t => slotOf'[u] = slotOf[u]
  BY <1>1 DEF WheelTypes
<1>8. WheelTypes(slots', slotOf') /\ Agree(slotOf', slots')
  <2> PICK rest : rest = [q \in Slot |-> slots[q] \ {t}]
    OBVIOUS
  <2>1. rest = slots
    <3>1. \A q \in Slot : t \notin slots[q]
      BY <1>1, <1>3, NoneAssumption DEF Agree
    <3>2. slots = [q \in Slot |-> slots[q]]
      BY <1>1 DEF WheelTypes
    <3>3. \A q \in Slot : slots[q] \ {t} = slots[q]
      BY <3>1
    <3> QED BY <3>2, <3>3
  <2>2. slots' = [rest EXCEPT ![p] = @ \cup {t}] /\ slotOf' = [slotOf EXCEPT ![t] = p]
    BY <2>1
  <2>3. Puts(slots, slotOf, slots', slotOf', t, p)
    BY <2>2 DEF Puts
  <2> QED BY <1>1, <1>6, <2>3, PutAgrees
<1>9. AllBelong(slotOf', expires', passed)
  BY <1>1, <1>6, PutBelongs DEF WheelTypes
<1>10. WheelsInv'
  BY <1>3, <1>9 DEF WheelsInv, Turning
<1>11. TypeOK'
  <2>1. x \in 0..MaxFrame
    BY <1>1, <1>2, <1>4
  <2>2. expires' \in [Timers -> 0..MaxFrame] /\ cycle' \in [Timers -> Cycles \cup {0}]
    BY <2>1 DEF WheelInv, TypeOK
  <2> QED BY <1>3, <1>8, <2>2 DEF WheelInv, TypeOK, WheelTypes
<1>12. RunInv'
  <2>1. current \in Timers \cup {None} /\ at \in {"idle", "slot", "callback"}
    BY DEF WheelInv, TypeOK
  <2>2. at' = "callback" =>
          barrier' /\ slotOf'[current'] \in {None, <<1, index'[1]>>}
    <3>1. at = "callback" => current \in Timers /\ current # t
      BY <1>3, <2>1 DEF WheelInv, RunInv
    <3>2. at = "callback" => slotOf'[current] = slotOf[current]
      BY <1>7, <3>1
    <3> QED BY <1>3, <3>2 DEF WheelInv, RunInv
  <2> QED BY <1>3, <2>2 DEF WheelInv, RunInv
<1>13. WheelInv'
  BY <1>8, <1>10, <1>11, <1>12, Zenon DEF WheelInv, MapFindsTimers, Agree
<1>14. \E y \in Nat : /\ expires' = [expires EXCEPT ![t] = y] /\ frame <= y
                      /\ ~IsLate(y, slotOf'[t]) /\ slotOf'[t] # None /\ slotOf[t] = None
                      /\ \A u \in Timers : u # t => slotOf'[u] = slotOf[u]
  <2> USE <1>4
  <2> WITNESS x \in Nat
  <2> QED BY <1>3, <1>4, <1>6, <1>7, Zenon
<1> QED BY <1>13, <1>14, Zenon

\* remove_timer takes the timer out of the slot the map names, the only one it is in.
LEMMA RemoveTimerKeeps ==
    ASSUME WheelInv, NEW t \in Timers, RemoveTimer(t)
    PROVE  /\ WheelInv'
           /\ slotOf'[t] = None
           /\ \A u \in Timers : u # t => slotOf'[u] = slotOf[u] /\ expires'[u] = expires[u]
<1> PICK passed : /\ Counted(frame, index, passed, Turning)
                  /\ Counted(frame, index, passed, 2)
                  /\ AllBelong(slotOf, expires, passed)
  BY TypesNow
<1>1. /\ WheelTypes(slots, slotOf) /\ Agree(slotOf, slots) /\ expires \in [Timers -> Nat]
      /\ frame \in Nat /\ MaxFrame \in Nat
  BY TypesNow
<1>2. /\ at # "slot" /\ slotOf[t] # None
      /\ slots' = [slots EXCEPT ![slotOf[t]] = @ \ {t}]
      /\ slotOf' = [slotOf EXCEPT ![t] = None]
      /\ expires' = IF t = current THEN expires ELSE [expires EXCEPT ![t] = 0]
      /\ cycle' = IF t = current THEN cycle ELSE [cycle EXCEPT ![t] = 0]
      /\ UNCHANGED <<frame, elapsed, index, at, current, barrier, raises>>
  BY DEF RemoveTimer
<1>3. slots' = [q \in Slot |-> slots[q] \ {t}]
  <2>1. slotOf[t] \in Slot
    BY <1>1, <1>2 DEF WheelTypes
  <2>2. \A q \in Slot : q # slotOf[t] => slots[q] = slots[q] \ {t}
    BY <1>1 DEF Agree
  <2>3. slots' = [q \in Slot |-> IF q = slotOf[t] THEN slots[q] \ {t} ELSE slots[q]]
    BY <1>1, <1>2, <2>1 DEF WheelTypes
  <2>4. \A q \in Slot : (IF q = slotOf[t] THEN slots[q] \ {t} ELSE slots[q]) = slots[q] \ {t}
    BY <2>2
  <2> QED BY <2>3, <2>4
<1>4. WheelTypes(slots', slotOf') /\ Agree(slotOf', slots')
  BY <1>1, <1>2, <1>3, TakeAgrees
<1>5. /\ slotOf'[t] = None
      /\ \A u \in Timers : u # t => slotOf'[u] = slotOf[u] /\ expires'[u] = expires[u]
  BY <1>1, <1>2 DEF WheelTypes
<1>6. AllBelong(slotOf', expires', passed)
  BY <1>1, <1>2, <1>5, TakeBelongs DEF WheelTypes
<1>7. WheelsInv'
  BY <1>2, <1>6 DEF WheelsInv, Turning
<1>8. TypeOK'
  <2>1. 0 \in 0..MaxFrame
    BY <1>1
  <2>2. expires' \in [Timers -> 0..MaxFrame] /\ cycle' \in [Timers -> Cycles \cup {0}]
    BY <1>2, <2>1 DEF WheelInv, TypeOK
  <2> QED BY <1>2, <1>4, <2>2 DEF WheelInv, TypeOK, WheelTypes
<1>9. RunInv'
  <2>1. current \in Timers \cup {None} /\ at \in {"idle", "slot", "callback"}
    BY DEF WheelInv, TypeOK
  <2>2. at' = "callback" =>
          barrier' /\ slotOf'[current'] \in {None, <<1, index'[1]>>}
    <3>1. at = "callback" => current \in Timers
      BY <2>1 DEF WheelInv, RunInv
    <3> QED BY <1>2, <1>5, <3>1 DEF WheelInv, RunInv
  <2> QED BY <1>2, <2>1, <2>2 DEF WheelInv, RunInv
<1> QED BY <1>4, <1>5, <1>7, <1>8, <1>9 DEF WheelInv, MapFindsTimers, Agree

\* A timer in the slot that is run is due in this frame.
LEMMA SlotHoldsFrame ==
    ASSUME NEW passed, Counted(frame, index, passed, 6),
           AllBelong(slotOf, expires, passed), expires \in [Timers -> Nat],
           NEW t \in Timers, slotOf[t] # None
    PROVE  /\ <<1, index[1]>> \in Slot
           /\ slotOf[t] = <<1, index[1]>> <=> RunsIn(expires[t], slotOf[t]) = frame
<1>1. 1 \in 1..4 /\ index[1] < Size[1]
  BY CountedAgain
<1>2. Size[1] \in Nat \ {0} /\ frame \in Nat /\ passed[1] = frame
  BY <1>1, Sizes, CountedAt
<1>3. <<1, index[1]>> \in Slot /\ frame % Size[1] = index[1]
  <2>1. passed[1] % Size[1] = index[1] /\ <<1, index[1]>> \in Slot
    BY <1>1, IndexIsDigit
  <2> QED BY <1>2, <2>1
<1> PICK p : p = slotOf[t]
  OBVIOUS
<1> PICK x \in Nat : x = RunsIn(expires[t], p)
  BY DEF RunsIn
<1>4. Belongs(x, p, passed)
  BY DEF AllBelong, InPlace
<1>5. /\ p = <<p[1], p[2]>> /\ p[1] \in 1..4 /\ p[2] \in 0..(Size[p[1]] - 1)
  BY <1>4, SlotParts DEF Belongs
<1>6. CASE p[1] = 1
  <2>1. Number(1, x) = x
    BY DEF Number
  <2>2. frame <= x /\ x < frame + Size[1] /\ p[2] = x % Size[1]
    BY <1>2, <1>4, <1>6, <2>1 DEF Belongs
  <2>3. p[2] = index[1] => x = frame
    BY <1>2, <1>3, <2>2, SameRemainder
  <2>4. x = frame => p[2] = index[1]
    BY <1>3, <2>2
  <2>5. p = <<1, index[1]>> <=> p[2] = index[1]
    BY <1>5, <1>6
  <2> QED BY <1>3, <2>2, <2>3, <2>4, <2>5
<1>7. CASE p[1] # 1
  <2> PICK k \in 2..4 : k = p[1]
    BY <1>5, <1>7
  <2>1. k \in 1..4 /\ k < 6
    OBVIOUS
  <2>2. /\ Size[k] \in Nat /\ Span[k] \in Nat \ {0} /\ passed[k] \in Nat
        /\ frame < passed[k] * Span[k] + Span[k]
    BY <2>1, Sizes, CountedAt
  <2>3. Number(k, x) = x \div Span[k] - 1
    BY DEF Number
  <2> PICK q : q = x \div Span[k]
    OBVIOUS
  <2>4. q \in Nat /\ q * Span[k] <= x
    BY <2>2, QuotientBounds
  <2>5. passed[k] <= q - 1
    BY <1>4, <2>3 DEF Belongs
  <2>6. (passed[k] + 1) * Span[k] <= q * Span[k]
    BY <2>2, <2>4, <2>5, TimesOrder
  <2>7. (passed[k] + 1) * Span[k] = passed[k] * Span[k] + Span[k]
        /\ passed[k] * Span[k] \in Nat /\ q * Span[k] \in Nat
    BY <2>2, <2>4
  <2>8. frame < x
    BY <1>2, <2>2, <2>4, <2>6, <2>7
  <2>9. p # <<1, index[1]>>
    BY <1>7
  <2> QED BY <1>2, <1>3, <2>8, <2>9
<1> QED BY <1>6, <1>7

LEMMA CallbackKeeps ==
    ASSUME WheelInv, NEW t \in Timers, Callback(t)
    PROVE  /\ WheelInv' /\ UNCHANGED <<frame, slotOf, expires>>
           /\ slotOf[t] # None /\ RunsIn(expires[t], slotOf[t]) = frame
<1>1. /\ at = "slot" /\ t \in slots[<<1, index[1]>>]
      /\ at' = "callback" /\ current' = t /\ barrier' = TRUE
      /\ UNCHANGED <<frame, elapsed, index, slots, slotOf, expires, cycle, raises>>
  BY DEF Callback, wheel
<1> PICK passed : /\ Counted(frame, index, passed, 6)
                  /\ AllBelong(slotOf, expires, passed)
  <2>1. Turning = 6
    BY <1>1 DEF Turning
  <2> QED BY <2>1 DEF WheelInv, WheelsInv
<1>2. Agree(slotOf, slots) /\ expires \in [Timers -> Nat]
  BY TypesNow
<1>3. slotOf[t] = <<1, index[1]>> /\ slotOf[t] # None
  <2>1. <<1, index[1]>> \in Slot
    <3>1. 1 \in 1..4 /\ index[1] < Size[1]
      BY CountedAgain
    <3> QED BY <3>1, IndexIsDigit
  <2> QED BY <1>1, <1>2, <2>1, SlotParts DEF Agree
<1>4. RunsIn(expires[t], slotOf[t]) = frame
  BY <1>2, <1>3, SlotHoldsFrame
<1>5. t # None
  BY NoneAssumption
<1>6. TypeOK'
  BY <1>1 DEF WheelInv, TypeOK
<1>7. WheelsInv'
  BY <1>1 DEF WheelsInv, Turning
<1>8. RunInv'
  BY <1>1, <1>3, <1>5 DEF WheelInv, RunInv
<1> QED BY <1>1, <1>3, <1>4, <1>6, <1>7, <1>8 DEF WheelInv, MapFindsTimers

LEMMA CallbackRaisesKeeps ==
    ASSUME WheelInv, CallbackRaises
    PROVE  /\ WheelInv' /\ UNCHANGED <<frame, slotOf>>
           /\ \A u \in Timers : slotOf[u] # None => expires'[u] = expires[u]
<1> PICK c : c = current
  OBVIOUS
<1>1. /\ at = "callback" /\ raises < MaxRaises
      /\ raises' = raises + 1 /\ at' = "idle" /\ current' = None
      /\ expires' = [expires EXCEPT ![c] = IF slotOf[c] = None THEN 0 ELSE @]
      /\ cycle' = [cycle EXCEPT ![c] = IF slotOf[c] = None THEN 0 ELSE @]
      /\ UNCHANGED <<frame, elapsed, index, slots, slotOf, barrier>>
  BY DEF CallbackRaises, wheel
<1> PICK passed : /\ Counted(frame, index, passed, 6)
                  /\ AllBelong(slotOf, expires, passed)
  <2>1. Turning = 6
    BY <1>1 DEF Turning
  <2> QED BY <2>1 DEF WheelInv, WheelsInv
<1>2. Counted(frame, index, passed, 2)
  BY CountedAgain
<1>3. \A u \in Timers : slotOf[u] # None => expires'[u] = expires[u]
  <2>1. expires \in [Timers -> Nat]
    BY TypesNow
  <2> QED BY <1>1, <2>1
<1>4. TypeOK'
  <2>1. raises' \in 0..MaxRaises
    BY <1>1, TimerAssumption DEF WheelInv, TypeOK
  <2>2. 0 \in 0..MaxFrame
    BY TimerAssumption
  <2>3. expires' \in [Timers -> 0..MaxFrame] /\ cycle' \in [Timers -> Cycles \cup {0}]
    BY <1>1, <2>2 DEF WheelInv, TypeOK
  <2> QED BY <1>1, <2>1, <2>3 DEF WheelInv, TypeOK
<1>5. AllBelong(slotOf, expires', passed)
  BY <1>3, Zenon DEF AllBelong
<1>6. WheelsInv'
  BY <1>1, <1>2, <1>5 DEF WheelsInv, Turning
<1>7. RunInv'
  BY <1>1 DEF WheelInv, RunInv
<1> QED BY <1>1, <1>3, <1>4, <1>6, <1>7 DEF WheelInv, MapFindsTimers

\* The timer whose callback returns was due in this frame, and leaves its slot;
\* a cycle puts it in a later frame.
LEMMA CallbackReturnsKeeps ==
    ASSUME WheelInv, CallbackReturns
    PROVE  /\ WheelInv' /\ UNCHANGED frame
           /\ current \in Timers /\ frame \in Nat
           /\ slotOf[current] # None => RunsIn(expires[current], slotOf[current]) = frame
           /\ \A u \in Timers : u # current =>
                slotOf'[u] = slotOf[u] /\ expires'[u] = expires[u]
           /\ \/ slotOf'[current] = None
              \/ /\ slotOf'[current] # None /\ ~IsLate(expires'[current], slotOf'[current])
                 /\ expires'[current] \in Nat /\ expires'[current] > frame
<1>1. /\ at = "callback" /\ at' = "slot" /\ current' = None /\ barrier' = FALSE
      /\ UNCHANGED <<frame, elapsed, index, raises>>
  BY DEF CallbackReturns
<1> PICK passed : /\ Counted(frame, index, passed, 6)
                  /\ AllBelong(slotOf, expires, passed)
  <2>1. Turning = 6
    BY <1>1 DEF Turning
  <2> QED BY <2>1 DEF WheelInv, WheelsInv
<1>2. /\ WheelTypes(slots, slotOf) /\ Agree(slotOf, slots) /\ expires \in [Timers -> Nat]
      /\ frame \in Nat /\ MaxFrame \in Nat
  BY TypesNow
<1> PICK c : c = current
  OBVIOUS
<1>3. c \in Timers /\ (slotOf[c] # None => RunsIn(expires[c], slotOf[c]) = frame)
  <2>1. c \in Timers /\ slotOf[c] \in {None, <<1, index[1]>>}
    BY <1>1 DEF WheelInv, TypeOK, RunInv
  <2> QED BY <1>2, <2>1, SlotHoldsFrame
<1>4. CASE /\ slots' = Without(c)
           /\ slotOf' = [slotOf EXCEPT ![c] = None]
           /\ expires' = [expires EXCEPT ![c] = 0]
           /\ cycle' = [cycle EXCEPT ![c] = 0]
  <2>1. WheelTypes(slots', slotOf') /\ Agree(slotOf', slots')
    BY <1>2, <1>3, <1>4, TakeAgrees DEF Without
  <2>2. /\ slotOf'[c] = None
        /\ \A u \in Timers : u # c => slotOf'[u] = slotOf[u] /\ expires'[u] = expires[u]
    BY <1>2, <1>3, <1>4 DEF WheelTypes
  <2>3. AllBelong(slotOf', expires', passed)
    BY <2>2 DEF AllBelong
  <2>4. WheelsInv'
    BY <1>1, <2>3 DEF WheelsInv, Turning
  <2>5. TypeOK'
    <3>1. 0 \in 0..MaxFrame
      BY <1>2
    <3>2. expires' \in [Timers -> 0..MaxFrame] /\ cycle' \in [Timers -> Cycles \cup {0}]
      BY <1>4, <3>1 DEF WheelInv, TypeOK
    <3> QED BY <1>1, <2>1, <3>2 DEF WheelInv, TypeOK, WheelTypes
  <2>6. RunInv'
    BY <1>1 DEF WheelInv, RunInv
  <2> QED BY <1>1, <1>2, <1>3, <2>1, <2>2, <2>4, <2>5, <2>6 DEF WheelInv, MapFindsTimers, Agree
<1>5. CASE \E x : /\ x = expires[c] + cycle[c] /\ cycle[c] > 0
                  /\ x > frame /\ x - frame < Horizon /\ x + 1 < MaxFrame
                  /\ slots' = [Without(c) EXCEPT ![SlotFor(x, index[1])] = @ \cup {c}]
                  /\ slotOf' = [slotOf EXCEPT ![c] = SlotFor(x, index[1])]
                  /\ expires' = [expires EXCEPT ![c] = x]
                  /\ UNCHANGED cycle
  <2> PICK x : /\ x = expires[c] + cycle[c] /\ cycle[c] > 0
               /\ x > frame /\ x - frame < Horizon /\ x + 1 < MaxFrame
               /\ slots' = [Without(c) EXCEPT ![SlotFor(x, index[1])] = @ \cup {c}]
               /\ slotOf' = [slotOf EXCEPT ![c] = SlotFor(x, index[1])]
               /\ expires' = [expires EXCEPT ![c] = x]
               /\ UNCHANGED cycle
    BY <1>5
  <2> PICK p : p = SlotFor(x, index[1])
    OBVIOUS
  <2>1. x \in Nat /\ x > frame
    <3>1. cycle \in [Timers -> Cycles \cup {0}]
      BY DEF WheelInv, TypeOK
    <3>2. Cycles \subseteq Nat
      BY TimerAssumption
    <3>3. cycle[c] \in Nat
      BY <1>3, <3>1, <3>2
    <3> QED BY <1>2, <1>3, <3>3
  <2>2. InPlace(x, p, passed) /\ ~IsLate(x, p) /\ p \in Slot /\ p # None
    <3>1. frame <= x /\ x # frame
      BY <1>2, <2>1
    <3>2. InPlace(x, p, passed) /\ ~IsLate(x, p)
      BY <2>1, <3>1, SlotForBelongs
    <3> QED BY <3>2, SlotParts DEF InPlace, Belongs
  <2>3. WheelTypes(slots', slotOf') /\ Agree(slotOf', slots')
    <3>1. Puts(slots, slotOf, slots', slotOf', c, p)
      BY DEF Puts, Without
    <3> QED BY <1>2, <1>3, <2>2, <3>1, PutAgrees
  <2>4. /\ slotOf'[c] = p /\ expires'[c] = x
        /\ \A u \in Timers : u # c => slotOf'[u] = slotOf[u] /\ expires'[u] = expires[u]
    BY <1>2, <1>3 DEF WheelTypes
  <2>5. AllBelong(slotOf', expires', passed)
    BY <1>2, <1>3, <2>2, PutBelongs DEF WheelTypes
  <2>6. WheelsInv'
    BY <1>1, <2>5 DEF WheelsInv, Turning
  <2>7. TypeOK'
    <3>1. x \in 0..MaxFrame
      BY <1>2, <2>1
    <3>2. expires' \in [Timers -> 0..MaxFrame]
      BY <3>1 DEF WheelInv, TypeOK
    <3> QED BY <1>1, <2>3, <3>2 DEF WheelInv, TypeOK, WheelTypes
  <2>8. RunInv'
    BY <1>1 DEF WheelInv, RunInv
  <2> QED BY <1>1, <1>2, <1>3, <2>1, <2>2, <2>3, <2>4, <2>6, <2>7, <2>8
          DEF WheelInv, MapFindsTimers, Agree
<1> QED BY <1>4, <1>5 DEF CallbackReturns

\* A frame is over when its slot is empty; no timer is due in it then.
LEMMA EndFrameKeeps ==
    ASSUME WheelInv, EndFrame
    PROVE  /\ WheelInv' /\ frame' = frame + 1 /\ UNCHANGED <<slotOf, expires>>
           /\ \A t \in Timers : slotOf[t] # None => RunsIn(expires[t], slotOf[t]) # frame
           /\ frame \in Nat
<1>1. /\ at = "slot" /\ slots[<<1, index[1]>>] = {} /\ frame' = frame + 1
      /\ index' = [index EXCEPT ![1] = @ + 1] /\ at' = "idle"
      /\ UNCHANGED <<elapsed, slots, slotOf, expires, cycle, current, barrier, raises>>
  BY DEF EndFrame
<1> PICK passed : /\ Counted(frame, index, passed, 6)
                  /\ AllBelong(slotOf, expires, passed)
  <2>1. Turning = 6
    BY <1>1 DEF Turning
  <2> QED BY <2>1 DEF WheelInv, WheelsInv
<1>2. /\ WheelTypes(slots, slotOf) /\ Agree(slotOf, slots) /\ expires \in [Timers -> Nat]
      /\ frame \in Nat /\ MaxFrame \in Nat
  BY TypesNow
<1>3. \A k \in 1..4 : index[k] < Size[k]
  BY CountedAgain
<1>4. <<1, index[1]>> \in Slot
  <2>1. 1 \in 1..4
    OBVIOUS
  <2> QED BY <1>3, <2>1, IndexIsDigit
<1>5. ASSUME NEW t \in Timers, slotOf[t] # None
      PROVE  slotOf[t] # <<1, index[1]>> /\ RunsIn(expires[t], slotOf[t]) # frame
  <2>1. slotOf[t] # <<1, index[1]>>
    BY <1>1, <1>2, <1>4 DEF Agree
  <2> QED BY <1>2, <1>5, <2>1, SlotHoldsFrame
<1> PICK passed2 : passed2 = [passed EXCEPT ![1] = @ + 1]
  OBVIOUS
<1>6. /\ passed2 \in [1..5 -> Nat] /\ passed2[1] = frame + 1
      /\ \A k \in 2..5 : passed2[k] = passed[k]
      /\ index' \in [1..4 -> Nat] /\ index'[1] = index[1] + 1
      /\ \A k \in 2..4 : index'[k] = index[k]
  BY <1>1 DEF Counted
<1>7. Counted(frame + 1, index', passed2, 2)
  <2>1. ASSUME NEW k \in 1..4
        PROVE  /\ passed2[k] = passed2[k + 1] * Size[k] + index'[k]
               /\ index'[k] <= Size[k]
               /\ index'[k] = Size[k] => k = 2 - 1 /\ frame + 1 = passed2[k] * Span[k]
               /\ passed2[k] * Span[k] <= frame + 1
               /\ frame + 1 <= passed2[k] * Span[k] + Span[k]
               /\ k < 2 => frame + 1 < passed2[k] * Span[k] + Span[k]
    <3>1. /\ passed[k] \in Nat /\ passed[k + 1] \in Nat /\ index[k] \in Nat
          /\ passed[k] = passed[k + 1] * Size[k] + index[k]
          /\ passed[k] * Span[k] <= frame /\ passed[1] = frame
      BY CountedAt
    <3>2. frame < passed[k] * Span[k] + Span[k]
      <4>1. k < 6
        OBVIOUS
      <4> QED BY <4>1, CountedAt
    <3>3. Size[k] \in Nat /\ Span[k] \in Nat /\ Span[1] = 1 /\ index[k] < Size[k]
      BY <1>3, Sizes
    <3>4. passed[k + 1] * Size[k] \in Nat /\ passed[k] * Span[k] \in Nat
      BY <3>1, <3>3
    <3>5. CASE k = 1
      <4>1. passed2[1 + 1] = passed[1 + 1]
        BY <1>6
      <4>2. passed2[1] = passed2[1 + 1] * Size[1] + index'[1]
        BY <1>6, <3>1, <3>3, <3>4, <3>5, <4>1
      <4>3. passed2[1] * Span[1] = frame + 1
        BY <1>2, <1>6, <3>3
      <4>4. index'[1] <= Size[1]
        BY <1>6, <3>1, <3>3, <3>5
      <4> QED BY <1>2, <3>3, <3>5, <4>2, <4>3, <4>4
    <3>6. CASE k \in 2..4
      <4>1. passed2[k] = passed[k] /\ passed2[k + 1] = passed[k + 1] /\ index'[k] = index[k]
        <5>1. k + 1 \in 2..5 /\ k \in 2..5
          BY <3>6
        <5> QED BY <1>6, <3>6, <5>1
      <4>2. ~(k < 2)
        BY <3>6
      <4>3. frame + 1 <= passed[k] * Span[k] + Span[k] /\ passed[k] * Span[k] <= frame + 1
        BY <1>2, <3>1, <3>2, <3>3, <3>4
      <4> QED BY <3>1, <3>3, <4>1, <4>2, <4>3
    <3> QED BY <3>5, <3>6
  <2> QED BY <1>6, <2>1 DEF Counted
<1>8. AllBelong(slotOf, expires, passed2)
  <2> SUFFICES ASSUME NEW t \in Timers, slotOf[t] # None
               PROVE  InPlace(expires[t], slotOf[t], passed2)
    BY DEF AllBelong
  <2> PICK y : y = RunsIn(expires[t], slotOf[t])
    OBVIOUS
  <2>1. Belongs(y, slotOf[t], passed) /\ y \in Nat
    BY <1>2 DEF AllBelong, InPlace, RunsIn
  <2>2. slotOf[t] # <<1, index[1]>> /\ 1 \in 1..4
    BY <1>5
  <2>3. OneMore(passed, passed2, 1)
    BY <1>3, <1>6 DEF OneMore
  <2>4. Belongs(y, slotOf[t], passed2)
    BY <1>3, <2>1, <2>2, <2>3, OthersBelong
  <2> QED BY <2>4 DEF InPlace
<1>9. WheelsInv'
  <2>1. Turning' = 2
    BY <1>1 DEF Turning
  <2> QED BY <1>1, <1>7, <1>8, <2>1 DEF WheelsInv
<1>10. frame < MaxFrame /\ current = None
  BY <1>1 DEF WheelInv, RunInv
<1>11. TypeOK'
  <2>1. frame' \in 0..MaxFrame
    BY <1>1, <1>2, <1>10
  <2>2. index' \in [1..4 -> Nat] /\ \A k \in 1..4 : index'[k] <= Size[k]
    BY <1>7, CountedIndex
  <2> QED BY <1>1, <2>1, <2>2 DEF WheelInv, TypeOK
<1>12. RunInv'
  BY <1>1, <1>10 DEF WheelInv, RunInv
<1> QED BY <1>1, <1>2, <1>5, <1>9, <1>11, <1>12 DEF WheelInv, MapFindsTimers

\* The last wheel has gone around, and starts again without a carry.
LEMMA GoesAround ==
    ASSUME NEW f, NEW ix, NEW passed, Counted(f, ix, passed, 5), ix[4] >= Size[4],
           NEW passed2, passed2 = [passed EXCEPT ![5] = @ + 1],
           NEW ix2, ix2 = [ix EXCEPT ![4] = 0]
    PROVE  Counted(f, ix2, passed2, 2)
<1>1. ix \in [1..4 -> Nat] /\ passed \in [1..5 -> Nat]
  BY DEF Counted
<1>2. /\ ix2 \in [1..4 -> Nat] /\ ix2[4] = 0 /\ \A k \in 1..3 : ix2[k] = ix[k]
      /\ passed2 \in [1..5 -> Nat] /\ passed2[5] = passed[5] + 1
      /\ \A k \in 1..4 : passed2[k] = passed[k]
  BY <1>1
<1>3. ASSUME NEW k \in 1..4
      PROVE  /\ passed2[k] = passed2[k + 1] * Size[k] + ix2[k]
             /\ ix2[k] <= Size[k]
             /\ ix2[k] = Size[k] => k = 2 - 1 /\ f = passed2[k] * Span[k]
             /\ passed2[k] * Span[k] <= f /\ f <= passed2[k] * Span[k] + Span[k]
             /\ k < 2 => f < passed2[k] * Span[k] + Span[k]
  <2>1. /\ f \in Nat /\ passed[k] \in Nat /\ passed[k + 1] \in Nat
        /\ ix[k] \in Nat /\ ix[k] <= Size[k]
        /\ passed[k] = passed[k + 1] * Size[k] + ix[k]
        /\ passed[k] * Span[k] <= f /\ f <= passed[k] * Span[k] + Span[k]
        /\ k < 5 => f < passed[k] * Span[k] + Span[k]
        /\ ix[k] = Size[k] => k = 5 - 1
    BY CountedAt
  <2>2. Size[k] \in Nat /\ Size[k] > 1
    BY Sizes
  <2>3. k < 5 /\ passed2[k] = passed[k]
    BY <1>2
  <2>4. CASE k = 4
    <3>1. ix[4] = Size[4]
      BY <2>1, <2>2, <2>4
    <3>2. (passed[5] + 1) * Size[4] = passed[5] * Size[4] + Size[4]
          /\ passed[5] * Size[4] \in Nat /\ 4 + 1 = 5
      BY <2>1, <2>2, <2>4
    <3>3. passed2[4] = passed2[4 + 1] * Size[4] + ix2[4]
      BY <1>2, <2>1, <2>2, <2>3, <2>4, <3>1, <3>2
    <3> QED BY <1>2, <2>1, <2>2, <2>3, <2>4, <3>3
  <2>5. CASE k \in 1..3
    <3>1. k + 1 \in 1..4 /\ k # 5 - 1
      BY <2>5
    <3>2. passed2[k + 1] = passed[k + 1] /\ ix2[k] = ix[k]
      BY <1>2, <2>5, <3>1
    <3> QED BY <2>1, <2>3, <3>1, <3>2
  <2> QED BY <2>4, <2>5
<1> QED BY <1>2, <1>3, <1>1 DEF Counted

\* The first update only lets time pass.
LEMMA FirstUpdateKeeps ==
    ASSUME WheelInv, StartUpdate, elapsed = 0
    PROVE  WheelInv' /\ UNCHANGED <<frame, slotOf, expires>>
<1>1. /\ elapsed' = 1
      /\ UNCHANGED <<frame, index, slots, slotOf, expires, cycle, at, current, barrier, raises>>
  BY DEF StartUpdate, wheel
<1>2. TypeOK'
  BY <1>1 DEF WheelInv, TypeOK
<1>3. WheelsInv'
  BY <1>1 DEF WheelInv, WheelsInv, Turning
<1>4. RunInv'
  BY <1>1 DEF WheelInv, RunInv
<1> QED BY <1>1, <1>2, <1>3, <1>4 DEF WheelInv, MapFindsTimers

\* update turns the wheels; what it leaves pending was pending before.
LEMMA StartUpdateKeeps ==
    ASSUME WheelInv, StartUpdate, elapsed # 0
    PROVE  /\ WheelInv' /\ UNCHANGED <<frame, expires>>
           /\ Follows(slotOf', slotOf)
<1> PICK passed : /\ Counted(frame, index, passed, 2)
                  /\ AllBelong(slotOf, expires, passed)
  BY TypesNow
<1>1. /\ WheelTypes(slots, slotOf) /\ Agree(slotOf, slots) /\ expires \in [Timers -> Nat]
      /\ frame \in Nat /\ MaxFrame \in Nat
  BY TypesNow
<1> PICK new : new = Turned
  OBVIOUS
<1>2. /\ at = "idle" /\ frame < MaxFrame /\ elapsed' = 1
      /\ UNCHANGED <<frame, expires, cycle, current, barrier, raises>>
      /\ index' = IF new.index[4] >= Size[4] THEN [new.index EXCEPT ![4] = 0] ELSE new.index
      /\ slots' = new.slots /\ slotOf' = new.slotOf
      /\ at' = IF new.index[4] >= Size[4] THEN "idle" ELSE "slot"
  BY DEF StartUpdate
<1>3. Stage(new, 5, slotOf)
  BY <1>1, TurnedKeeps
<1> PICK ix, content, map, passed1 :
      /\ new = [index |-> ix, slots |-> content, slotOf |-> map]
      /\ WheelTypes(content, map) /\ Agree(map, content)
      /\ Counted(frame, ix, passed1, 5)
      /\ AllBelong(map, expires, passed1)
      /\ Follows(map, slotOf)
  BY <1>3 DEF Stage
<1>4. /\ new.index = ix /\ slots' = content /\ slotOf' = map
      /\ WheelTypes(slots', slotOf') /\ Agree(slotOf', slots')
  BY <1>2
<1>5. \E passed2 : /\ Counted(frame, index', passed2, Turning')
                   /\ AllBelong(map, expires, passed2)
  <2>1. CASE ix[4] >= Size[4]
    <3> PICK passed2 : passed2 = [passed1 EXCEPT ![5] = @ + 1]
      OBVIOUS
    <3>1. index' = [ix EXCEPT ![4] = 0] /\ Turning' = 2
      BY <1>2, <1>4, <2>1 DEF Turning
    <3>2. Counted(frame, index', passed2, 2)
      BY <2>1, <3>1, GoesAround
    <3>3. AllBelong(map, expires, passed2)
      <4> SUFFICES ASSUME NEW t \in Timers, map[t] # None
                   PROVE  InPlace(expires[t], map[t], passed2)
        BY DEF AllBelong
      <4> PICK y : y = RunsIn(expires[t], map[t])
        OBVIOUS
      <4>1. Belongs(y, map[t], passed1)
        BY DEF AllBelong, InPlace
      <4> PICK p : p = map[t]
        OBVIOUS
      <4>2. p[1] \in 1..4
        BY <4>1, SlotParts DEF Belongs
      <4>3. passed2[p[1]] = passed1[p[1]]
        <5>1. passed1 \in [1..5 -> Nat] /\ p[1] \in 1..5 /\ p[1] # 5
          BY <4>2 DEF Counted
        <5> QED BY <5>1
      <4> QED BY <4>1, <4>3 DEF InPlace, Belongs
    <3> QED BY <3>1, <3>2, <3>3
  <2>2. CASE ~(ix[4] >= Size[4])
    <3>1. index' = ix /\ Turning' = 6
      BY <1>2, <1>4, <2>2 DEF Turning
    <3>2. ix[4] < Size[4]
      <4>1. 4 \in 1..4
        OBVIOUS
      <4>2. ix[4] \in Nat /\ Size[4] \in Nat
        BY <4>1, CountedAt, Sizes
      <4> QED BY <2>2, <4>2
    <3>3. Counted(frame, ix, passed1, 6)
      <4>1. 5 \in 2..5 /\ 5 - 1 = 4 /\ 5 + 1 = 6
        OBVIOUS
      <4> QED BY <3>2, <4>1, NoCarry
    <3> QED BY <3>1, <3>3
  <2> QED BY <2>1, <2>2
<1>6. WheelsInv'
  BY <1>2, <1>4, <1>5 DEF WheelsInv
<1>7. TypeOK'
  <2>1. index' \in [1..4 -> Nat] /\ \A k \in 1..4 : index'[k] <= Size[k]
    BY <1>5, CountedIndex
  <2>2. at' \in {"idle", "slot", "callback"}
    BY <1>2
  <2> QED BY <1>2, <1>4, <2>1, <2>2 DEF WheelInv, TypeOK, WheelTypes
<1>8. RunInv'
  BY <1>2 DEF WheelInv, RunInv
<1> QED BY <1>2, <1>4, <1>6, <1>7, <1>8 DEF WheelInv, MapFindsTimers, Agree
-----------------------------------------------------------------------------
(* The theorems. *)

LEMMA WheelInductive == WheelInv /\ [Next]_vars => WheelInv'
<1> SUFFICES ASSUME WheelInv, [Next]_vars PROVE WheelInv'
  OBVIOUS
<1>1. CASE UNCHANGED vars
  <2>1. UNCHANGED <<frame, elapsed, index, slots, slotOf, expires, cycle, at, current,
                    barrier, raises>>
    BY <1>1 DEF vars, wheel
  <2> QED BY <2>1 DEF WheelInv, TypeOK, MapFindsTimers, WheelsInv, Turning, RunInv
<1>2. CASE \E t \in Timers, e \in Delays, c \in Cycles : AddTimer(t, e, c)
  BY <1>2, AddTimerKeeps
<1>3. CASE \E t \in Timers : RemoveTimer(t)
  BY <1>3, RemoveTimerKeeps
<1>4. CASE StartUpdate
  BY <1>4, FirstUpdateKeeps, StartUpdateKeeps
<1>5. CASE \E t \in Timers : Callback(t)
  BY <1>5, CallbackKeeps
<1>6. CASE CallbackReturns
  BY <1>6, CallbackReturnsKeeps
<1>7. CASE CallbackRaises
  BY <1>7, CallbackRaisesKeeps
<1>8. CASE EndFrame
  BY <1>8, EndFrameKeeps
<1> QED BY <1>1, <1>2, <1>3, <1>4, <1>5, <1>6, <1>7, <1>8 DEF Next, Update

LEMMA WheelAlways == Spec => []WheelInv
<1> QED BY Initially, WheelInductive, PTL DEF Spec

\* The variables of the timing wheel keep their types.
THEOREM TimerTypeCorrect == Spec => []TypeOK
<1>1. WheelInv => TypeOK
  BY DEF WheelInv
<1> QED BY <1>1, WheelAlways, PTL

\* remove_timer finds every pending timer (timer.lua, v_index_slot_map), wherever
\* cascade_timers has moved it, and no timer is in two slots.
THEOREM EveryTimerIsFound == Spec => []MapFindsTimers
<1>1. WheelInv => MapFindsTimers
  BY DEF WheelInv
<1> QED BY <1>1, WheelAlways, PTL

\* When the abstract timer fires.
LEMMA FiresIn ==
    ASSUME NEW t \in Timers, expires[t] \in Nat, frame \in Nat
    PROVE  Pending!FiresNow(t) <=> slotOf[t] # None /\ RunsIn(expires[t], slotOf[t]) = frame
<1>1. Due[t] = IF slotOf[t] = None THEN None ELSE expires[t]
  BY DEF Due
<1>2. t \in Late <=> IsLate(expires[t], slotOf[t])
  BY DEF Late
<1>3. None # frame
  BY NoneAssumption
<1>4. CASE slotOf[t] = None
  <2>1. t \notin Late
    BY <1>2, <1>4 DEF IsLate
  <2> QED BY <1>1, <1>3, <1>4, <2>1 DEF Pending!FiresNow
<1>5. CASE slotOf[t] # None
  BY <1>1, <1>2, <1>5 DEF Pending!FiresNow, RunsIn
<1> QED BY <1>4, <1>5

\* A step of the wheel is one of the timer service.
LEMMA StepIsPending ==
    ASSUME WheelInv, [Next]_vars
    PROVE  [Pending!Next]_Pending!vars
<1> USE DEF Pending!vars
<1>0. \A t \in Timers : /\ Due[t] = IF slotOf[t] = None THEN None ELSE expires[t]
                        /\ t \in Late <=> IsLate(expires[t], slotOf[t])
  BY DEF Due, Late
<1>1. \A t \in Timers : /\ Due'[t] = IF slotOf'[t] = None THEN None ELSE expires'[t]
                        /\ t \in Late' <=> IsLate(expires'[t], slotOf'[t])
  BY DEF Due, Late
<1>2. /\ Due = [t \in Timers |-> Due[t]] /\ Due' = [t \in Timers |-> Due'[t]]
      /\ Late \subseteq Timers /\ Late' \subseteq Timers
  BY DEF Due, Late
<1>3. \A x \in Nat : x # None
  BY NoneAssumption
<1>4. expires \in [Timers -> Nat] /\ frame \in Nat
  BY TypesNow
<1>5. \A x : ~IsLate(x, None)
  BY DEF IsLate
<1>6. ASSUME UNCHANGED slotOf, \A t \in Timers : slotOf[t] # None => expires'[t] = expires[t]
      PROVE  Due' = Due /\ Late' = Late
  <2>1. \A t \in Timers : Due'[t] = Due[t] /\ (t \in Late' <=> t \in Late)
    BY <1>0, <1>1, <1>5, <1>6, Zenon
  <2> QED BY <1>2, <2>1, Zenon
<1>7. ASSUME NEW t \in Timers, NEW e \in Delays, NEW c \in Cycles, AddTimer(t, e, c)
      PROVE  Pending!Next
  <2> PICK x \in Nat : /\ expires' = [expires EXCEPT ![t] = x] /\ frame <= x
                       /\ ~IsLate(x, slotOf'[t])
                       /\ slotOf'[t] # None /\ slotOf[t] = None
                       /\ \A u \in Timers : u # t => slotOf'[u] = slotOf[u]
    BY <1>7, AddTimerKeeps
  <2>1. expires'[t] = x /\ \A u \in Timers : u # t => expires'[u] = expires[u]
    BY <1>4
  <2>2. Due[t] = None /\ Due'[t] = x /\ \A u \in Timers : u # t => Due'[u] = Due[u]
    BY <1>0, <1>1, <2>1
  <2>3. Due' = [Due EXCEPT ![t] = Due'[t]]
    BY <1>2, <2>2
  <2>4. \A u \in Timers : u \in Late' <=> u \in Late
    BY <1>0, <1>1, <1>5, <2>1, Zenon
  <2>5. frame' = frame /\ Late' = Late /\ UNCHANGED <<barrier, at>>
    BY <1>2, <1>7, <2>4 DEF AddTimer
  <2>6. Pending!Set(t, Due'[t]) /\ Due'[t] # None
    BY <1>3, <2>2, <2>3, <2>5 DEF Pending!Set
  <2> QED BY <2>6 DEF Pending!Next
<1>8. ASSUME NEW t \in Timers, RemoveTimer(t)
      PROVE  Pending!Next
  <2>1. /\ slotOf'[t] = None
        /\ \A u \in Timers : u # t => slotOf'[u] = slotOf[u] /\ expires'[u] = expires[u]
    BY <1>8, RemoveTimerKeeps
  <2>2. Due'[t] = None /\ \A u \in Timers : u # t => Due'[u] = Due[u]
    BY <1>0, <1>1, <2>1
  <2>3. Due' = [Due EXCEPT ![t] = None]
    BY <1>2, <2>2
  <2>4. \A u \in Timers : u \in Late' <=> u \in Late /\ u # t
    BY <1>0, <1>1, <1>5, <2>1, Zenon
  <2>5. frame' = frame /\ Late' = Late \ {t} /\ UNCHANGED <<barrier, at>>
    BY <1>2, <1>8, <2>4 DEF RemoveTimer
  <2>6. Pending!Remove(t)
    BY <2>3, <2>5 DEF Pending!Remove
  <2> QED BY <2>6 DEF Pending!Next
<1>9. CASE StartUpdate /\ elapsed = 0
  <2>1. frame' = frame /\ Due' = Due /\ Late' = Late
    BY <1>6, <1>9, FirstUpdateKeeps
  <2>2. UNCHANGED <<barrier, at>>
    BY <1>9 DEF StartUpdate
  <2> QED BY <2>1, <2>2
<1>10. CASE StartUpdate /\ elapsed # 0
  <2>1. frame' = frame /\ expires' = expires /\ Follows(slotOf', slotOf)
    BY <1>10, StartUpdateKeeps
  <2>2. at = "idle" /\ at' # "callback" /\ barrier' = barrier
    BY <1>10 DEF StartUpdate
  <2>3. \A t \in Timers : Due'[t] = Due[t]
    BY <1>0, <1>1, <2>1 DEF Follows
  <2>4. Due' = Due
    BY <1>2, <2>3
  <2>5. Late \subseteq Late'
    <3>1. \A t \in Timers : t \in Late => t \in Late'
      BY <1>0, <1>1, <2>1, Zenon DEF Follows, LateIn
    <3> QED BY <1>2, <3>1
  <2>6. \A t \in Late' \ Late : barrier /\ t \in Timers /\ Due[t] = frame
    <3> SUFFICES ASSUME NEW t \in Timers, t \in Late', t \notin Late
                 PROVE  barrier /\ Due[t] = frame
      BY <1>2
    <3>1. barrier /\ expires[t] = frame
      BY <1>0, <1>1, <2>1, Zenon DEF Follows, LateIn
    <3>2. slotOf'[t] # None /\ slotOf[t] # None
      BY <1>1, <1>5, <2>1, Zenon DEF Follows
    <3> QED BY <1>0, <3>1, <3>2
  <2>7. CASE Late' = Late
    BY <2>1, <2>2, <2>4, <2>7
  <2>8. CASE Late' # Late
    <3> PICK ts : ts = Late' \ Late
      OBVIOUS
    <3>1. ts \in SUBSET {t \in Timers : Due[t] = frame} /\ Late' = Late \cup ts
      BY <2>5, <2>6
    <3>2. barrier
      BY <2>5, <2>6, <2>8
    <3>3. Pending!Postpone
      BY <2>1, <2>2, <2>4, <3>1, <3>2 DEF Pending!Postpone
    <3> QED BY <3>3 DEF Pending!Next
  <2> QED BY <2>7, <2>8
<1>11. ASSUME NEW t \in Timers, Callback(t)
       PROVE  Pending!Next
  <2>1. /\ UNCHANGED <<frame, slotOf, expires>>
        /\ slotOf[t] # None /\ RunsIn(expires[t], slotOf[t]) = frame
    BY <1>11, CallbackKeeps
  <2>2. Due' = Due /\ Late' = Late
    BY <1>6, <2>1
  <2>3. Pending!FiresNow(t)
    BY <1>4, <2>1, FiresIn
  <2>4. at' = "callback"
    BY <1>11 DEF Callback
  <2>5. Pending!Call(t)
    BY <2>1, <2>2, <2>3, <2>4 DEF Pending!Call
  <2> QED BY <2>5 DEF Pending!Next
<1>12. CASE CallbackReturns
  <2> PICK c : c = current
    OBVIOUS
  <2>1. /\ c \in Timers /\ frame' = frame
        /\ slotOf[c] # None => RunsIn(expires[c], slotOf[c]) = frame
        /\ \A u \in Timers : u # c => slotOf'[u] = slotOf[u] /\ expires'[u] = expires[u]
        /\ \/ slotOf'[c] = None
           \/ /\ slotOf'[c] # None /\ ~IsLate(expires'[c], slotOf'[c])
              /\ expires'[c] \in Nat /\ expires'[c] > frame
    BY <1>12, CallbackReturnsKeeps
  <2>2. \A u \in Timers : u # c => Due'[u] = Due[u]
    BY <1>0, <1>1, <2>1
  <2>3. Due' = [Due EXCEPT ![c] = Due'[c]]
    BY <1>2, <2>2
  <2>4. Late' = Late \ {c}
    <3>1. c \notin Late'
      BY <1>1, <1>5, <2>1, Zenon
    <3>2. \A u \in Timers : u # c => (u \in Late' <=> u \in Late)
      BY <1>0, <1>1, <2>1, Zenon
    <3> QED BY <1>2, <3>1, <3>2
  <2>5. at = "callback" /\ barrier' = FALSE
    BY <1>12 DEF CallbackReturns
  <2>6. Due'[c] = None \/ (Due'[c] \in Nat /\ Due'[c] > frame /\ Due'[c] # None)
    BY <1>1, <1>3, <2>1
  <2>7. CASE slotOf[c] = None
    <3>1. c \notin Late /\ Due[c] = None
      BY <1>0, <1>5, <2>1, <2>7
    <3>2. Late' = Late
      BY <2>4, <3>1
    <3>3. CASE Due'[c] = None
      <4>1. \A u \in Timers : Due'[u] = Due[u]
        BY <2>2, <3>1, <3>3
      <4>2. Due' = Due
        BY <1>2, <4>1
      <4> QED BY <2>1, <2>5, <3>2, <4>2
    <3>4. CASE Due'[c] # None
      <4>1. Pending!Set(c, Due'[c])
        BY <1>4, <2>1, <2>3, <2>5, <2>6, <3>1, <3>2, <3>4 DEF Pending!Set
      <4> QED BY <2>1, <3>4, <4>1 DEF Pending!Next
    <3> QED BY <3>3, <3>4
  <2>8. CASE slotOf[c] # None
    <3>1. Pending!FiresNow(c)
      BY <1>4, <2>1, <2>8, FiresIn
    <3>2. Pending!Fire(c)
      BY <2>1, <2>3, <2>4, <2>5, <2>6, <3>1 DEF Pending!Fire
    <3> QED BY <2>1, <3>2 DEF Pending!Next
  <2> QED BY <2>7, <2>8
<1>13. CASE CallbackRaises
  <2>1. frame' = frame /\ Due' = Due /\ Late' = Late
    BY <1>6, <1>13, CallbackRaisesKeeps
  <2>2. at' = "idle" /\ barrier'
    BY <1>13 DEF CallbackRaises, WheelInv, RunInv
  <2>3. Pending!Raise
    BY <2>1, <2>2 DEF Pending!Raise
  <2> QED BY <2>3 DEF Pending!Next
<1>14. CASE EndFrame
  <2>1. /\ frame' = frame + 1 /\ UNCHANGED <<slotOf, expires>>
        /\ \A t \in Timers : slotOf[t] # None => RunsIn(expires[t], slotOf[t]) # frame
    BY <1>14, EndFrameKeeps
  <2>2. \A t \in Timers : ~Pending!FiresNow(t)
    BY <1>4, <2>1, FiresIn
  <2>3. Due' = Due /\ Late' = Late
    BY <1>6, <2>1
  <2>4. at # "callback" /\ at' # "callback" /\ barrier' = barrier
    BY <1>14 DEF EndFrame
  <2>5. Pending!Tick
    BY <2>1, <2>2, <2>3, <2>4 DEF Pending!Tick
  <2> QED BY <2>5 DEF Pending!Next
<1>15. CASE UNCHANGED vars
  <2>1. UNCHANGED <<frame, slotOf, expires, at, barrier>>
    BY <1>15 DEF vars, wheel
  <2>2. Due' = Due /\ Late' = Late
    BY <1>6, <2>1
  <2> QED BY <2>1, <2>2
<1> QED BY <1>7, <1>8, <1>9, <1>10, <1>11, <1>12, <1>13, <1>14, <1>15 DEF Next, Update

\* The wheels fire every timer once, neither earlier nor later than its frame,
\* whatever callbacks add and remove, and one frame late only when it is due as
\* the first wheel turns and INNER_BARRIER was left set: timer.lua is a
\* PendingTimers.
THEOREM WheelFiresInItsFrame == Spec => ImplementsPendingTimers
<1>1. Init => Pending!Init
  BY DEF Init, Pending!Init, Due, Late, IsLate
<1>2. WheelInv /\ [Next]_vars => [Pending!Next]_Pending!vars
  BY StepIsPending
<1> QED BY <1>1, <1>2, WheelAlways, PTL DEF Spec, Pending!Spec, ImplementsPendingTimers
=============================================================================
