----------------------------- MODULE TimerWheel -----------------------------
(***************************************************************************)
(* The timing wheel of script/common/timer.lua: four wheels of slots, each *)
(* slot the timers of a stretch of frames.  Every 0.1 s libuv has          *)
(* LuaEngine::UpdateTimer call update, which runs the slot of one frame    *)
(* and, when a wheel has turned, spreads a slot of the next wheel over the *)
(* ones below.  A callback may add and remove timers, and may raise.       *)
(*                                                                         *)
(* Times are in frames.  An id is used again when its timer is gone; in    *)
(* the code TIMER_COUNTER only grows.                                      *)
(***************************************************************************)
EXTENDS Integers

CONSTANTS
    Timers,
    None,
    Size1, Size2, Size3, Size4,  \* WHEEL_SIZE_1 .. 4
    Delays,      \* the times timers are added with
    Cycles,      \* the cycles, 0 for none
    MaxFrame,    \* bound: frames run
    MaxRaises    \* bound: callbacks that raise

ASSUME TimerAssumption ==
    /\ {Size1, Size2, Size3, Size4} \subseteq Nat \ {0, 1}
    /\ Delays \subseteq Nat /\ Cycles \subseteq Nat
    /\ MaxFrame \in Nat /\ MaxRaises \in Nat

Size == <<Size1, Size2, Size3, Size4>>

\* The frames in one slot of each wheel, and those the last wheel goes around in.
Span == <<1, Size1, Size1 * Size2, Size1 * Size2 * Size3>>
Horizon == Span[4] * Size4

VARIABLES
    frame,     \* v_current_frame_idx
    elapsed,   \* v_elapse_time, in frames: 0 before the first update
    index,     \* the index of each wheel
    slots,     \* the timers in each slot of each wheel
    slotOf,    \* v_index_slot_map
    expires, cycle,  \* of each timer
    at,        \* "idle" between updates, "slot" in one, "callback" in a callback
    current,   \* the timer whose callback runs
    barrier,   \* INNER_BARRIER
    raises

wheel == <<index, slots, slotOf>>
vars  == <<frame, elapsed, wheel, expires, cycle, at, current, barrier, raises>>

Slot == UNION {{k} \X (0..(Size[k] - 1)) : k \in 1..4}

ASSUME NoneAssumption == None \notin Timers \cup Nat \cup Slot

Init ==
    /\ frame = 0 /\ elapsed = 0
    /\ index = [k \in 1..4 |-> 0]
    /\ slots = [p \in Slot |-> {}]
    /\ slotOf = [t \in Timers |-> None]
    /\ expires = [t \in Timers |-> 0] /\ cycle = [t \in Timers |-> 0]
    /\ at = "idle" /\ current = None /\ barrier = FALSE
    /\ raises = 0

\* The wheel for a timer that many frames ahead.
WheelFor(ahead) == CHOOSE k \in 1..4 : /\ ahead < Span[k] * Size[k]
                                       /\ k > 1 => ahead >= Span[k]

\* Mutant of SlotFor: a higher wheel's slot is run when it is over.
SlotForLate(x, first) ==
    LET ahead == x - frame
        k     == WheelFor(ahead)
    IN  IF ahead <= 0
        THEN <<1, IF barrier THEN (first + 1) % Size[1] ELSE first>>
        ELSE <<k, (x \div Span[k]) % Size[k]>>

\* The slot _internal_add_timer takes for expires, first the first wheel's index.
SlotFor(x, first) ==
    LET ahead == x - frame
        k     == WheelFor(ahead)
    IN  IF ahead <= 0
        THEN <<1, IF barrier THEN (first + 1) % Size[1] ELSE first>>
        ELSE <<k, IF k = 1 THEN x % Size[1] ELSE (x \div Span[k] - 1) % Size[k]>>

\* add_timer.  A time e is rounded down when the sum is not exact in floating
\* point.  A timer that is too far ahead is logged and dropped.
Expires(e) == {frame + e + elapsed} \cup (IF e > 0 THEN {frame + e} ELSE {})

AddTimer(t, e, c) ==
    /\ at # "slot"
    /\ slotOf[t] = None /\ t # current
    /\ \E x \in Expires(e) :
         LET p == SlotFor(x, index[1])
         IN  /\ x - frame < Horizon
             /\ x + c + 1 < MaxFrame
             /\ expires' = [expires EXCEPT ![t] = x]
             /\ cycle' = [cycle EXCEPT ![t] = c]
             /\ slots' = [slots EXCEPT ![p] = @ \cup {t}]
             /\ slotOf' = [slotOf EXCEPT ![t] = p]
    /\ UNCHANGED <<frame, elapsed, index, at, current, barrier, raises>>

Without(t) == [p \in Slot |-> slots[p] \ {t}]

\* remove_timer, in a callback also of its own timer.
RemoveTimer(t) ==
    /\ at # "slot"
    /\ slotOf[t] # None
    /\ slots' = [slots EXCEPT ![slotOf[t]] = @ \ {t}]
    /\ slotOf' = [slotOf EXCEPT ![t] = None]
    /\ expires' = IF t = current THEN expires ELSE [expires EXCEPT ![t] = 0]
    /\ cycle' = IF t = current THEN cycle ELSE [cycle EXCEPT ![t] = 0]
    /\ UNCHANGED <<frame, elapsed, index, at, current, barrier, raises>>
-----------------------------------------------------------------------------
\* Mutant of CascadeTimers: the slot is not moved on.
CascadeInPlace(s, k) ==
    LET from  == <<k, s.index[k]>>
        to(t) == SlotFor(expires[t], s.index[1])
    IN  [index  |-> [s.index EXCEPT ![k] = @ + 1],
         slots  |-> [p \in Slot |-> s.slots[p] \cup {t \in s.slots[from] : to(t) = p}],
         slotOf |-> [t \in Timers |-> IF t \in s.slots[from] THEN to(t) ELSE s.slotOf[t]]]

\* Mutant of CascadeTimers: the slot is emptied first.
CascadeLost(s, k) ==
    [index  |-> [s.index EXCEPT ![k] = @ + 1],
     slots  |-> [s.slots EXCEPT ![<<k, s.index[k]>>] = {}],
     slotOf |-> s.slotOf]

\* cascade_timers: adds the timers of a slot again, empties it, and moves on.
CascadeTimers(s, k) ==
    LET from  == <<k, s.index[k]>>
        to(t) == SlotFor(expires[t], s.index[1])
    IN  [index  |-> [s.index EXCEPT ![k] = @ + 1],
         slots  |-> [p \in Slot |->
                       IF p = from THEN {}
                       ELSE s.slots[p] \cup {t \in s.slots[from] : to(t) = p}],
         slotOf |-> [t \in Timers |-> IF t \in s.slots[from] THEN to(t) ELSE s.slotOf[t]]]

\* A wheel that has gone around starts again, and the next one moves on.
Turn(s, k) == IF s.index[k - 1] >= Size[k - 1]
              THEN CascadeTimers([s EXCEPT !.index[k - 1] = 0], k) ELSE s

Turned == Turn(Turn(Turn([index |-> index, slots |-> slots, slotOf |-> slotOf], 2), 3), 4)

\* Mutant of StartUpdate: the time of the frame is not taken off.
StartUpdateKeepsTime ==
    /\ at = "idle"
    /\ frame < MaxFrame
    /\ elapsed' = elapsed + 1
    /\ at' = IF elapsed = 0 THEN "idle" ELSE "slot"
    /\ UNCHANGED <<frame, wheel, expires, cycle, current, barrier, raises>>

\* update, up to the slot it runs.  The first 0.1 s are not more than a frame.
\* When the last wheel has gone around there is no wheel 5 and update raises:
\* the frame is run in the next update.
StartUpdate ==
    /\ at = "idle"
    /\ frame < MaxFrame
    /\ elapsed' = 1
    /\ IF elapsed = 0 THEN UNCHANGED <<wheel, at>>
       ELSE LET new    == Turned
                around == new.index[4] >= Size[4]
            IN  /\ index' = IF around THEN [new.index EXCEPT ![4] = 0] ELSE new.index
                /\ slots' = new.slots
                /\ slotOf' = new.slotOf
                /\ at' = IF around THEN "idle" ELSE "slot"
    /\ UNCHANGED <<frame, expires, cycle, current, barrier, raises>>

\* The slot is traversed in any order; what a callback removes is not visited.
Callback(t) ==
    /\ at = "slot"
    /\ t \in slots[<<1, index[1]>>]
    /\ at' = "callback" /\ current' = t /\ barrier' = TRUE
    /\ UNCHANGED <<frame, elapsed, wheel, expires, cycle, raises>>

\* The callback has returned: the timer is removed, and added again when it has
\* a cycle and the result says so.  A cycle that is too long drops it as well.
\* Excluded: a late timer with a cycle of one frame is put into the slot that is
\* traversed, which Lua leaves undefined.
CallbackReturns ==
    /\ at = "callback"
    /\ \/ /\ slots' = Without(current)
          /\ slotOf' = [slotOf EXCEPT ![current] = None]
          /\ expires' = [expires EXCEPT ![current] = 0]
          /\ cycle' = [cycle EXCEPT ![current] = 0]
       \/ LET x == expires[current] + cycle[current]
              p == SlotFor(x, index[1])
          IN  /\ cycle[current] > 0
              /\ x > frame /\ x - frame < Horizon
              /\ x + 1 < MaxFrame
              /\ slots' = [Without(current) EXCEPT ![p] = @ \cup {current}]
              /\ slotOf' = [slotOf EXCEPT ![current] = p]
              /\ expires' = [expires EXCEPT ![current] = x]
              /\ UNCHANGED cycle
    /\ at' = "slot" /\ current' = None /\ barrier' = FALSE
    /\ UNCHANGED <<frame, elapsed, index, raises>>

\* The callback raises, and with it update: UpdateTimer's pcall ends it.  The
\* slot is run again by the next update, with the timer unless the callback has
\* removed it.  INNER_BARRIER stays set until a callback returns.
CallbackRaises ==
    /\ at = "callback"
    /\ raises < MaxRaises
    /\ raises' = raises + 1
    /\ expires' = [expires EXCEPT ![current] = IF slotOf[current] = None THEN 0 ELSE @]
    /\ cycle' = [cycle EXCEPT ![current] = IF slotOf[current] = None THEN 0 ELSE @]
    /\ at' = "idle" /\ current' = None
    /\ UNCHANGED <<frame, elapsed, wheel, barrier>>

EndFrame ==
    /\ at = "slot"
    /\ slots[<<1, index[1]>>] = {}
    /\ frame' = frame + 1
    /\ index' = [index EXCEPT ![1] = @ + 1]
    /\ at' = "idle"
    /\ UNCHANGED <<elapsed, slots, slotOf, expires, cycle, current, barrier, raises>>

Update == \/ StartUpdate
          \/ \E t \in Timers : Callback(t)
          \/ CallbackReturns
          \/ CallbackRaises
          \/ EndFrame

Next == \/ \E t \in Timers, e \in Delays, c \in Cycles : AddTimer(t, e, c)
        \/ \E t \in Timers : RemoveTimer(t)
        \/ Update

\* libuv's timer repeats, and a callback returns or raises.
Spec == Init /\ [][Next]_vars /\ WF_vars(Update)
-----------------------------------------------------------------------------
TypeOK ==
    /\ frame \in 0..MaxFrame /\ elapsed \in 0..1
    /\ index \in [1..4 -> Nat] /\ \A k \in 1..4 : index[k] <= Size[k]
    /\ slots \in [Slot -> SUBSET Timers]
    /\ slotOf \in [Timers -> Slot \cup {None}]
    /\ expires \in [Timers -> 0..MaxFrame]
    /\ cycle \in [Timers -> Cycles \cup {0}]
    /\ at \in {"idle", "slot", "callback"}
    /\ current \in Timers \cup {None}
    /\ barrier \in BOOLEAN /\ raises \in 0..MaxRaises

\* remove_timer finds every pending timer, wherever cascades have moved it, and
\* no timer is in two slots.
MapFindsTimers ==
    \A t \in Timers : \A p \in Slot : t \in slots[p] <=> slotOf[t] = p

Due == [t \in Timers |->
          IF slotOf[t] = None THEN None ELSE expires[t]]

\* A timer that is due when the first wheel turns, and INNER_BARRIER is still set,
\* is put into the slot after its own.
IsLate(x, p) == p # None /\ p[1] = 1 /\ p[2] # x % Size[1]
Late == {t \in Timers : IsLate(expires[t], slotOf[t])}

\* The wheels fire every timer in its frame, wherever it was put and whatever
\* callbacks add and remove; and in the next at the latest when callbacks raise.
Pending == INSTANCE PendingTimers
           WITH now <- frame, due <- Due, late <- Late,
                spoilt <- barrier /\ at # "callback"
ImplementsPendingTimers == Pending!Spec

\* Every frame is run, and when all have been no timer is left in a slot that
\* the wheels do not come to, as long as no callback raises for ever.
EveryTimerComes == <>[](frame = MaxFrame /\ \A t \in Timers : Due[t] = None)
=============================================================================
