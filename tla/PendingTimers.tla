--------------------------- MODULE PendingTimers ---------------------------
(***************************************************************************)
(* What the timer service does: a timer fires once, unless it is removed   *)
(* before, in the frame it was set for.  It may fire one frame late, no    *)
(* later, when a callback has raised and none has been called since.  A    *)
(* frame is not over while one of its timers is still pending.             *)
(***************************************************************************)
EXTENDS Naturals

CONSTANTS Timers, None

VARIABLES
    now,    \* the current frame
    due,    \* the frame each pending timer was set for, None for the others
    late,   \* the timers that fire one frame late
    spoilt  \* a callback has raised, and none has been called since

vars == <<now, due, late, spoilt>>

Init ==
    /\ now = 0
    /\ due = [t \in Timers |-> None]
    /\ late = {} /\ spoilt = FALSE

FiresNow(t) == IF t \in late THEN due[t] + 1 = now ELSE due[t] = now

Set(t, frame) ==
    /\ due[t] = None
    /\ frame >= now
    /\ due' = [due EXCEPT ![t] = frame]
    /\ UNCHANGED <<now, late, spoilt>>

Remove(t) ==
    /\ due' = [due EXCEPT ![t] = None]
    /\ late' = late \ {t}
    /\ UNCHANGED <<now, spoilt>>

\* The callback of a timer is called, and returns or raises.
Call(t) ==
    /\ FiresNow(t)
    /\ spoilt' = FALSE
    /\ UNCHANGED <<now, due, late>>

Raise ==
    /\ spoilt' = TRUE
    /\ UNCHANGED <<now, due, late>>

\* The timer has fired, and may be set for a later frame at once.
Fire(t) ==
    /\ FiresNow(t)
    /\ \/ due' = [due EXCEPT ![t] = None]
       \/ due'[t] # None /\ due'[t] > now /\ due' = [due EXCEPT ![t] = due'[t]]
    /\ late' = late \ {t}
    /\ UNCHANGED <<now, spoilt>>

Postpone ==
    /\ spoilt
    /\ \E ts \in SUBSET {t \in Timers : due[t] = now} : late' = late \cup ts
    /\ UNCHANGED <<now, due, spoilt>>

Tick ==
    /\ \A t \in Timers : ~FiresNow(t)
    /\ now' = now + 1
    /\ UNCHANGED <<due, late, spoilt>>

Next == \/ \E t \in Timers : \/ due'[t] # None /\ Set(t, due'[t])
                             \/ Remove(t) \/ Call(t) \/ Fire(t)
        \/ Raise \/ Postpone \/ Tick

Spec == Init /\ [][Next]_vars
=============================================================================
