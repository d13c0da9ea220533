-------------------------- MODULE SerialDatabase --------------------------
(***************************************************************************)
(* What a client of a database promises to the process that sends it       *)
(* commands: they take effect one at a time in the order they were sent,   *)
(* and the responses come in that order, each with what its command found. *)
(* A command may be refused, or take effect more than once before it is    *)
(* done.  A process that dies loses what it has sent, and nothing that has *)
(* taken effect.                                                           *)
(***************************************************************************)
EXTENDS Integers

CONSTANTS
    Keys,
    Values,   \* natural numbers, 0 of which stands for no value
    Rejected  \* the response to a command that was refused

VARIABLES
    sent,       \* the number of the last command this process has sent
    commands,   \* those that are not done
    responses,  \* those that have not been delivered
    store,      \* the value of each key
    mortal      \* the keys the database may drop

vars == <<sent, commands, responses, store, mortal>>

\* An update lets a key live as long as it had to, a write for ever.
Kinds == {"write", "update", "read", "expire"}

\* The one that was sent first.
First(c, S) == c \in S /\ \A d \in S : c.id <= d.id

Init ==
    /\ sent = 0
    /\ commands = {} /\ responses = {}
    /\ store = [k \in Keys |-> 0]
    /\ mortal = {}

Send(kind, k, v, answered) ==
    /\ sent' = sent + 1
    /\ commands' = commands \cup {[id |-> sent + 1, kind |-> kind, key |-> k, val |-> v,
                                   answered |-> answered]}
    /\ UNCHANGED <<responses, store, mortal>>

Effect(c) ==
    \/ /\ c.kind \in {"write", "update"}
       /\ store' = [store EXCEPT ![c.key] = c.val]
       /\ mortal' = IF c.kind = "write" THEN mortal \ {c.key} ELSE mortal
    \/ /\ c.kind = "read"
       /\ UNCHANGED <<store, mortal>>
    \/ /\ c.kind = "expire"
       /\ UNCHANGED store
       /\ \/ UNCHANGED mortal
          \/ store[c.key] # 0 /\ mortal' = mortal \cup {c.key}

\* The command is done, with a response of value v if it has one.
Done(c, v) ==
    /\ commands' = commands \ {c}
    /\ responses' = IF c.answered THEN responses \cup {[id |-> c.id, val |-> v]} ELSE responses
    /\ UNCHANGED sent

Run(c) ==
    /\ First(c, commands)
    /\ Effect(c)
    /\ Done(c, IF c.kind = "read" THEN store[c.key] ELSE 0)

Refuse(c) ==
    /\ First(c, commands)
    /\ UNCHANGED <<store, mortal>>
    /\ Done(c, Rejected)

\* The command takes effect, but it will be run again.
RunInVain(c) ==
    /\ First(c, commands)
    /\ Effect(c)
    /\ UNCHANGED <<sent, commands, responses>>

Deliver(r) ==
    /\ First(r, responses)
    /\ responses' = responses \ {r}
    /\ UNCHANGED <<sent, commands, store, mortal>>

Drop(k) ==
    /\ k \in mortal
    /\ mortal' = mortal \ {k}
    /\ store' = [store EXCEPT ![k] = 0]
    /\ UNCHANGED <<sent, commands, responses>>

\* The process dies and another one starts.
Die ==
    /\ sent' = 0
    /\ commands' = {} /\ responses' = {}
    /\ UNCHANGED <<store, mortal>>

Next == \/ \E kind \in Kinds, k \in Keys, v \in Values, answered \in BOOLEAN :
             Send(kind, k, v, answered)
        \/ \E c \in commands : Run(c) \/ Refuse(c) \/ RunInVain(c)
        \/ \E r \in responses : Deliver(r)
        \/ \E k \in Keys : Drop(k)
        \/ Die

Spec == Init /\ [][Next]_vars
=============================================================================
