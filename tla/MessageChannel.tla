--------------------------- MODULE MessageChannel ---------------------------
(***************************************************************************)
(* What the framing layer promises its callers (common/knetpacket.h and    *)
(* the _ProcessNetData loops under tcp/): on every connection the packets  *)
(* the peer wrote are handed over whole, once each and in the order of     *)
(* writing, however TCP cuts the bytes.                                    *)
(***************************************************************************)
EXTENDS Naturals, Sequences

CONSTANTS Streams,  \* the connections of one process
          Message   \* the packets a peer may write

VARIABLES sent,     \* sent[s]: the packets the peer of s has written, in order
          got       \* got[s]: the packets handed to the handler of s

chanVars == <<sent, got>>

ChanInit == /\ sent = [s \in Streams |-> <<>>]
            /\ got  = [s \in Streams |-> <<>>]

\* The peer writes one more packet.
Put(s) == /\ \E m \in Message : sent' = [sent EXCEPT ![s] = Append(@, m)]
          /\ UNCHANGED got

\* The handler receives the first packet it has not seen.
Hand(s) == /\ Len(got[s]) < Len(sent[s])
           /\ got' = [got EXCEPT ![s] = Append(@, sent[s][Len(got[s]) + 1])]
           /\ UNCHANGED sent

ChanNext == \E s \in Streams : Put(s) \/ Hand(s)

ChanSpec == ChanInit /\ [][ChanNext]_chanVars
=============================================================================
