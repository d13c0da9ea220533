---------------------------- MODULE MCNetPacket ----------------------------
(***************************************************************************)
(* Instances of NetPacket for TLC.                                         *)
(***************************************************************************)
EXTENDS NetPacket, TLC

CONSTANTS s1, s2, p1, p2

\* A TCPSession per connection: each has a package of its own.
OwnPackage == s1 :> p1 @@ s2 :> p2

\* GatewayClient and GameLogicServer: one package for all the connections.
SharedPackage == s1 :> p1 @@ s2 :> p1
=============================================================================
