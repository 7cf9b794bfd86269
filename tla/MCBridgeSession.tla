-------------------------- MODULE MCBridgeSession --------------------------
(* TLC instances of BridgeSession.                                         *)
EXTENDS BridgeSession, TLC

CONSTANTS r1, r2, none

OneReq  == {r1}
TwoReqs == {r1, r2}

\* A server that names its session only in the answer to initialize, as the
\* protocol says, and everything else that can go wrong.
ProtocolFaults == FaultKinds \ {"echo"}
NoFaults == {}
\* A server that repeats the session id on every answer, in addition.
AllFaults == FaultKinds

ReqSymmetry == Permutations(TwoReqs)
=============================================================================
