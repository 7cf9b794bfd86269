---------------------------- MODULE MCTokenFlow ----------------------------
(* TLC instances of TokenFlow: small sets of processes, named fault sets.  *)
EXTENDS TokenFlow, TLC

CONSTANTS b1, b2, c1, none

OneBridge == {b1}
TwoBridges == {b1, b2}
OneCommand == {c1}
NoCommand == {}

\* Everything that can go wrong.
AllFaults == FaultKinds
\* Nothing but a resource server that calls every token expired.
StaleOnly == {"stale"}

BridgeSymmetry == Permutations(TwoBridges)
=============================================================================
