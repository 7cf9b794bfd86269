---------------------- MODULE MCClientRegistration ----------------------
(* TLC instances of ClientRegistration.                                    *)
EXTENDS ClientRegistration, TLC

CONSTANTS b1, b2, c1, none, old, new

TwoBridges == {b1, b2}
OneCommand == {c1}
NoCommand == {}

\* Everything that can go wrong.
AllFaults == FaultKinds
NoFaults == {}
NoVeteran == {}
\* A bridge that was started before the endpoint changed its AS.
OneVeteran == {b1}

BridgeSymmetry == Permutations(TwoBridges)
=============================================================================
