---------------------------- MODULE MCAuthLadder ----------------------------
(* TLC instances of AuthLadder.                                            *)
EXTENDS AuthLadder, TLC

CONSTANTS b1, b2, q1, q2, none, noreq

TwoBridges == {b1, b2}
NoCommand == {}
TwoRequests == {q1, q2}

\* Faults that end a call or a process, and tokens called expired.
LadderFaults == {"stale", "lost", "login", "crash"}
=============================================================================
