----------------------------- MODULE SessionChain -----------------------------
(***************************************************************************)
(* What pkg/mcp promises a server that keeps sessions and names each once, *)
(* whatever the number of requests that fail together: a bridge has one    *)
(* session at a time. It is given up only when the server has ended it or  *)
(* its handshake had failed; one initialize at a time asks for the next    *)
(* one; the initialized notification goes to the session in use; and the   *)
(* era of a session that works begins once. BridgeSession implements this  *)
(* module; see SessionsChained there.                                      *)
(***************************************************************************)
EXTENDS Naturals

VARIABLES
    session,    \* the session in use; 0: none
    offered,    \* an answer that names the newest session is on its way
    replacing,  \* the session was given up, what needs one waits
    era,        \* how often a working session has taken another's place
    created,    \* number of sessions the server has created
    live,       \* those it still has
    lost,       \* those whose initialize failed for the client
    noted       \* those that got the initialized notification

chainVars == <<session, offered, replacing, era, created, live, lost, noted>>

Init ==
    /\ session = 0 /\ offered = FALSE /\ replacing = FALSE /\ era = 0
    /\ created = 0 /\ live = {} /\ lost = {} /\ noted = {}

\* A session the server has and a handshake has established.
Works(s) == s \in live \ lost

\* initialize: the first one, or the one of a replacement. The answer reaches
\* the client or not; one that does may still be a failure.
Open ==
    /\ session = 0 /\ ~offered
    /\ replacing \/ created = 0
    /\ created' = created + 1
    /\ live' = live \cup {created'}
    /\ \/ offered' = TRUE /\ lost' \in {lost, lost \cup {created'}}
       \/ offered' = FALSE /\ lost' = lost \cup {created'}
    /\ UNCHANGED <<session, replacing, era, noted>>

\* A replacement ends with a session that was established, and with it a new
\* era begins; or it ends without one.
Conclude(s) ==
    /\ replacing /\ ~replacing'
    /\ IF s \in (1..created) \ lost THEN era' = era + 1 ELSE UNCHANGED era

Take ==
    /\ session = 0 /\ offered
    /\ session' = created /\ offered' = FALSE
    /\ UNCHANGED <<replacing, era>> \/ Conclude(session')
    /\ UNCHANGED <<created, live, lost, noted>>

Settle ==
    /\ Conclude(session)
    /\ UNCHANGED <<session, offered, created, live, lost, noted>>

Note ==
    /\ session \in live
    /\ noted' = noted \cup {session}
    /\ UNCHANGED <<session, offered, replacing, era, created, live, lost>>

\* Nobody gives up a session that works, and one at a time replaces it.
Retire ==
    /\ ~replacing /\ ~offered /\ ~Works(session)
    /\ session' = 0 /\ replacing' = TRUE
    /\ UNCHANGED <<offered, era, created, live, lost, noted>>

\* The server ends a session, or the bridge its own at the end of its run.
End ==
    /\ \E s \in live : live' = live \ {s}
    /\ UNCHANGED <<session, offered, replacing, era, created, lost, noted>>

Next == Open \/ Take \/ Settle \/ Note \/ Retire \/ End

Spec == Init /\ [][Next]_chainVars
=============================================================================
