----------------------------- MODULE AuthLadder -----------------------------
(***************************************************************************)
(* pkg/mcp/client.go over pkg/oauth: doAuthed and the 401 ladder, composed *)
(* with the token flow it climbs. Each request of a bridge asks Flow.Token *)
(* for a token, is sent, and asks again after a 401; Flow.mu lets one      *)
(* request of a process into Token at a time. Commands send no requests    *)
(* and are left to TokenFlow. Every step is a step of a request, of        *)
(* TokenFlow, or of both.                                                  *)
(***************************************************************************)
EXTENDS TokenFlow

CONSTANTS
    Requests,   \* HTTP requests (POST or GET), each sent once
    NoReq,      \* a process whose Flow.mu is free
    MaxCycles   \* maxTokenCycles

ASSUME LadderAssumption ==
    NoReq \notin Requests /\ MaxCycles \in Nat /\ Commands = {}

VARIABLES
    of,         \* the bridge that sends the request
    at,         \* per request: where it is in doAuthed
    token,      \* per request: the token of its last attempt
    attempt,    \* per request: 401s it went on from
    turn,       \* per process: the request whose Token call holds Flow.mu
    refused     \* tokens that the resource server has answered with 401

ladder == <<of, at, token, attempt, turn, refused>>
lvars == <<vars, ladder>>

LInit ==
    /\ Init
    /\ of \in [Requests -> Bridges]
    /\ at = [r \in Requests |-> "new"]
    /\ token = [r \in Requests |-> 0]
    /\ attempt = [r \in Requests |-> 0]
    /\ turn = [p \in Bridges |-> NoReq]
    /\ refused = {}

LTypeOK ==
    /\ TypeOK
    /\ of \in [Requests -> Bridges]
    /\ at \in [Requests -> {"new", "token", "send", "done"}]
    /\ token \in [Requests -> 0..issued]
    /\ attempt \in [Requests -> 0..MaxCycles]
    /\ turn \in [Bridges -> Requests \cup {NoReq}]
    /\ refused \subseteq 1..issued

\* c.token: the first call, or the next one with the token just refused.
Ask(r) ==
    /\ at[r] \in {"new", "token"} /\ turn[of[r]] = NoReq
    /\ Call(of[r]) /\ rej'[of[r]] = token[r]
    /\ at' = [at EXCEPT ![r] = "token"]
    /\ turn' = [turn EXCEPT ![of[r]] = r]
    /\ UNCHANGED <<of, token, attempt, refused>>

\* Mutant: Token keeps Flow.mu when it returns an error.
Mut_TakeToken(r) ==
    /\ turn[of[r]] = r /\ pc[of[r]] = "idle" /\ at[r] = "token"
    /\ IF out[of[r]] \in {0, token[r]}
       THEN at' = [at EXCEPT ![r] = "done"] /\ UNCHANGED <<token, turn>>
       ELSE /\ at' = [at EXCEPT ![r] = "send"]
            /\ token' = [token EXCEPT ![r] = out[of[r]]]
            /\ turn' = [turn EXCEPT ![of[r]] = NoReq]
    /\ UNCHANGED <<vars, of, attempt, refused>>

\* Token has returned: an error ends the request, and so does the refused
\* token coming back.
TakeToken(r) ==
    /\ turn[of[r]] = r /\ pc[of[r]] = "idle"
    /\ turn' = [turn EXCEPT ![of[r]] = NoReq]
    /\ IF out[of[r]] \in {0, token[r]}
       THEN at' = [at EXCEPT ![r] = "done"] /\ UNCHANGED token
       ELSE /\ at' = [at EXCEPT ![r] = "send"]
            /\ token' = [token EXCEPT ![r] = out[of[r]]]
    /\ UNCHANGED <<vars, of, attempt, refused>>

\* Any answer but 401, or a broken connection.
Answered(r) ==
    /\ at[r] = "send"
    /\ at' = [at EXCEPT ![r] = "done"]
    /\ UNCHANGED <<vars, of, token, attempt, turn, refused>>

\* Mutant: one cycle more than the backstop allows.
Mut_ExhaustedLate(r) == attempt[r] > MaxCycles

\* The backstop: the 401 itself is the answer.
Exhausted(r) == attempt[r] >= MaxCycles

Unauthorized(r) ==
    /\ at[r] = "send"
    /\ refused' = refused \cup {token[r]}
    /\ \/ Exhausted(r) /\ at' = [at EXCEPT ![r] = "done"] /\ UNCHANGED attempt
       \/ /\ ~Exhausted(r)
          /\ at' = [at EXCEPT ![r] = "token"]
          /\ attempt' = [attempt EXCEPT ![r] = @ + 1]
    /\ UNCHANGED <<vars, of, token, turn>>

\* A process dies with its requests.
CrashAll(p) ==
    /\ Crash(p)
    /\ at' = [r \in Requests |-> IF of[r] = p /\ at[r] # "new" THEN "done" ELSE at[r]]
    /\ turn' = [q \in Bridges |-> IF q = p THEN NoReq ELSE turn[q]]
    /\ UNCHANGED <<of, token, attempt, refused>>

Ladder(r) == Ask(r) \/ TakeToken(r) \/ Answered(r) \/ Unauthorized(r)
Flow(p) == (Acquire(p) \/ Advance(p)) /\ UNCHANGED ladder
UserDone(p) == LoginDone(p) /\ UNCHANGED ladder

LNext ==
    \/ \E r \in Requests : Ladder(r)
    \/ \E p \in Procs : Flow(p) \/ CrashAll(p) \/ UserDone(p)
    \/ (Logout \/ Revoke \/ Expire \/ Rest) /\ UNCHANGED ladder

LSpec == LInit /\ [][LNext]_lvars

\* Requests make progress, the resource server answers or the connection
\* breaks; of the processes as in TokenFlow, and with finitely many calls
\* each of them gets the lock in the end.
LFairSpec ==
    /\ LSpec
    /\ \A r \in Requests : WF_lvars(Ladder(r))
    /\ \A p \in Procs : WF_lvars(Flow(p))

-----------------------------------------------------------------------------
(* Properties.                                                             *)

RepairsStored ==
    store.acc # 0 /\ store'.acc # store.acc
        => store.acc \in expired \cup refused \/ Logout

\* Requests that are refused together are repaired together, in one process and
\* across processes (flow.go: obtain takes what another caller has stored
\* meanwhile): a stored token is replaced or deleted only once it has expired
\* or the resource server has refused it - or by a logout.
NoNeedlessRepair == [][RepairsStored]_lvars

\* Every request that was started ends (client.go: doAuthed).
LadderEnds == \A r \in Requests : at[r] # "new" ~> at[r] = "done"
=============================================================================
