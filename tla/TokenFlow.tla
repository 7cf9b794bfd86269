------------------------------ MODULE TokenFlow ------------------------------
(***************************************************************************)
(* pkg/oauth: the token flow of several mcpurl processes that share one    *)
(* token store, one refresh lock and one authorization server (AS).        *)
(*                                                                         *)
(* Every process runs Flow.Token (flow.go) for one endpoint with a         *)
(* configured client_id, so all of them use the same store key and the     *)
(* same lock file; dynamic registration is not part of this module.        *)
(*                                                                         *)
(* Tokens are numbered in the order the AS issues them. A stored token is  *)
(* an access token with the refresh token it came with: [acc, ref], where  *)
(* ref is the number of the answer that first carried that refresh token   *)
(* and 0 stands for "none". Expiry is the set of access tokens that are    *)
(* within expirySkew of their expiry.                                      *)
(***************************************************************************)
EXTENDS Naturals, FiniteSets

CONSTANTS
    Bridges,    \* processes that call Flow.Token (bridge, `mcpurl token`)
    Commands,   \* processes that run `mcpurl login` (Flow.Login)
    NoProc,     \* the value of an unheld lock
    Faults,     \* the failures this instance allows, a subset of FaultKinds
    MaxTokens,  \* no call starts once this many tokens are issued
    MaxCauses   \* no call or outside event starts once causes reaches this

Procs == Bridges \cup Commands

FaultKinds == {"stale",      \* the resource server calls a token expired
               "revoke",     \* the AS revokes a refresh token
               "logout",     \* `mcpurl logout` runs in another process
               "noRefresh",  \* the AS grants a login without refresh token
               "lost",       \* the AS's refresh answer is lost on the way
               "save",       \* Store.Save or Store.Delete fails
               "crash",      \* a process is killed
               "login",      \* a browser login is not completed
               "error"}      \* store, discovery or token endpoint error out

ASSUME ConstantsAssumption ==
    /\ Bridges \cap Commands = {}
    /\ NoProc \notin Procs
    /\ Faults \subseteq FaultKinds
    /\ MaxTokens \in Nat
    /\ MaxCauses \in Nat

VARIABLES
    store,          \* the token file of the key (NoToken: no file)
    expired,        \* access tokens that Fresh no longer accepts
    lock,           \* holder of the key's flock
    issued,         \* number of tokens the AS has issued
    valid,          \* refresh tokens the AS accepts
    spent,          \* refresh tokens the AS has rotated away
    orphaned,       \* spent ones whose successor never reached the store
    pc,             \* where each process is inside Token or Login
    rej,            \* the rejected parameter of the call ("" is 0)
    stale,          \* parseChallenge(challenge).staleToken()
    loaded,         \* obtain's stored: the token reloaded under the lock
    got,            \* the answer of the AS, not saved yet
    cached,         \* Flow.cached
    lastRefreshed,  \* Flow.lastRefreshed
    lastLoggedIn,   \* Flow.lastLoggedIn
    handed,         \* tokens Token has returned since the process started
    out,            \* what the last call returned (0: an error)
    windows,        \* browser windows opened by Token, in all processes
    causes          \* events that justify a new login (see WindowsJustified)

as    == <<issued, valid, spent, orphaned>>
mem   == <<cached, lastRefreshed, lastLoggedIn>>
call  == <<rej, stale>>
disk  == <<store, expired>>
ctl   == <<pc, lock, loaded, got, handed, out>>
hist  == <<windows, causes>>
vars  == <<disk, as, mem, call, ctl, hist>>

NoToken == [acc |-> 0, ref |-> 0]
TokenType == [acc : 0..issued, ref : 0..issued]

States == {"idle", "fast", "lock", "reload", "refresh", "badgrant",
           "saveR", "login", "saveL"}
\* The part of a call that runs inside WithLock.
Critical == {"reload", "refresh", "badgrant", "saveR", "login", "saveL"}

TypeOK ==
    /\ store \in TokenType
    /\ expired \subseteq 1..issued
    /\ lock \in Procs \cup {NoProc}
    /\ issued \in Nat
    /\ valid \subseteq 1..issued
    /\ spent \subseteq 1..issued
    /\ orphaned \subseteq spent
    /\ pc \in [Procs -> States]
    /\ rej \in [Procs -> 0..issued]
    /\ stale \in [Procs -> BOOLEAN]
    /\ loaded \in [Procs -> TokenType]
    /\ got \in [Procs -> TokenType]
    /\ cached \in [Procs -> TokenType]
    /\ lastRefreshed \in [Procs -> 0..issued]
    /\ lastLoggedIn \in [Procs -> 0..issued]
    /\ handed \in [Procs -> SUBSET (1..issued)]
    /\ out \in [Procs -> 0..issued]
    /\ windows \in Nat
    /\ causes \in Nat

Init ==
    /\ store = NoToken
    /\ expired = {}
    /\ lock = NoProc
    /\ issued = 0
    /\ valid = {} /\ spent = {} /\ orphaned = {}
    /\ pc = [p \in Procs |-> "idle"]
    /\ rej = [p \in Procs |-> 0]
    /\ stale = [p \in Procs |-> FALSE]
    /\ loaded = [p \in Procs |-> NoToken]
    /\ got = [p \in Procs |-> NoToken]
    /\ cached = [p \in Procs |-> NoToken]
    /\ lastRefreshed = [p \in Procs |-> 0]
    /\ lastLoggedIn = [p \in Procs |-> 0]
    /\ handed = [p \in Procs |-> {}]
    /\ out = [p \in Procs |-> 0]
    /\ windows = 0
    /\ causes = 0

-----------------------------------------------------------------------------
(* Helpers of the code.                                                    *)

\* Token.Fresh(expirySkew)
Fresh(t) == t.acc # 0 /\ t.acc \notin expired

\* Flow.selfIssued(rejected)
SelfIssued(p) == rej[p] # 0 /\ rej[p] \in {lastRefreshed[p], lastLoggedIn[p]}

\* Mutant: the reloaded token is not compared with the rejected one.
Mut_StoredServes(p) == Fresh(store)

\* Mutant: what another caller has stored meanwhile is not looked at.
Mut_StoredUnused(p) == FALSE

\* obtain: another process may have refreshed while we waited for the lock
StoredServes(p) == Fresh(store) /\ store.acc # rej[p]

\* Mutant: every 401 climbs the ladder.
Mut_GivesUp(p) == FALSE

\* obtain: a 401 on a token this process minted is final, unless expired
GivesUp(p) == SelfIssued(p) /\ ~stale[p]

\* Mutant: the refresh token is used after a 401 only, not ahead of expiry.
Mut_MayRefresh(p) == store.ref # 0 /\ rej[p] # 0 /\ rej[p] # lastRefreshed[p]

\* obtain: refresh unless the rejected token came from our own refresh
MayRefresh(p) == store.ref # 0 /\ (rej[p] = 0 \/ rej[p] # lastRefreshed[p])

\* obtain: the interactive login, unless our own login was rejected
MayLogin(p) == ~(rej[p] # 0 /\ rej[p] = lastLoggedIn[p])

\* Mutant: the rotated refresh token is not taken.
Mut_RefreshedToken(t, n, rt) == [acc |-> n, ref |-> t.ref]

\* Mutant: a token without refresh token is kept when the AS does not rotate.
Mut_RefreshedTokenBare(t, n, rt) ==
    IF rt = 0 THEN [acc |-> n] ELSE [acc |-> n, ref |-> rt]

\* refresh: the token built from the n-th answer to a refresh of t, where rt is
\* the answer's refresh_token (0: none, the old one stays good).
RefreshedToken(t, n, rt) == [acc |-> n, ref |-> IF rt = 0 THEN t.ref ELSE rt]

\* The call of p returns token t (0: an error): the deferred fl.Unlock runs.
Return(p, t) ==
    /\ pc' = [pc EXCEPT ![p] = "idle"]
    /\ out' = [out EXCEPT ![p] = t]
    /\ handed' = [handed EXCEPT ![p] = IF t = 0 THEN @ ELSE @ \cup {t}]
    /\ loaded' = [loaded EXCEPT ![p] = NoToken]
    /\ got' = [got EXCEPT ![p] = NoToken]
    /\ lock' = IF lock = p THEN NoProc ELSE lock

Goto(p, state) ==
    /\ pc' = [pc EXCEPT ![p] = state]
    /\ UNCHANGED <<lock, handed, out>>

\* The last rung of obtain: one browser window, or the rejection error.
Escalate(p) ==
    \/ /\ MayLogin(p)
       /\ Goto(p, "login")
       /\ windows' = windows + 1
       /\ UNCHANGED <<loaded, got>>
    \/ /\ ~MayLogin(p)
       /\ Return(p, 0)
       /\ UNCHANGED windows

\* A failure that counts as a cause; Blame(n) charges n of them.
Blame(n) == causes' = causes + n
InBudget == issued < MaxTokens /\ causes < MaxCauses

-----------------------------------------------------------------------------
(* Token: entry, fast path, lock.                                          *)

\* doAuthed calls Token("", "") for a first attempt, Token(t, challenge) after
\* a 401 on a token t it was handed - by any of its concurrent requests.
Call(p) ==
    /\ pc[p] = "idle" /\ InBudget
    /\ \E r \in {0} \cup handed[p], s \in BOOLEAN :
         /\ s => r # 0 /\ "stale" \in Faults
         /\ rej' = [rej EXCEPT ![p] = r]
         /\ stale' = [stale EXCEPT ![p] = s]
         /\ Blame(IF s THEN 1 ELSE 0)
    /\ Goto(p, "fast")
    /\ UNCHANGED <<disk, as, mem, loaded, got, windows>>

FastHit(p) ==
    /\ pc[p] = "fast" /\ rej[p] = 0
    /\ \/ /\ Fresh(cached[p])
          /\ Return(p, cached[p].acc)
          /\ UNCHANGED cached
       \/ /\ ~Fresh(cached[p]) /\ Fresh(store)
          /\ cached' = [cached EXCEPT ![p] = store]
          /\ Return(p, store.acc)
    /\ UNCHANGED <<disk, as, lastRefreshed, lastLoggedIn, call, hist>>

FastMiss(p) ==
    /\ pc[p] = "fast"
    /\ \/ rej[p] # 0
       \/ ~Fresh(cached[p]) /\ (~Fresh(store) \/ "error" \in Faults)
    /\ Goto(p, "lock")
    /\ UNCHANGED <<disk, as, mem, call, loaded, got, hist>>

\* `mcpurl login`: Flow.Login takes the same lock.
CallLogin(p) ==
    /\ pc[p] = "idle" /\ InBudget
    /\ Goto(p, "lock")
    /\ UNCHANGED <<disk, as, mem, call, loaded, got, hist>>

\* Mutant: Flow.Login does not take the lock.
Mut_Acquire(p) ==
    /\ pc[p] = "lock"
    /\ \/ /\ p \in Commands
          /\ pc' = [pc EXCEPT ![p] = "login"] /\ UNCHANGED lock
       \/ /\ p \in Bridges /\ lock = NoProc
          /\ pc' = [pc EXCEPT ![p] = "reload"] /\ lock' = p
    /\ UNCHANGED <<disk, as, mem, call, loaded, got, handed, out, hist>>

\* TryLockContext polls until the lock is free ...
Acquire(p) ==
    /\ pc[p] = "lock" /\ lock = NoProc
    /\ lock' = p
    /\ pc' = [pc EXCEPT ![p] = IF p \in Commands THEN "login" ELSE "reload"]
    /\ UNCHANGED <<disk, as, mem, call, loaded, got, handed, out, hist>>

\* ... or the context is cancelled.
GiveUpLock(p) ==
    /\ pc[p] = "lock" /\ "error" \in Faults
    /\ Return(p, 0)
    /\ UNCHANGED <<disk, as, mem, call, hist>>

-----------------------------------------------------------------------------
(* obtain, under the lock.                                                 *)

\* The store cannot be read, or discovery fails.
ObtainFails(p) ==
    /\ pc[p] = "reload" /\ "error" \in Faults
    /\ Return(p, 0)
    /\ UNCHANGED <<disk, as, mem, call, hist>>

UseStored(p) ==
    /\ pc[p] = "reload" /\ StoredServes(p)
    /\ cached' = [cached EXCEPT ![p] = store]
    /\ Return(p, store.acc)
    /\ UNCHANGED <<disk, as, lastRefreshed, lastLoggedIn, call, hist>>

RejectFinally(p) ==
    /\ pc[p] = "reload" /\ ~StoredServes(p) /\ GivesUp(p)
    /\ Return(p, 0)
    /\ UNCHANGED <<disk, as, mem, call, hist>>

\* Mutant: the refresh token comes from memory.
Mut_StartRefresh(p) ==
    /\ pc[p] = "reload" /\ ~StoredServes(p) /\ ~GivesUp(p) /\ MayRefresh(p)
    /\ loaded' = [loaded EXCEPT ![p] = IF cached[p].ref = 0 THEN store ELSE cached[p]]
    /\ Goto(p, "refresh")
    /\ UNCHANGED <<disk, as, mem, call, got, hist>>

StartRefresh(p) ==
    /\ pc[p] = "reload" /\ ~StoredServes(p) /\ ~GivesUp(p) /\ MayRefresh(p)
    /\ loaded' = [loaded EXCEPT ![p] = store]
    /\ Goto(p, "refresh")
    /\ UNCHANGED <<disk, as, mem, call, got, hist>>

SkipRefresh(p) ==
    /\ pc[p] = "reload" /\ ~StoredServes(p) /\ ~GivesUp(p) /\ ~MayRefresh(p)
    /\ Escalate(p)
    /\ UNCHANGED <<disk, as, mem, call, causes>>

\* The refresh token that an answer to p with refresh_token rt retires.
Retired(p, rt) == IF rt = 0 THEN {} ELSE {loaded[p].ref}

\* The AS accepts the refresh token: it answers a new access token and, when
\* it rotates, a new refresh token in place of the presented one.
Refresh(p) ==
    /\ pc[p] = "refresh" /\ loaded[p].ref \in valid
    /\ \E rt \in {0, issued + 1} :
         /\ issued' = issued + 1
         /\ valid' = (valid \ Retired(p, rt)) \cup ({rt} \ {0})
         /\ spent' = spent \cup Retired(p, rt)
         /\ \/ /\ got' = [got EXCEPT ![p] = RefreshedToken(loaded[p], issued + 1, rt)]
               /\ Goto(p, "saveR")
               /\ UNCHANGED <<loaded, orphaned, causes>>
            \/ /\ "lost" \in Faults   \* the answer never arrives
               /\ orphaned' = orphaned \cup Retired(p, rt)
               /\ Blame(IF rt = 0 THEN 0 ELSE 1)
               /\ Return(p, 0)
    /\ UNCHANGED <<disk, mem, call, windows>>

\* invalid_grant
RefreshRefused(p) ==
    /\ pc[p] = "refresh" /\ loaded[p].ref \notin valid
    /\ Goto(p, "badgrant")
    /\ UNCHANGED <<disk, as, mem, call, loaded, got, hist>>

\* Any other failure of the token endpoint ends the call.
RefreshFails(p) ==
    /\ pc[p] = "refresh" /\ "error" \in Faults
    /\ Return(p, 0)
    /\ UNCHANGED <<disk, as, mem, call, hist>>

\* The store entry is deleted (a failure is only logged), then login.
DropGrant(p) ==
    /\ pc[p] = "badgrant"
    /\ \/ store' = NoToken
       \/ "save" \in Faults /\ UNCHANGED store
    /\ Escalate(p)
    /\ UNCHANGED <<expired, as, mem, call, causes>>

Rotated(p) == got[p].ref # loaded[p].ref

SaveRefreshed(p) ==
    /\ pc[p] = "saveR"
    /\ store' = got[p]
    /\ lastRefreshed' = [lastRefreshed EXCEPT ![p] = got[p].acc]
    /\ cached' = [cached EXCEPT ![p] = got[p]]
    /\ Return(p, got[p].acc)
    /\ UNCHANGED <<expired, as, lastLoggedIn, call, hist>>

\* The rotated refresh token is gone with the answer that carried it.
SaveRefreshedFails(p) ==
    /\ pc[p] = "saveR" /\ "save" \in Faults
    /\ orphaned' = IF Rotated(p) THEN orphaned \cup {loaded[p].ref} ELSE orphaned
    /\ Blame(IF Rotated(p) THEN 1 ELSE 0)
    /\ Return(p, 0)
    /\ UNCHANGED <<disk, issued, valid, spent, mem, call, windows>>

-----------------------------------------------------------------------------
(* loginAndSave.                                                           *)

\* The user completes the login: the code is exchanged for a new grant.
LoginDone(p) ==
    /\ pc[p] = "login"
    /\ \E rt \in {0, issued + 1} :
         /\ rt = 0 => "noRefresh" \in Faults
         /\ issued' = issued + 1
         /\ valid' = valid \cup ({rt} \ {0})
         /\ got' = [got EXCEPT ![p] = [acc |-> issued + 1, ref |-> rt]]
         /\ Blame(IF rt = 0 THEN 1 ELSE 0)
    /\ Goto(p, "saveL")
    /\ UNCHANGED <<disk, spent, orphaned, mem, call, loaded, windows>>

\* Mutant: browserLogin waits for the callback without a timer.
Mut_LoginFails(p) == FALSE /\ UNCHANGED vars

\* Five minutes pass, the user denies, the exchange fails, ctx is cancelled.
LoginFails(p) ==
    /\ pc[p] = "login" /\ "login" \in Faults
    /\ Blame(1)
    /\ Return(p, 0)
    /\ UNCHANGED <<disk, as, mem, call, windows>>

SaveLogin(p) ==
    /\ pc[p] = "saveL"
    /\ store' = got[p]
    /\ lastLoggedIn' = [lastLoggedIn EXCEPT ![p] = got[p].acc]
    /\ cached' = [cached EXCEPT ![p] = got[p]]
    /\ Return(p, got[p].acc)
    /\ UNCHANGED <<expired, as, lastRefreshed, call, hist>>

SaveLoginFails(p) ==
    /\ pc[p] = "saveL" /\ "save" \in Faults
    /\ Blame(1)
    /\ Return(p, 0)
    /\ UNCHANGED <<disk, as, mem, call, windows>>

-----------------------------------------------------------------------------
(* The world around the calls.                                             *)

\* The process dies: the kernel drops its flock, its memory is gone, and a
\* rotation or a login that was not saved yet is lost.
Crash(p) ==
    /\ "crash" \in Faults
    /\ pc[p] # "idle" \/ handed[p] # {}
    /\ pc' = [pc EXCEPT ![p] = "idle"]
    /\ lock' = IF lock = p THEN NoProc ELSE lock
    /\ orphaned' = IF pc[p] = "saveR" /\ Rotated(p)
                   THEN orphaned \cup {loaded[p].ref} ELSE orphaned
    /\ Blame(IF \/ pc[p] = "saveR" /\ Rotated(p)
                \/ pc[p] \in {"login", "saveL"} THEN 1 ELSE 0)
    /\ loaded' = [loaded EXCEPT ![p] = NoToken]
    /\ got' = [got EXCEPT ![p] = NoToken]
    /\ cached' = [cached EXCEPT ![p] = NoToken]
    /\ lastRefreshed' = [lastRefreshed EXCEPT ![p] = 0]
    /\ lastLoggedIn' = [lastLoggedIn EXCEPT ![p] = 0]
    /\ handed' = [handed EXCEPT ![p] = {}]
    /\ out' = [out EXCEPT ![p] = 0]
    /\ UNCHANGED <<disk, issued, valid, spent, call, windows>>

\* Forget, run by `mcpurl logout`: deletes the entry without the lock.
Logout ==
    /\ "logout" \in Faults /\ InBudget
    /\ store # NoToken
    /\ store' = NoToken
    /\ Blame(1)
    /\ UNCHANGED <<expired, as, mem, call, ctl, windows>>

\* The AS revokes a refresh token, for its own reasons or because it saw a
\* spent one of the same grant.
Revoke ==
    /\ "revoke" \in Faults /\ InBudget
    /\ \E r \in valid : valid' = valid \ {r}
    /\ Blame(1)
    /\ UNCHANGED <<disk, issued, spent, orphaned, mem, call, ctl, windows>>

\* Time passes: an access token comes within expirySkew of its expiry.
Expire ==
    /\ \E t \in (1..issued) \ expired : expired' = expired \cup {t}
    /\ UNCHANGED <<store, as, mem, call, ctl, hist>>

\* Nobody has a message to send. With this step a state without successor is
\* one in which some call can never end.
Rest == (\A p \in Procs : pc[p] = "idle") /\ UNCHANGED vars

-----------------------------------------------------------------------------
\* Steps a process takes without the help of the user.
Advance(p) ==
    \/ FastHit(p) \/ FastMiss(p) \/ GiveUpLock(p)
    \/ ObtainFails(p) \/ UseStored(p) \/ RejectFinally(p)
    \/ StartRefresh(p) \/ SkipRefresh(p)
    \/ Refresh(p) \/ RefreshRefused(p) \/ RefreshFails(p)
    \/ DropGrant(p) \/ SaveRefreshed(p) \/ SaveRefreshedFails(p)
    \/ LoginFails(p) \/ SaveLogin(p) \/ SaveLoginFails(p)

Next ==
    \/ \E p \in Bridges : Call(p)
    \/ \E p \in Commands : CallLogin(p)
    \/ \E p \in Procs : Acquire(p) \/ Advance(p) \/ LoginDone(p) \/ Crash(p)
    \/ Logout \/ Revoke \/ Expire \/ Rest

Spec == Init /\ [][Next]_vars

\* Once a process holds the lock it keeps taking its steps: the token endpoint
\* answers or the connection breaks, and browserLogin ends by its timer even
\* if the user never comes back. Taking the lock itself is not assumed fair.
Fairness == \A p \in Procs : WF_vars(Advance(p))
FairSpec == Spec /\ Fairness

-----------------------------------------------------------------------------
(* Properties.                                                             *)

\* Refresh-token rotation (flow.go: refresh, obtain; lock.go): no process
\* presents a refresh token that was already rotated away, unless the answer
\* that rotated it was lost before it could be stored. An AS that detects
\* reuse revokes the whole grant for it.
NoReplay ==
    \A p \in Procs : pc[p] = "refresh" => loaded[p].ref \notin spent \ orphaned

\* The windows Token opens (flow.go: obtain) are bounded, over all processes
\* and however they interleave: one for the first login, and one more for each
\* event that leaves no usable refresh token behind or reports a token
\* expired. Expiry, plain 401s and concurrent calls open none.
WindowsJustified == windows <= 1 + causes

HonorsRejection ==
    \A p \in Procs :
        pc[p] # "idle" /\ pc'[p] = "idle" /\ out'[p] # 0 => out'[p] # rej[p]

\* The provider contract (client.go: TokenProvider): a call made with a
\* rejected token never answers that token.
RejectedNotReturned == [][HonorsRejection]_vars

\* Only logout removes from the store a token whose refresh token the AS still
\* accepts (flow.go: obtain deletes on invalid_grant, but another process may
\* have saved a good token since the refused one was read).
UsableGrantKept ==
    [][store.ref \in valid /\ store' = NoToken => Logout]_vars

\* The token the processes are working on: the one its holder has loaded or
\* obtained, and the stored one while nobody does.
Cell ==
    LET holders == {p \in Procs : pc[p] \in {"refresh", "badgrant", "saveR", "saveL"}}
        TokenOf(p) == IF pc[p] \in {"saveR", "saveL"} THEN got[p] ELSE loaded[p]
    IN IF holders = {} THEN store ELSE TokenOf(CHOOSE p \in holders : TRUE)

Grant == INSTANCE GrantCell WITH cell <- Cell, durable <- store

\* All processes together behave as one holder of the grant (flow.go: obtain
\* reloads under the lock and persists before it returns; lock.go).
OneHolder == Grant!Spec

\* A process inside WithLock comes out of it (lock.go), so that a call in one
\* process never blocks the others for good.
LockReleased == \A p \in Procs : lock = p ~> lock # p

\* flow.go, obtain: "at most one browser window per process, whatever the
\* challenge claims".
OneWindowPerProcess == windows <= Cardinality(Bridges)

=============================================================================
