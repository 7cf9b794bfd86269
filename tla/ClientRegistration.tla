------------------------- MODULE ClientRegistration -------------------------
(***************************************************************************)
(* pkg/oauth/register.go: processes without a configured client_id share   *)
(* one dynamic registration per endpoint. Flow.Token, Flow.Login and       *)
(* Flow.Forget are modelled with their steps on the registration record    *)
(* and on the tokens, which are stored per client; TokenFlow has the       *)
(* details of the ladder that a registration does not touch.               *)
(*                                                                         *)
(* A client is the number of its registration; home[c] is the issuer that  *)
(* registered it, so the number stands for the whole Registration. A token *)
(* is its number in the order of issue, and every one has a refresh token. *)
(***************************************************************************)
EXTENDS Naturals, Sequences

CONSTANTS
    Bridges,     \* processes that call Flow.Token
    Commands,    \* processes that run `mcpurl login` or `mcpurl logout`
    NoProc,      \* holder of the client lock when it is free
    Current,     \* the AS that the endpoint names
    Retired,     \* the AS that it named in the past
    NoIssuer,    \* Flow.disco before discovery
    Veterans,    \* bridges that run since then
    Faults,      \* what may happen in this instance, a subset of FaultKinds
    MaxClients,  \* no call starts once this many clients are registered
    MaxTokens,   \* no call starts once this many tokens are issued
    MaxCauses    \* no call or outside event starts once causes reaches this

Procs == Bridges \cup Commands
Issuers == {Current, Retired}

FaultKinds == {"forget",   \* an AS forgets a client
               "logout",   \* `mcpurl logout`
               "revoke",   \* the AS refuses a refresh token
               "save",     \* a record or a token cannot be written
               "corrupt",  \* the record becomes unreadable
               "crash",    \* a process is killed
               "error"}    \* lock, discovery, registration, token endpoint fail

ASSUME ConstantsAssumption ==
    /\ Bridges \cap Commands = {} /\ NoProc \notin Procs
    /\ Veterans \subseteq Bridges
    /\ Retired # Current /\ NoIssuer \notin Issuers
    /\ Faults \subseteq FaultKinds
    /\ MaxClients \in Nat /\ MaxTokens \in Nat /\ MaxCauses \in Nat

VARIABLES
    record,      \* the client in the endpoint's registration file, 0: no file
    readable,    \* FALSE: the file is there and cannot be parsed
    tokens,      \* per client: the stored token, 0: none
    fresh,       \* tokens that Fresh accepts
    minted,      \* number of tokens issued
    home,        \* per client: the issuer that registered it
    known,       \* clients that their AS still knows
    clientLock,  \* holder of the registration lock
    proc,        \* per process: its place in the code and its Flow
    causes,      \* events that justify one more registration
    pulled       \* clients whose record a command or the disk took away

world == <<fresh, minted, home, known>>
hist  == <<causes, pulled>>
vars  == <<record, readable, tokens, world, clientLock, proc, hist>>

Clients == 1..Len(home)
Places == {"idle", "resolve", "discover", "clock", "adopt", "register", "csave",
           "fast", "tlock", "replaced", "reload", "ladder", "refresh", "login",
           "saveR", "saveL", "drop", "dropLock", "dropRecord",
           "forget", "forgetToken", "forgetRecord"}

Process(clients, toks) ==
    [pc : Places, job : {"token", "login", "logout"}, round : 1..2,
     rej : toks, loaded : toks, got : Nat, held : clients, gone : clients,
     reg : clients, cached : toks, refreshed : toks, loggedIn : toks,
     disco : Issuers \cup {NoIssuer}]

Idle == [pc |-> "idle", job |-> "token", round |-> 1,
         rej |-> 0, loaded |-> 0, got |-> 0, held |-> 0, gone |-> 0,
         reg |-> 0, cached |-> 0, refreshed |-> 0, loggedIn |-> 0,
         disco |-> NoIssuer]

TypeOK ==
    /\ record \in 0..Len(home) /\ readable \in BOOLEAN
    /\ home \in Seq(Issuers) /\ known \subseteq Clients
    /\ tokens \in [Clients -> 0..minted]
    /\ minted \in Nat /\ fresh \subseteq 1..minted
    /\ clientLock \in Procs \cup {NoProc}
    /\ proc \in [Procs -> Process(0..Len(home), 0..minted)]
    /\ causes \in Nat /\ pulled \subseteq Clients

\* Nothing is stored, or a registration at an AS the endpoint has left since.
Init ==
    /\ \/ record = 0 /\ home = <<>> /\ tokens = <<>> /\ minted = 0 /\ causes = 0
       \/ record = 1 /\ home = <<Retired>> /\ tokens = <<1>> /\ minted = 1 /\ causes = 1
    /\ readable = TRUE
    /\ fresh = {} /\ known = 1..Len(home)
    /\ clientLock = NoProc
    /\ proc = [p \in Procs |->
                IF p \in Veterans THEN [Idle EXCEPT !.disco = Retired] ELSE Idle]
    /\ pulled = {}

-----------------------------------------------------------------------------
(* Helpers of the code.                                                    *)

At(p, place) == proc[p].pc = place
InBudget == Len(home) < MaxClients /\ minted < MaxTokens /\ causes < MaxCauses
MayHappen(fault) == fault \in Faults /\ InBudget
Blame(n) == causes' = causes + n

\* ClientStore.Load: the client on record, 0 if there is none or it is unreadable.
Recorded == IF readable THEN record ELSE 0

\* discover: once per process, whatever the endpoint names later.
Disco(p) == IF proc[p].disco = NoIssuer THEN Current ELSE proc[p].disco

\* foreignClient: registered at another AS than the one discovery found.
Foreign(p) == home[proc[p].reg] # Disco(p)

\* The AS of p's discovery takes requests in the name of its client.
Accepted(p) == proc[p].reg \in known /\ home[proc[p].reg] = Disco(p)

\* Mutant: the registration is left, what it issued is remembered.
Mut_Left(s) == [s EXCEPT !.reg = 0, !.cached = 0]

\* leaveClient
Left(s) == [s EXCEPT !.reg = 0, !.cached = 0, !.refreshed = 0, !.loggedIn = 0]

\* The call returns, and with it every deferred Unlock. A command is a process
\* of its own: its memory goes with it.
Ended(s, p) ==
    IF p \in Commands THEN Idle
    ELSE [s EXCEPT !.pc = "idle", !.job = "token", !.round = 1, !.rej = 0,
                   !.loaded = 0, !.got = 0, !.held = 0, !.gone = 0]

\* Mutant: a round follows every errClientGone.
Mut_AfterGone(s, p) ==
    [s EXCEPT !.pc = "resolve", !.round = s.round + 1, !.held = 0, !.loaded = 0, !.gone = 0]

\* errClientGone: Token and Login run one more round, Token at most one.
AfterGone(s, p) ==
    IF s.round = 1
    THEN [s EXCEPT !.pc = "resolve", !.round = 2, !.held = 0, !.loaded = 0, !.gone = 0]
    ELSE Ended(s, p)

Set(p, s) == proc' = [proc EXCEPT ![p] = s]
Goto(p, place) == Set(p, [proc[p] EXCEPT !.pc = place])
Unlock(p) == clientLock' = IF clientLock = p THEN NoProc ELSE clientLock

\* The call of p ends with an error.
Fail(p) == Set(p, Ended(proc[p], p)) /\ Unlock(p)

-----------------------------------------------------------------------------
(* The calls.                                                              *)

\* Flow.Token: a first attempt, or a 401 on the token in use. (A token handed
\* out under a registration left since is nobody's own: selfIssued is false.)
Call(p) ==
    /\ p \in Bridges /\ At(p, "idle") /\ InBudget
    /\ \E r \in {0, proc[p].cached} : Set(p, [proc[p] EXCEPT !.pc = "resolve", !.rej = r])
    /\ UNCHANGED <<record, readable, tokens, world, clientLock, hist>>

\* Flow.Login: discovery comes first.
CallLogin(p) ==
    /\ p \in Commands /\ At(p, "idle") /\ InBudget
    /\ Set(p, [proc[p] EXCEPT !.pc = "resolve", !.job = "login", !.disco = Current])
    /\ UNCHANGED <<record, readable, tokens, world, clientLock, hist>>

CallLogout(p) ==
    /\ p \in Commands /\ At(p, "idle") /\ InBudget /\ "logout" \in Faults
    /\ Set(p, [proc[p] EXCEPT !.pc = "forget", !.job = "logout"])
    /\ UNCHANGED <<record, readable, tokens, world, clientLock, hist>>

-----------------------------------------------------------------------------
(* ensureClient.                                                           *)

\* resourceKey: the registration in memory, or the one on record.
Resolve(p) ==
    /\ At(p, "resolve")
    /\ \/ /\ proc[p].reg # 0
          /\ Goto(p, "fast")
       \/ /\ proc[p].reg = 0 /\ Recorded # 0
          /\ Set(p, [proc[p] EXCEPT !.pc = "fast", !.reg = record])
       \/ /\ proc[p].reg = 0 /\ readable /\ record = 0   \* errNoClient
          /\ Goto(p, "discover")
    /\ UNCHANGED <<record, readable, tokens, world, clientLock, hist>>

\* errCorruptRegistration blocks every run until `mcpurl logout`.
ResolveFails(p) ==
    /\ At(p, "resolve") /\ proc[p].reg = 0 /\ ~readable
    /\ Fail(p)
    /\ UNCHANGED <<record, readable, tokens, world, hist>>

Discover(p) ==
    /\ At(p, "discover")
    /\ Set(p, [proc[p] EXCEPT !.pc = "clock", !.disco = Disco(p)])
    /\ UNCHANGED <<record, readable, tokens, world, clientLock, hist>>

\* WithLock(client-...), to register or to drop.
AcquireClient(p) ==
    /\ proc[p].pc \in {"clock", "dropLock"} /\ clientLock = NoProc
    /\ clientLock' = p
    /\ Goto(p, IF At(p, "clock") THEN "adopt" ELSE "dropRecord")
    /\ UNCHANGED <<record, readable, tokens, world, hist>>

\* Mutant: the record is not looked at again under the lock.
Mut_Adoptable(p) == FALSE

\* Another process may have registered while we waited for the lock.
Adoptable(p) == Recorded # 0 /\ home[record] = proc[p].disco

Adopt(p) ==
    /\ At(p, "adopt")
    /\ \/ /\ Adoptable(p)
          /\ Set(p, [proc[p] EXCEPT !.pc = "fast", !.reg = record])
          /\ Unlock(p)
       \/ /\ ~Adoptable(p)
          /\ Goto(p, "register") /\ UNCHANGED clientLock
    /\ UNCHANGED <<record, readable, tokens, world, hist>>

\* register: the AS creates a client.
Register(p) ==
    /\ At(p, "register")
    /\ home' = Append(home, proc[p].disco)
    /\ known' = known \cup {Len(home')}
    /\ tokens' = Append(tokens, 0)
    /\ Set(p, [proc[p] EXCEPT !.pc = "csave", !.got = Len(home')])
    /\ UNCHANGED <<record, readable, fresh, minted, clientLock, hist>>

SaveClient(p) ==
    /\ At(p, "csave")
    /\ record' = proc[p].got /\ readable' = TRUE
    /\ Set(p, [proc[p] EXCEPT !.pc = "fast", !.reg = proc[p].got, !.got = 0])
    /\ Unlock(p)
    /\ UNCHANGED <<tokens, world, hist>>

SaveClientFails(p) ==
    /\ At(p, "csave") /\ "save" \in Faults
    /\ Fail(p) /\ Blame(1)
    /\ UNCHANGED <<record, readable, tokens, world, pulled>>

-----------------------------------------------------------------------------
(* token and obtain, Login's half of it.                                   *)

\* Login drops a foreign registration at once, outside the token lock.
LoginResolved(p) ==
    /\ At(p, "fast") /\ proc[p].job = "login"
    /\ Goto(p, IF proc[p].round = 1 /\ Foreign(p) THEN "drop" ELSE "tlock")
    /\ UNCHANGED <<record, readable, tokens, world, clientLock, hist>>

FastHit(p) ==
    /\ At(p, "fast") /\ proc[p].job = "token" /\ proc[p].rej = 0
    /\ \/ /\ proc[p].cached \in fresh
          /\ Set(p, Ended(proc[p], p))
       \/ /\ proc[p].cached \notin fresh /\ tokens[proc[p].reg] \in fresh
          /\ Set(p, Ended([proc[p] EXCEPT !.cached = tokens[proc[p].reg]], p))
    /\ UNCHANGED <<record, readable, tokens, world, clientLock, hist>>

FastMiss(p) ==
    /\ At(p, "fast") /\ proc[p].job = "token"
    /\ proc[p].rej # 0 \/ {proc[p].cached, tokens[proc[p].reg]} \cap fresh = {}
    /\ Goto(p, "tlock")
    /\ UNCHANGED <<record, readable, tokens, world, clientLock, hist>>

\* WithLock(key): the key names the client, so each client has its token lock.
AcquireToken(p) ==
    /\ At(p, "tlock") /\ \A q \in Procs : proc[q].held # proc[p].reg
    /\ Set(p, [proc[p] EXCEPT !.held = proc[p].reg,
                               !.pc = IF proc[p].job = "login" THEN "login" ELSE "replaced"])
    /\ UNCHANGED <<record, readable, tokens, world, clientLock, hist>>

\* Mutant: obtain does not look whether its client is still on record.
Mut_Replaced(p) == FALSE

\* clientReplaced
Replaced(p) == Recorded # proc[p].reg

CheckReplaced(p) ==
    /\ At(p, "replaced")
    /\ \/ Replaced(p) /\ Set(p, AfterGone(Left(proc[p]), p))
       \/ ~Replaced(p) /\ Goto(p, "reload")
    /\ UNCHANGED <<record, readable, tokens, world, clientLock, hist>>

SelfIssued(p) ==
    proc[p].rej # 0 /\ proc[p].rej \in {proc[p].refreshed, proc[p].loggedIn}

\* The stored token serves; or a 401 on a token of ours is final, unless the
\* challenge calls it expired; or the ladder goes on.
Reload(p) ==
    /\ At(p, "reload")
    /\ LET t == tokens[proc[p].reg]
           serves == t \in fresh /\ t # proc[p].rej
       IN \/ serves /\ Set(p, Ended([proc[p] EXCEPT !.cached = t], p))
          \/ ~serves /\ SelfIssued(p) /\ Set(p, Ended(proc[p], p))
          \/ ~serves /\ Set(p, [proc[p] EXCEPT !.pc = "ladder", !.loaded = t])
    /\ UNCHANGED <<record, readable, tokens, world, clientLock, hist>>

\* s after the last rung: the browser, unless our own login was rejected.
Escalated(s, p) ==
    IF s.rej # 0 /\ s.rej = s.loggedIn THEN Ended(s, p)
    ELSE [s EXCEPT !.pc = "login"]

Ladder(p) ==
    /\ At(p, "ladder")
    /\ LET s == [proc[p] EXCEPT !.disco = Disco(p)]
           mayRefresh == s.loaded # 0 /\ (s.rej = 0 \/ s.rej # s.refreshed)
       IN \/ Foreign(p) /\ Set(p, [s EXCEPT !.pc = "drop"])
          \/ ~Foreign(p) /\ mayRefresh /\ Set(p, [s EXCEPT !.pc = "refresh"])
          \/ ~Foreign(p) /\ ~mayRefresh /\ Set(p, Escalated(s, p))
    /\ UNCHANGED <<record, readable, tokens, world, clientLock, hist>>

\* The AS issues a token to p's client: by refresh, or after a login.
Mint(p, from, to) ==
    /\ At(p, from) /\ Accepted(p)
    /\ minted' = minted + 1 /\ fresh' = fresh \cup {minted + 1}
    /\ Set(p, [proc[p] EXCEPT !.pc = to, !.got = minted + 1])
    /\ UNCHANGED <<record, readable, tokens, home, known, clientLock, hist>>

Refresh(p) == Mint(p, "refresh", "saveR")
LoginDone(p) == Mint(p, "login", "saveL")

\* invalid_client
RefreshClientGone(p) ==
    /\ At(p, "refresh") /\ ~Accepted(p)
    /\ Goto(p, "drop")
    /\ UNCHANGED <<record, readable, tokens, world, clientLock, hist>>

\* invalid_grant
RefreshGrantGone(p) ==
    /\ At(p, "refresh") /\ Accepted(p) /\ "revoke" \in Faults
    /\ tokens' = [tokens EXCEPT ![proc[p].reg] = 0]
    /\ Set(p, Escalated(proc[p], p))
    /\ UNCHANGED <<record, readable, world, clientLock, hist>>

\* The user gives up; always so when the AS does not know the client_id.
LoginFails(p) ==
    /\ At(p, "login")
    /\ Fail(p)
    /\ UNCHANGED <<record, readable, tokens, world, hist>>

SaveToken(p) ==
    /\ proc[p].pc \in {"saveR", "saveL"}
    /\ LET t == proc[p].got
           s == [proc[p] EXCEPT !.cached = t,
                                !.refreshed = IF proc[p].pc = "saveR" THEN t ELSE @,
                                !.loggedIn = IF proc[p].pc = "saveL" THEN t ELSE @]
       IN /\ tokens' = [tokens EXCEPT ![proc[p].reg] = t]
          /\ Set(p, Ended(s, p))
    /\ UNCHANGED <<record, readable, world, clientLock, hist>>

\* A lock, discovery, registration, token endpoint or token write fails.
StepFails(p) ==
    /\ \/ /\ "error" \in Faults
          /\ proc[p].pc \in {"discover", "clock", "register", "tlock", "ladder",
                             "refresh", "dropLock"}
       \/ "save" \in Faults /\ proc[p].pc \in {"saveR", "saveL"}
    /\ Fail(p)
    /\ UNCHANGED <<record, readable, tokens, world, hist>>

-----------------------------------------------------------------------------
(* dropClient and Forget.                                                  *)

Drop(p) ==
    /\ At(p, "drop")
    /\ tokens' = [tokens EXCEPT ![proc[p].reg] = 0]
    /\ Set(p, [Left(proc[p]) EXCEPT !.pc = "dropLock", !.gone = proc[p].reg])
    /\ UNCHANGED <<record, readable, world, clientLock, hist>>

\* Mutant: the record is deleted, whoever it is about.
Mut_StillRecorded(p) == TRUE

\* The record is deleted only while it is the one this process used.
StillRecorded(p) == Recorded = proc[p].gone

DropRecord(p) ==
    /\ At(p, "dropRecord")
    /\ record' = IF StillRecorded(p) THEN 0 ELSE record
    /\ pulled' = IF StillRecorded(p) /\ p \in Commands
                 THEN pulled \cup ({record} \ {0}) ELSE pulled
    /\ Set(p, AfterGone(proc[p], p)) /\ Unlock(p)
    /\ UNCHANGED <<readable, tokens, world, causes>>

\* Forget takes no lock.
Forget(p) ==
    /\ At(p, "forget")
    /\ \/ /\ readable /\ record = 0
          /\ Set(p, Idle) /\ UNCHANGED <<record, readable>>
       \/ /\ ~readable
          /\ record' = 0 /\ readable' = TRUE
          /\ Set(p, Idle)
       \/ /\ Recorded # 0
          /\ Set(p, [proc[p] EXCEPT !.pc = "forgetToken", !.reg = record])
          /\ UNCHANGED <<record, readable>>
    /\ UNCHANGED <<tokens, world, clientLock, hist>>

ForgetToken(p) ==
    /\ At(p, "forgetToken")
    /\ tokens' = [tokens EXCEPT ![proc[p].reg] = 0]
    /\ Goto(p, "forgetRecord")
    /\ UNCHANGED <<record, readable, world, clientLock, hist>>

\* The record goes, whichever client it names by now.
ForgetRecord(p) ==
    /\ At(p, "forgetRecord")
    /\ record' = 0 /\ readable' = TRUE
    /\ pulled' = pulled \cup ({record} \ {0}) /\ Blame(1)
    /\ Set(p, Idle)
    /\ UNCHANGED <<tokens, world, clientLock>>

-----------------------------------------------------------------------------
(* The world around the calls.                                             *)

Crash(p) ==
    /\ "crash" \in Faults /\ proc[p] # Idle
    /\ Set(p, Idle) /\ Unlock(p)
    /\ Blame(IF At(p, "csave") THEN 1 ELSE 0)
    /\ UNCHANGED <<record, readable, tokens, world, pulled>>

AsForgets ==
    /\ MayHappen("forget")
    /\ \E c \in known : known' = known \ {c}
    /\ Blame(1)
    /\ UNCHANGED <<record, readable, tokens, fresh, minted, home, clientLock, proc, pulled>>

Corrupt ==
    /\ MayHappen("corrupt") /\ Recorded # 0
    /\ readable' = FALSE
    /\ pulled' = pulled \cup {record} /\ Blame(1)
    /\ UNCHANGED <<record, tokens, world, clientLock, proc>>

Expire ==
    /\ \E t \in fresh : fresh' = fresh \ {t}
    /\ UNCHANGED <<record, readable, tokens, minted, home, known, clientLock, proc, hist>>

\* Nobody has anything to ask for.
Rest == (\A p \in Procs : At(p, "idle")) /\ UNCHANGED vars

Step(p) ==
    \/ Call(p) \/ CallLogin(p) \/ CallLogout(p)
    \/ Resolve(p) \/ ResolveFails(p) \/ Discover(p) \/ AcquireClient(p)
    \/ Adopt(p) \/ Register(p) \/ SaveClient(p) \/ SaveClientFails(p)
    \/ LoginResolved(p) \/ FastHit(p) \/ FastMiss(p) \/ AcquireToken(p)
    \/ CheckReplaced(p) \/ Reload(p) \/ Ladder(p)
    \/ Refresh(p) \/ RefreshClientGone(p) \/ RefreshGrantGone(p)
    \/ LoginDone(p) \/ LoginFails(p) \/ SaveToken(p) \/ StepFails(p)
    \/ Drop(p) \/ DropRecord(p)
    \/ Forget(p) \/ ForgetToken(p) \/ ForgetRecord(p) \/ Crash(p)

Next == (\E p \in Procs : Step(p)) \/ AsForgets \/ Corrupt \/ Expire \/ Rest

Spec == Init /\ [][Next]_vars

-----------------------------------------------------------------------------
(* Properties.                                                             *)

\* However many processes find the registration gone at the same time, one new
\* one comes of it (register.go: ensureClient reloads the record under the lock,
\* dropClient spares a record that was replaced): each registration after the
\* first has a cause of its own - the AS forgot one, a logout, a lost write.
RegistrationsJustified == Len(home) <= 1 + causes

\* A bridge opens the browser only with the client on record, unless a command
\* or the disk took the record away while it held the token lock (register.go:
\* clientReplaced; dropClient of the same client needs the token lock).
BridgeLoginCurrent ==
    \A p \in Bridges :
        At(p, "login") => proc[p].reg = Recorded \/ proc[p].reg \in pulled

\* The round after a dropped registration is not stopped by what the dropped
\* client's tokens were refused for: it owes its login (register.go:
\* leaveClient, flow.go: selfIssued).
OwedLogin ==
    \A p \in Bridges :
        proc[p].round = 2 /\ proc[p].pc \in {"reload", "ladder", "login"} => ~SelfIssued(p)

\* dropClient never takes away a registration that the endpoint's AS knows:
\* "another process may have replaced it already, and that one is good"
\* (register.go:225).
GoodRegistrationKept ==
    [][\A p \in Procs : DropRecord(p) /\ record' # record =>
           record \notin known \/ home[record] # Current]_vars
=============================================================================
