-------------------------- MODULE RegistrationProofs --------------------------
(***************************************************************************)
(* Theorems about ClientRegistration, for any set of processes and any     *)
(* faults. IInv holds without further assumption; what is said of the      *)
(* record needs Veterans = {}: no process outlives a change of the         *)
(* endpoint's AS (with one, TLC finds a good registration dropped).        *)
(***************************************************************************)
EXTENDS ClientRegistration, TLAPS

\* Places with a registration in hand, and those under the token lock.
WithClient == {"fast", "tlock", "replaced", "reload", "ladder", "refresh", "login", "saveR",
               "saveL", "drop", "forgetToken"}
TokenLocked == {"replaced", "reload", "ladder", "refresh", "login", "saveR", "saveL"}

\* What a process knows where.
FlowOf(p) ==
    /\ p \in Bridges => proc[p].job = "token"
    /\ p \in Commands /\ proc[p].pc \notin {"idle", "forget", "forgetToken", "forgetRecord"} =>
           proc[p].job = "login"
    /\ proc[p].pc \in {"replaced", "reload", "ladder", "refresh", "saveR"} => p \in Bridges
    /\ proc[p].pc \in {"forget", "forgetToken", "forgetRecord"} => p \in Commands
    /\ proc[p].pc \in WithClient => proc[p].reg # 0
    /\ proc[p].pc \in {"clock", "adopt", "register", "csave"} => proc[p].disco # NoIssuer
    /\ At(p, "csave") => proc[p].got \in Clients /\ home[proc[p].got] = proc[p].disco
    /\ proc[p].pc \in {"saveR", "saveL"} => proc[p].got \in 1..minted
    /\ proc[p].pc \in {"dropLock", "dropRecord"} => proc[p].gone # 0

FlowInv == \A p \in Procs : FlowOf(p)

\* The code between WithLock(client-...) and its Unlock runs in the holder.
ClientLocked == {"adopt", "register", "csave", "dropRecord"}
ClientLockInv == \A p \in Procs : proc[p].pc \in ClientLocked <=> clientLock = p

\* Which token lock a process holds: a bridge up to the end of dropClient.
HeldOf(p) ==
    /\ proc[p].pc \in TokenLocked => proc[p].held = proc[p].reg
    /\ p \in Bridges /\ At(p, "drop") => proc[p].held = proc[p].reg
    /\ p \in Bridges /\ proc[p].pc \in {"dropLock", "dropRecord"} => proc[p].held = proc[p].gone

\* One process at a time is in obtain for one client.
TokenLockInv ==
    /\ \A p, q \in Procs : proc[p].held # 0 /\ proc[p].held = proc[q].held => p = q
    /\ \A p \in Procs : HeldOf(p)

\* leaveClient has forgotten what the dropped client was issued.
LeftOf(p) ==
    proc[p].round = 2 \/ proc[p].pc \in {"dropLock", "dropRecord"} =>
        proc[p].refreshed = 0 /\ proc[p].loggedIn = 0

LeftInv == \A p \in Procs : LeftOf(p)

IInv == TypeOK /\ FlowInv /\ ClientLockInv /\ TokenLockInv /\ LeftInv

-----------------------------------------------------------------------------
(* Each conjunct of IInv is preserved by every step.                       *)

\* What the code does to a Flow gives a Flow again.
LEMMA FlowType ==
    ASSUME NEW C, NEW T, 0 \in C, 0 \in T, NEW s \in Process(C, T), NEW p
    PROVE  /\ Idle \in Process(C, T)
           /\ Left(s) \in Process(C, T)
           /\ Ended(s, p) \in Process(C, T)
           /\ AfterGone(s, p) \in Process(C, T)
           /\ Escalated(s, p) \in Process(C, T)
           /\ \A place \in Places : [s EXCEPT !.pc = place] \in Process(C, T)
<1> USE DEF Process
<1>1. Idle \in Process(C, T)
  BY DEF Idle, Places
<1>2. Left(s) \in Process(C, T)
  BY DEF Left
<1>0. {"idle", "resolve", "login"} \subseteq Places /\ 1 \in 1..2 /\ 2 \in 1..2 /\ 0 \in Nat
  BY DEF Places
<1>3. Ended(s, p) \in Process(C, T)
  <2>1. CASE p \in Commands
    BY <1>1, <2>1 DEF Ended
  <2>2. [s EXCEPT !.pc = "idle", !.job = "token", !.round = 1, !.rej = 0] \in Process(C, T)
    BY <1>0
  <2>3. ASSUME NEW t \in Process(C, T)
        PROVE  [t EXCEPT !.loaded = 0, !.got = 0, !.held = 0, !.gone = 0] \in Process(C, T)
    BY <1>0
  <2> QED
    BY <2>1, <2>2, <2>3 DEF Ended
<1>4. AfterGone(s, p) \in Process(C, T)
  <2>1. [s EXCEPT !.pc = "resolve", !.round = 2, !.held = 0, !.loaded = 0, !.gone = 0] \in Process(C, T)
    BY <1>0
  <2> QED
    BY <1>3, <2>1 DEF AfterGone
<1>5. Escalated(s, p) \in Process(C, T)
  BY <1>0, <1>3 DEF Escalated
<1>6. \A place \in Places : [s EXCEPT !.pc = place] \in Process(C, T)
  OBVIOUS
<1> QED
  BY <1>1, <1>2, <1>3, <1>4, <1>5, <1>6

\* A step of one process leaves the others alone.
LEMMA SetType ==
    ASSUME NEW C, NEW T, NEW D, NEW U, C \subseteq D, T \subseteq U,
           proc \in [Procs -> Process(C, T)],
           NEW p \in Procs, NEW s \in Process(D, U), Set(p, s)
    PROVE  /\ proc' \in [Procs -> Process(D, U)]
           /\ proc'[p] = s
           /\ \A q \in Procs \ {p} : proc'[q] = proc[q]
<1>1. Process(C, T) \subseteq Process(D, U)
  BY DEF Process
<1> QED
  BY <1>1 DEF Set

\* One more client, with its entry in the table of tokens.
LEMMA AppendType ==
    ASSUME NEW n \in Nat, NEW S, NEW f \in [1..n -> S], NEW x \in S
    PROVE  /\ Append(f, x) \in [1..(n + 1) -> S]
           /\ \A i \in 1..n : Append(f, x)[i] = f[i]
<1>1. f \in Seq(S) /\ Len(f) = n
  OBVIOUS
<1>2. Append(f, x) \in Seq(S) /\ Len(Append(f, x)) = n + 1
  BY <1>1
<1>3. \A i \in 1..n : Append(f, x)[i] = f[i]
  BY <1>1
<1>4. Append(f, x) \in [1..(n + 1) -> S]
  BY <1>2, \A t \in Seq(S) : t \in [1..Len(t) -> S]
<1> QED
  BY <1>3, <1>4

\* ... and so does each update of it.
LEMMA UpdateType ==
    ASSUME NEW C, NEW T, NEW s \in Process(C, T), NEW place \in Places, NEW c \in C, NEW t \in T,
           NEW n \in Nat, NEW i \in Issuers \cup {NoIssuer}, NEW j \in {"token", "login", "logout"}
    PROVE  /\ [s EXCEPT !.pc = place, !.rej = t] \in Process(C, T)
           /\ [s EXCEPT !.pc = place, !.loaded = t] \in Process(C, T)
           /\ [s EXCEPT !.pc = place, !.got = n] \in Process(C, T)
           /\ [s EXCEPT !.pc = place, !.reg = c] \in Process(C, T)
           /\ [s EXCEPT !.pc = place, !.reg = c, !.got = n] \in Process(C, T)
           /\ [s EXCEPT !.pc = place, !.gone = c] \in Process(C, T)
           /\ [s EXCEPT !.held = c, !.pc = place] \in Process(C, T)
           /\ [s EXCEPT !.pc = place, !.disco = i] \in Process(C, T)
           /\ [s EXCEPT !.pc = place, !.job = j] \in Process(C, T)
           /\ [s EXCEPT !.pc = place, !.job = j, !.disco = i] \in Process(C, T)
BY DEF Process

\* A step of one process that registers and issues nothing.
LEMMA LocalType ==
    ASSUME TypeOK,
           NEW p \in Procs, NEW s \in Process(0..Len(home), 0..minted), Set(p, s),
           UNCHANGED <<home, minted, fresh, known>>,
           record' \in 0..Len(home), readable' \in BOOLEAN, tokens' \in [Clients -> 0..minted],
           clientLock' \in {clientLock, p, NoProc}, causes' \in Nat, pulled' \subseteq Clients
    PROVE  TypeOK'
<1>1. proc' \in [Procs -> Process(0..Len(home), 0..minted)]
  BY SetType DEF TypeOK
<1> QED
  BY <1>1 DEF TypeOK, Clients

\* ... and stores nothing.
LEMMA QuietType ==
    ASSUME TypeOK,
           NEW p \in Procs, NEW s \in Process(0..Len(home), 0..minted), Set(p, s),
           UNCHANGED <<record, readable, tokens, world, hist>>,
           clientLock' \in {clientLock, p, NoProc}
    PROVE  TypeOK'
BY LocalType DEF TypeOK, world, hist

\* Every step keeps the types.
LEMMA TypeStep ==
    ASSUME TypeOK, FlowInv, [Next]_vars
    PROVE  TypeOK'
<1> DEFINE Flows == Process(0..Len(home), 0..minted)
<1>0. /\ \A p \in Procs : proc[p] \in Flows
      /\ 0 \in 0..Len(home) /\ 0 \in 0..minted /\ record \in 0..Len(home)
      /\ Len(home) \in Nat /\ minted \in Nat /\ fresh \subseteq 0..minted
      /\ tokens \in [Clients -> 0..minted] /\ causes \in Nat /\ pulled \subseteq Clients
  BY DEF TypeOK
<1>t. ASSUME NEW p \in Procs
      PROVE  /\ Idle \in Flows /\ Ended(proc[p], p) \in Flows
             /\ Left(proc[p]) \in Flows /\ AfterGone(proc[p], p) \in Flows
             /\ AfterGone(Left(proc[p]), p) \in Flows /\ Escalated(proc[p], p) \in Flows
             /\ \A place \in Places : [proc[p] EXCEPT !.pc = place] \in Flows
  <2>1. Left(proc[p]) \in Flows
    BY <1>0, FlowType
  <2> QED
    BY <1>0, <2>1, FlowType
<1>1. CASE UNCHANGED vars
  BY <1>1 DEF vars, TypeOK, Clients, world, hist
<1>2. ASSUME NEW p \in Procs, Call(p) PROVE TypeOK'
  <2>1. PICK r \in {0, proc[p].cached} : Set(p, [proc[p] EXCEPT !.pc = "resolve", !.rej = r])
    BY <1>2 DEF Call
  <2>2. [proc[p] EXCEPT !.pc = "resolve", !.rej = r] \in Flows
    <3>1. r \in 0..minted /\ "resolve" \in Places
      BY <1>0 DEF Process, Places
    <3> QED
      BY <1>0, <3>1, UpdateType
  <2> QED
    BY <1>2, <2>1, <2>2, QuietType DEF Call
<1>3. ASSUME NEW p \in Procs, CallLogin(p) PROVE TypeOK'
  <2>1. [proc[p] EXCEPT !.pc = "resolve", !.job = "login", !.disco = Current] \in Flows
    <3>1. "resolve" \in Places /\ Current \in Issuers
      BY DEF Places, Issuers
    <3> QED
      BY <1>0, <3>1, UpdateType
  <2> QED
    BY <1>3, <2>1, QuietType DEF CallLogin
<1>4. ASSUME NEW p \in Procs, CallLogout(p) PROVE TypeOK'
  <2>1. [proc[p] EXCEPT !.pc = "forget", !.job = "logout"] \in Flows
    <3>1. "forget" \in Places
      BY DEF Places
    <3> QED
      BY <1>0, <3>1, UpdateType
  <2> QED
    BY <1>4, <2>1, QuietType DEF CallLogout
<1>5. ASSUME NEW p \in Procs, Resolve(p) PROVE TypeOK'
  <2>1. [proc[p] EXCEPT !.pc = "fast", !.reg = record] \in Flows
    <3>1. "fast" \in Places
      BY DEF Places
    <3> QED
      BY <1>0, <3>1, UpdateType
  <2>2. "fast" \in Places /\ "discover" \in Places
    BY DEF Places
  <2> QED
    BY <1>t, <1>5, <2>1, <2>2, QuietType DEF Resolve, Goto
<1>6. ASSUME NEW p \in Procs, ResolveFails(p) PROVE TypeOK'
  BY <1>t, <1>6, QuietType DEF ResolveFails, Fail, Unlock
<1>7. ASSUME NEW p \in Procs, Discover(p) PROVE TypeOK'
  <2>1. [proc[p] EXCEPT !.pc = "clock", !.disco = Disco(p)] \in Flows
    <3>1. "clock" \in Places /\ Disco(p) \in Issuers \cup {NoIssuer}
      BY <1>0 DEF Places, Process, Disco, Issuers
    <3> QED
      BY <1>0, <3>1, UpdateType
  <2> QED
    BY <1>7, <2>1, QuietType DEF Discover
<1>8. ASSUME NEW p \in Procs, AcquireClient(p) PROVE TypeOK'
  <2>1. "adopt" \in Places /\ "dropRecord" \in Places
    BY DEF Places
  <2> QED
    BY <1>t, <1>8, <2>1, QuietType DEF AcquireClient, Goto
<1>9. ASSUME NEW p \in Procs, Adopt(p) PROVE TypeOK'
  <2>1. [proc[p] EXCEPT !.pc = "fast", !.reg = record] \in Flows
    <3>1. "fast" \in Places
      BY DEF Places
    <3> QED
      BY <1>0, <3>1, UpdateType
  <2>2. "register" \in Places
    BY DEF Places
  <2> QED
    BY <1>t, <1>9, <2>1, <2>2, QuietType DEF Adopt, Goto, Unlock
<1>10. ASSUME NEW p \in Procs, Register(p) PROVE TypeOK'
  <2>1. proc[p].disco \in Issuers
    BY <1>0, <1>10 DEF Register, FlowInv, FlowOf, At, Process
  <2>2. home' \in Seq(Issuers) /\ Len(home') = Len(home) + 1
    BY <1>10, <2>1 DEF Register, TypeOK
  <2>3. [proc[p] EXCEPT !.pc = "csave", !.got = Len(home')] \in Flows
    <3>1. "csave" \in Places /\ Len(home') \in Nat
      BY <1>0, <2>2 DEF Places
    <3> QED
      BY <1>0, <3>1, UpdateType
  <2>4. 0..Len(home) \subseteq 0..Len(home') /\ 1..Len(home) \subseteq 1..Len(home')
    BY <1>0, <2>2
  <2>5. proc' \in [Procs -> Process(0..Len(home'), 0..minted)]
    <3>1. Flows \subseteq Process(0..Len(home'), 0..minted)
      BY <2>4 DEF Process
    <3> QED
      BY <1>10, <2>3, <2>4, <3>1, SetType DEF Register, TypeOK
  <2>6. tokens' \in [1..Len(home') -> 0..minted]
    BY <1>0, <1>10, <2>2, AppendType DEF Register, Clients
  <2> QED
    BY <1>10, <2>2, <2>4, <2>5, <2>6 DEF Register, TypeOK, Clients, hist
<1>11. ASSUME NEW p \in Procs, SaveClient(p) PROVE TypeOK'
  <2>1. At(p, "csave") /\ proc[p].got \in Clients
    BY <1>11 DEF SaveClient, FlowInv, FlowOf
  <2>2. proc[p].got \in 0..Len(home)
    BY <1>0, <2>1 DEF Clients
  <2>3. [proc[p] EXCEPT !.pc = "fast", !.reg = proc[p].got, !.got = 0] \in Flows
    <3>1. "fast" \in Places
      BY DEF Places
    <3> QED
      BY <1>0, <2>2, <3>1, UpdateType
  <2> QED
    BY <1>0, <1>11, <2>2, <2>3, LocalType DEF SaveClient, Unlock, world, hist
<1>12. ASSUME NEW p \in Procs, SaveClientFails(p) PROVE TypeOK'
  BY <1>0, <1>t, <1>12, LocalType DEF SaveClientFails, Fail, Unlock, Blame, world, TypeOK
<1>13. ASSUME NEW p \in Procs, LoginResolved(p) PROVE TypeOK'
  <2>1. PICK place \in {"drop", "tlock"} : Goto(p, place)
    BY <1>13 DEF LoginResolved
  <2>2. [proc[p] EXCEPT !.pc = place] \in Flows
    BY <1>t DEF Places
  <2> QED
    BY <1>13, <2>1, <2>2, QuietType DEF LoginResolved, Goto
<1>14. ASSUME NEW p \in Procs, FastHit(p) PROVE TypeOK'
  <2>1. CASE Set(p, Ended(proc[p], p))
    BY <1>t, <1>14, <2>1, QuietType DEF FastHit
  <2>2. CASE /\ tokens[proc[p].reg] \in fresh
             /\ Set(p, Ended([proc[p] EXCEPT !.cached = tokens[proc[p].reg]], p))
    <3>1. [proc[p] EXCEPT !.cached = tokens[proc[p].reg]] \in Flows
      BY <1>0, <2>2 DEF Process
    <3> QED
      BY <1>0, <1>14, <2>2, <3>1, FlowType, QuietType DEF FastHit
  <2> QED
    BY <1>14, <2>1, <2>2 DEF FastHit
<1>15. ASSUME NEW p \in Procs, FastMiss(p) PROVE TypeOK'
  <2>1. PICK place \in {"tlock"} : Goto(p, place)
    BY <1>15 DEF FastMiss
  <2>2. [proc[p] EXCEPT !.pc = place] \in Flows
    BY <1>t DEF Places
  <2> QED
    BY <1>15, <2>1, <2>2, QuietType DEF FastMiss, Goto
<1>16. ASSUME NEW p \in Procs, AcquireToken(p) PROVE TypeOK'
  <2>1. PICK place \in {"login", "replaced"} :
            Set(p, [proc[p] EXCEPT !.held = proc[p].reg, !.pc = place])
    BY <1>16 DEF AcquireToken
  <2>2. [proc[p] EXCEPT !.held = proc[p].reg, !.pc = place] \in Flows
    <3>1. place \in Places /\ proc[p].reg \in 0..Len(home)
      BY <1>0 DEF Process, Places
    <3> QED
      BY <1>0, <3>1, UpdateType
  <2> QED
    BY <1>16, <2>1, <2>2, QuietType DEF AcquireToken
<1>17. ASSUME NEW p \in Procs, CheckReplaced(p) PROVE TypeOK'
  <2>1. "reload" \in Places
    BY DEF Places
  <2> QED
    BY <1>t, <1>17, <2>1, QuietType DEF CheckReplaced, Goto
<1>18. ASSUME NEW p \in Procs, Reload(p) PROVE TypeOK'
  <2> DEFINE t == tokens[proc[p].reg]
  <2>1. t \in 0..minted
    BY <1>0, <1>18 DEF Reload, FlowInv, FlowOf, At, WithClient, Process, Clients
  <2>2. [proc[p] EXCEPT !.cached = t] \in Flows
    BY <1>0, <2>1 DEF Process
  <2>3. [proc[p] EXCEPT !.pc = "ladder", !.loaded = t] \in Flows
    <3>1. "ladder" \in Places
      BY DEF Places
    <3> QED
      BY <1>0, <2>1, <3>1, UpdateType
  <2>4. Ended([proc[p] EXCEPT !.cached = t], p) \in Flows
    BY <1>0, <2>2, FlowType
  <2> QED
    BY <1>t, <1>18, <2>3, <2>4, QuietType DEF Reload
<1>19. ASSUME NEW p \in Procs, Ladder(p) PROVE TypeOK'
  <2> DEFINE s == [proc[p] EXCEPT !.disco = Disco(p)]
  <2>1. s \in Flows
    BY <1>0 DEF Process, Disco, Issuers
  <2> HIDE DEF s
  <2>2. "drop" \in Places /\ "refresh" \in Places
    BY DEF Places
  <2>3. /\ [s EXCEPT !.pc = "drop"] \in Flows /\ [s EXCEPT !.pc = "refresh"] \in Flows
        /\ Escalated(s, p) \in Flows
    BY <1>0, <2>1, <2>2, FlowType
  <2>4. \E t \in Flows : Set(p, t)
    BY <1>19, <2>3 DEF Ladder, s
  <2> QED
    BY <1>19, <2>4, QuietType DEF Ladder
<1>20. ASSUME NEW p \in Procs, Refresh(p) PROVE TypeOK'
  <2>1. Mint(p, "refresh", "saveR")
    BY <1>20 DEF Refresh
  <2>2. minted' = minted + 1 /\ 0..minted \subseteq 0..minted' /\ 1..minted \subseteq 1..minted'
        /\ minted' \in 1..minted' /\ minted' \in Nat
    BY <1>0, <2>1 DEF Mint
  <2>3. [proc[p] EXCEPT !.pc = "saveR", !.got = minted + 1] \in Flows
    <3>1. "saveR" \in Places /\ minted + 1 \in Nat
      BY <1>0 DEF Places
    <3> QED
      BY <1>0, <3>1, UpdateType
  <2>4. proc' \in [Procs -> Process(0..Len(home), 0..minted')]
    <3>1. Flows \subseteq Process(0..Len(home), 0..minted')
      BY <2>2 DEF Process
    <3> QED
      BY <2>1, <2>2, <2>3, <3>1, SetType DEF Mint, TypeOK
  <2>5. tokens \in [Clients -> 0..minted']
    BY <1>0, <2>2
  <2> QED
    BY <2>1, <2>2, <2>4, <2>5 DEF Mint, TypeOK, Clients, hist
<1>21. ASSUME NEW p \in Procs, RefreshClientGone(p) PROVE TypeOK'
  <2>1. PICK place \in {"drop"} : Goto(p, place)
    BY <1>21 DEF RefreshClientGone
  <2>2. [proc[p] EXCEPT !.pc = place] \in Flows
    BY <1>t DEF Places
  <2> QED
    BY <1>21, <2>1, <2>2, QuietType DEF RefreshClientGone, Goto
<1>22. ASSUME NEW p \in Procs, RefreshGrantGone(p) PROVE TypeOK'
  <2>1. tokens' \in [Clients -> 0..minted]
    BY <1>0, <1>22 DEF RefreshGrantGone
  <2> QED
    BY <1>0, <1>t, <1>22, <2>1, LocalType DEF RefreshGrantGone, world, hist, TypeOK
<1>23. ASSUME NEW p \in Procs, LoginDone(p) PROVE TypeOK'
  <2>1. Mint(p, "login", "saveL")
    BY <1>23 DEF LoginDone
  <2>2. minted' = minted + 1 /\ 0..minted \subseteq 0..minted' /\ 1..minted \subseteq 1..minted'
        /\ minted' \in 1..minted' /\ minted' \in Nat
    BY <1>0, <2>1 DEF Mint
  <2>3. [proc[p] EXCEPT !.pc = "saveL", !.got = minted + 1] \in Flows
    <3>1. "saveL" \in Places /\ minted + 1 \in Nat
      BY <1>0 DEF Places
    <3> QED
      BY <1>0, <3>1, UpdateType
  <2>4. proc' \in [Procs -> Process(0..Len(home), 0..minted')]
    <3>1. Flows \subseteq Process(0..Len(home), 0..minted')
      BY <2>2 DEF Process
    <3> QED
      BY <2>1, <2>2, <2>3, <3>1, SetType DEF Mint, TypeOK
  <2>5. tokens \in [Clients -> 0..minted']
    BY <1>0, <2>2
  <2> QED
    BY <2>1, <2>2, <2>4, <2>5 DEF Mint, TypeOK, Clients, hist
<1>24. ASSUME NEW p \in Procs, LoginFails(p) PROVE TypeOK'
  BY <1>t, <1>24, QuietType DEF LoginFails, Fail, Unlock
<1>25. ASSUME NEW p \in Procs, SaveToken(p) PROVE TypeOK'
  <2> DEFINE t == proc[p].got
  <2>1. t \in 0..minted
    BY <1>0, <1>25 DEF SaveToken, FlowInv, FlowOf
  <2>2. PICK r \in {t, proc[p].refreshed}, l \in {t, proc[p].loggedIn} :
            Set(p, Ended([proc[p] EXCEPT !.cached = t, !.refreshed = r, !.loggedIn = l], p))
    BY <1>25 DEF SaveToken
  <2>3. [proc[p] EXCEPT !.cached = t, !.refreshed = r, !.loggedIn = l] \in Flows
    BY <1>0, <2>1, ZenonT(60) DEF Process
  <2>4. Ended([proc[p] EXCEPT !.cached = t, !.refreshed = r, !.loggedIn = l], p) \in Flows
    BY <1>0, <2>3, FlowType
  <2>5. tokens' \in [Clients -> 0..minted]
    BY <1>0, <1>25, <2>1 DEF SaveToken
  <2> QED
    BY <1>0, <1>25, <2>2, <2>4, <2>5, LocalType DEF SaveToken, world, hist, TypeOK
<1>26. ASSUME NEW p \in Procs, StepFails(p) PROVE TypeOK'
  BY <1>t, <1>26, QuietType DEF StepFails, Fail, Unlock
<1>27. ASSUME NEW p \in Procs, Drop(p) PROVE TypeOK'
  <2>1. [Left(proc[p]) EXCEPT !.pc = "dropLock", !.gone = proc[p].reg] \in Flows
    <3>1. Left(proc[p]) \in Flows /\ proc[p].reg \in 0..Len(home)
      BY <1>0, <1>t DEF Process
    <3>2. "dropLock" \in Places
      BY DEF Places
    <3>3. \A s \in Flows, c \in 0..Len(home) : [s EXCEPT !.pc = "dropLock", !.gone = c] \in Flows
      BY <3>2 DEF Process
    <3> QED
      BY <3>1, <3>3
  <2>2. tokens' \in [Clients -> 0..minted]
    BY <1>0, <1>27 DEF Drop
  <2> QED
    BY <1>0, <1>27, <2>1, <2>2, LocalType DEF Drop, world, hist, TypeOK
<1>28. ASSUME NEW p \in Procs, DropRecord(p) PROVE TypeOK'
  <2>1. record' \in 0..Len(home)
    BY <1>0, <1>28 DEF DropRecord
  <2>2. pulled' \subseteq Clients
    BY <1>0, <1>28 DEF DropRecord, Clients
  <2> QED
    BY <1>0, <1>t, <1>28, <2>1, <2>2, LocalType DEF DropRecord, Unlock, world, hist, TypeOK
<1>29. ASSUME NEW p \in Procs, Forget(p) PROVE TypeOK'
  <2>1. [proc[p] EXCEPT !.pc = "forgetToken", !.reg = record] \in Flows
    <3>1. "forgetToken" \in Places
      BY DEF Places
    <3> QED
      BY <1>0, <3>1, UpdateType
  <2>2. record' \in 0..Len(home) /\ readable' \in BOOLEAN
    BY <1>0, <1>29 DEF Forget, TypeOK
  <2>3. \E s \in Flows : Set(p, s)
    BY <1>t, <1>29, <2>1 DEF Forget
  <2> QED
    BY <1>0, <1>29, <2>2, <2>3, LocalType DEF Forget, world, hist, TypeOK
<1>30. ASSUME NEW p \in Procs, ForgetToken(p) PROVE TypeOK'
  <2>1. tokens' \in [Clients -> 0..minted] /\ "forgetRecord" \in Places
    BY <1>0, <1>30 DEF ForgetToken, Places
  <2> QED
    BY <1>0, <1>t, <1>30, <2>1, LocalType DEF ForgetToken, Goto, world, hist, TypeOK
<1>31. ASSUME NEW p \in Procs, ForgetRecord(p) PROVE TypeOK'
  <2>1. pulled' \subseteq Clients /\ causes' \in Nat /\ record' = 0
    BY <1>0, <1>31 DEF ForgetRecord, Blame, Clients
  <2> QED
    BY <1>0, <1>t, <1>31, <2>1, LocalType DEF ForgetRecord, world
<1>32. ASSUME NEW p \in Procs, Crash(p) PROVE TypeOK'
  <2>1. causes' \in Nat
    BY <1>0, <1>32 DEF Crash, Blame
  <2> QED
    BY <1>0, <1>t, <1>32, <2>1, LocalType DEF Crash, Unlock, world, TypeOK
<1>33. CASE AsForgets
  BY <1>0, <1>33 DEF AsForgets, Blame, TypeOK, Clients
<1>34. CASE Corrupt
  <2>1. record \in Clients
    BY <1>0, <1>34 DEF Corrupt, Recorded, Clients
  <2> QED
    <3>1. pulled' \subseteq Clients /\ causes' \in Nat
      BY <1>0, <1>34, <2>1 DEF Corrupt, Blame
    <3> QED
      BY <1>34, <3>1 DEF Corrupt, TypeOK, Clients, world
<1>35. CASE Expire
  BY <1>35 DEF Expire, TypeOK, Clients, hist
<1>36. CASE Rest
  BY <1>36 DEF Rest, vars, TypeOK, Clients, world, hist
<1> QED
  BY <1>1, <1>2, <1>3, <1>4, <1>5, <1>6, <1>7, <1>8, <1>9, <1>10, <1>11, <1>12, <1>13,
     <1>14, <1>15, <1>16, <1>17, <1>18, <1>19, <1>20, <1>21, <1>22, <1>23, <1>24, <1>25, <1>26,
     <1>27, <1>28, <1>29, <1>30, <1>31, <1>32, <1>33, <1>34, <1>35, <1>36
     DEF Next, Step

\* A step of one process leaves the memory of the others alone.
LEMMA Others ==
    ASSUME TypeOK, NEW p \in Procs, Step(p)
    PROVE  \A q \in Procs \ {p} : proc'[q] = proc[q]
<1>1. \E s : Set(p, s)
  BY Zenon
     DEF Step, Call, CallLogin, CallLogout, Resolve, ResolveFails, Discover, AcquireClient, Adopt,
         Register, SaveClient, SaveClientFails, LoginResolved, FastHit, FastMiss, AcquireToken,
         CheckReplaced, Reload, Ladder, Refresh, RefreshClientGone, RefreshGrantGone, LoginDone,
         LoginFails, SaveToken, StepFails, Drop, DropRecord, Forget, ForgetToken, ForgetRecord,
         Crash, Mint, Fail, Goto
<1>2. proc \in [Procs -> Process(0..Len(home), 0..minted)]
  BY DEF TypeOK
<1> QED
  BY <1>1, <1>2 DEF Set

\* Only Register changes what the servers know of clients.
LEMMA StepKeeps ==
    ASSUME NEW p \in Procs, Step(p), ~Register(p)
    PROVE  UNCHANGED home /\ UNCHANGED known /\ minted' \in {minted, minted + 1}
BY DEF Step, Call, CallLogin, CallLogout, Resolve, ResolveFails, Discover, AcquireClient, Adopt,
       SaveClient, SaveClientFails, LoginResolved, FastHit, FastMiss, AcquireToken,
       CheckReplaced, Reload, Ladder, Refresh, RefreshClientGone, RefreshGrantGone, LoginDone,
       LoginFails, SaveToken, StepFails, Drop, DropRecord, Forget, ForgetToken, ForgetRecord,
       Crash, Mint, world

\* Registrations and tokens are only added, and an AS that forgot a client
\* does not learn it again.
LEMMA WorldGrows ==
    ASSUME TypeOK, FlowInv, [Next]_vars
    PROVE  /\ Len(home) <= Len(home') /\ minted <= minted'
           /\ \A c \in Clients : home'[c] = home[c] /\ (c \in known' => c \in known)
<1> USE DEF TypeOK
<1>1. CASE UNCHANGED home /\ (UNCHANGED known \/ AsForgets) /\ minted' \in {minted, minted + 1}
  BY <1>1 DEF AsForgets
<1>2. ASSUME NEW p \in Procs, Register(p)
      PROVE  /\ Len(home) <= Len(home') /\ minted <= minted'
             /\ \A c \in Clients : home'[c] = home[c] /\ (c \in known' => c \in known)
  <2>1. proc[p].disco \in Issuers
    BY <1>2 DEF Register, FlowInv, FlowOf, At, Process
  <2>2. Len(home') = Len(home) + 1 /\ \A c \in Clients : home'[c] = home[c]
    BY <1>2, <2>1 DEF Register, Clients
  <2>3. \A c \in Clients : c \in known' => c \in known
    BY <1>2, <2>2 DEF Register, Clients
  <2>4. minted' = minted /\ minted <= minted /\ Len(home) <= Len(home) + 1
    BY <1>2 DEF Register
  <2> QED
    BY <2>2, <2>3, <2>4
<1>3. ASSUME NEW p \in Procs, Step(p), ~Register(p)
      PROVE  UNCHANGED home /\ UNCHANGED known /\ minted' \in {minted, minted + 1}
  BY <1>3, StepKeeps
<1> QED
  BY <1>1, <1>2, <1>3 DEF Next, AsForgets, Corrupt, Expire, Rest, vars, world

\* What a process knows about its own place ...
LEMMA FlowSelf ==
    ASSUME TypeOK, NEW p \in Procs, Step(p), FlowOf(p)
    PROVE  FlowOf(p)'
<1> DEFINE C == 0..Len(home)
           T == 0..minted
           I == Issuers \cup {NoIssuer}
<1>0. proc \in [Procs -> [pc : Places, job : {"token", "login", "logout"}, round : 1..2,
                         rej : T, loaded : T, got : Nat, held : C, gone : C,
                         reg : C, cached : T, refreshed : T, loggedIn : T, disco : I]]
  BY DEF TypeOK, Process
<1>1. /\ Len(home) \in Nat /\ home \in Seq(Issuers) /\ minted \in Nat /\ Clients = 1..Len(home)
      /\ Bridges \cap Commands = {} /\ Procs = Bridges \cup Commands
      /\ NoIssuer \notin Issuers /\ Current \in Issuers
  BY ConstantsAssumption DEF TypeOK, Clients, Procs, Issuers
<1> HIDE DEF C, T, I
<1> USE <1>0, <1>1 DEF At, FlowOf, WithClient, world, hist
<1>2. CASE Call(p)
  BY <1>2 DEF Call, Set
<1>3. CASE CallLogin(p)
  BY <1>3 DEF CallLogin, Set
<1>4. CASE CallLogout(p)
  BY <1>4 DEF CallLogout, Set
<1>5. CASE Resolve(p)
  <2>1. CASE proc[p].reg # 0 /\ Goto(p, "fast")
    BY <1>5, <2>1 DEF Resolve, Goto, Recorded, Set
  <2>2. CASE Recorded # 0 /\ Set(p, [proc[p] EXCEPT !.pc = "fast", !.reg = record])
    BY <1>5, <2>2 DEF Resolve, Goto, Recorded, Set
  <2>3. CASE readable /\ record = 0 /\ Goto(p, "discover")
    BY <1>5, <2>3 DEF Resolve, Goto, Recorded, Set
  <2> QED
    BY <1>5, <2>1, <2>2, <2>3 DEF Resolve
<1>6. CASE ResolveFails(p)
  BY <1>6 DEF ResolveFails, Fail, Set, Ended, Idle, Unlock
<1>7. CASE Discover(p)
  BY <1>7 DEF Discover, Disco, Set
<1>8. CASE AcquireClient(p)
  BY <1>8 DEF AcquireClient, Goto, Set
<1>9. CASE Adopt(p)
  <2>1. CASE Recorded # 0 /\ Set(p, [proc[p] EXCEPT !.pc = "fast", !.reg = record])
    BY <1>9, <2>1 DEF Adopt, Goto, Recorded, Set
  <2>2. CASE Goto(p, "register")
    BY <1>9, <2>2 DEF Adopt, Goto, Recorded, Set
  <2> QED
    BY <1>9, <2>1, <2>2 DEF Adopt, Adoptable
<1>10. CASE Register(p)
  <2>0. proc[p].disco \in Issuers
    BY <1>10 DEF Register, I
  <2>1. /\ home' \in Seq(Issuers) /\ Len(home') = Len(home) + 1 /\ home'[Len(home')] = proc[p].disco
    BY <1>10, <2>0 DEF Register
  <2> QED
    BY <1>10, <2>1 DEF Register, Set, Clients
<1>11. CASE SaveClient(p)
  BY <1>11 DEF SaveClient, Unlock, Set
<1>12. CASE SaveClientFails(p)
  BY <1>12 DEF SaveClientFails, Fail, Blame, Set, Ended, Idle, Unlock
<1>13. CASE LoginResolved(p)
  BY <1>13 DEF LoginResolved, Goto, Set
<1>14. CASE FastHit(p)
  <2>1. CASE Set(p, Ended(proc[p], p))
    BY <1>14, <2>1 DEF FastHit, Set, Ended, Idle
  <2>2. CASE Set(p, Ended([proc[p] EXCEPT !.cached = tokens[proc[p].reg]], p))
    BY <1>14, <2>2 DEF FastHit, Set, Ended, Idle
  <2> QED
    BY <1>14, <2>1, <2>2 DEF FastHit
<1>15. CASE FastMiss(p)
  BY <1>15 DEF FastMiss, Goto, Set
<1>16. CASE AcquireToken(p)
  <2>1. CASE proc[p].job = "login"
    BY <1>16, <2>1 DEF AcquireToken, Set
  <2>2. CASE proc[p].job # "login"
    BY <1>16, <2>2 DEF AcquireToken, Set
  <2> QED
    BY <1>16, <2>1, <2>2 DEF AcquireToken
<1>17. CASE CheckReplaced(p)
  <2>1. CASE Goto(p, "reload")
    BY <1>17, <2>1 DEF CheckReplaced, Set, Goto, AfterGone, Left, Ended, Idle
  <2>2. CASE proc[p].round = 1 /\ Set(p, AfterGone(Left(proc[p]), p))
    BY <1>17, <2>2 DEF CheckReplaced, Set, Goto, AfterGone, Left, Ended, Idle
  <2>3. CASE proc[p].round # 1 /\ Set(p, AfterGone(Left(proc[p]), p))
    BY <1>17, <2>3 DEF CheckReplaced, Set, Goto, AfterGone, Left, Ended, Idle
  <2> QED
    BY <1>17, <2>1, <2>2, <2>3 DEF CheckReplaced
<1>18. CASE Reload(p)
  <2>1. CASE Set(p, Ended(proc[p], p))
    BY <1>18, <2>1 DEF Reload, Set, Ended, Idle
  <2>2. CASE Set(p, Ended([proc[p] EXCEPT !.cached = tokens[proc[p].reg]], p))
    BY <1>18, <2>2 DEF Reload, Set, Ended, Idle
  <2>3. CASE Set(p, [proc[p] EXCEPT !.pc = "ladder", !.loaded = tokens[proc[p].reg]])
    BY <1>18, <2>3 DEF Reload, Set, Ended, Idle
  <2> QED
    BY <1>18, <2>1, <2>2, <2>3 DEF Reload
<1>19. CASE Ladder(p)
  <2>1. CASE Set(p, [[proc[p] EXCEPT !.disco = Disco(p)] EXCEPT !.pc = "drop"])
    BY <1>19, <2>1 DEF Ladder, Set, Escalated, Ended, Idle, Disco
  <2>2. CASE Set(p, [[proc[p] EXCEPT !.disco = Disco(p)] EXCEPT !.pc = "refresh"])
    BY <1>19, <2>2 DEF Ladder, Set, Escalated, Ended, Idle, Disco
  <2>3. CASE Set(p, Escalated([proc[p] EXCEPT !.disco = Disco(p)], p))
    BY <1>19, <2>3 DEF Ladder, Set, Escalated, Ended, Idle, Disco
  <2> QED
    BY <1>19, <2>1, <2>2, <2>3 DEF Ladder
<1>20. CASE Refresh(p)
  BY <1>20 DEF Refresh, Mint, Set
<1>21. CASE RefreshClientGone(p)
  BY <1>21 DEF RefreshClientGone, Goto, Set
<1>22. CASE RefreshGrantGone(p)
  BY <1>22 DEF RefreshGrantGone, Set, Escalated, Ended, Idle
<1>23. CASE LoginDone(p)
  BY <1>23 DEF LoginDone, Mint, Set
<1>24. CASE LoginFails(p)
  BY <1>24 DEF LoginFails, Fail, Set, Ended, Idle, Unlock
<1>25. CASE SaveToken(p)
  BY <1>25 DEF SaveToken, Set, Ended, Idle
<1>26. CASE StepFails(p)
  BY <1>26 DEF StepFails, Fail, Set, Ended, Idle, Unlock
<1>27. CASE Drop(p)
  BY <1>27 DEF Drop, Set, Left
<1>28. CASE DropRecord(p)
  BY <1>28 DEF DropRecord, StillRecorded, Recorded, Set, AfterGone, Ended, Idle, Unlock
<1>29. CASE Forget(p)
  <2>1. CASE Set(p, Idle)
    BY <1>29, <2>1 DEF Forget, Set, Idle, Recorded
  <2>2. CASE Recorded # 0 /\ Set(p, [proc[p] EXCEPT !.pc = "forgetToken", !.reg = record])
    BY <1>29, <2>2 DEF Forget, Set, Idle, Recorded
  <2> QED
    BY <1>29, <2>1, <2>2 DEF Forget
<1>30. CASE ForgetToken(p)
  BY <1>30 DEF ForgetToken, Goto, Set
<1>31. CASE ForgetRecord(p)
  BY <1>31 DEF ForgetRecord, Set, Idle, Blame
<1>32. CASE Crash(p)
  BY <1>32 DEF Crash, Set, Idle, Unlock, Blame
<1> QED
  BY <1>2, <1>3, <1>4, <1>5, <1>6, <1>7, <1>8, <1>9, <1>10, <1>11, <1>12, <1>13, <1>14, <1>15, <1>16, <1>17, <1>18,
     <1>19, <1>20, <1>21, <1>22, <1>23, <1>24, <1>25, <1>26, <1>27, <1>28, <1>29, <1>30, <1>31, <1>32 DEF Step

\* ... is true after the steps of the others.
LEMMA FlowStep ==
    ASSUME TypeOK, FlowInv, [Next]_vars
    PROVE  FlowInv'
<1>0. /\ Clients \subseteq Clients' /\ 1..minted \subseteq 1..minted'
      /\ \A c \in Clients : home'[c] = home[c]
  BY WorldGrows, TypeStep DEF TypeOK, Clients
<1>1. ASSUME NEW q \in Procs, proc'[q] = proc[q] PROVE FlowOf(q)'
  BY <1>0, <1>1 DEF FlowInv, FlowOf, At
<1>2. ASSUME NEW p \in Procs, Step(p) PROVE FlowInv'
  BY <1>1, <1>2, FlowSelf, Others DEF FlowInv
<1>3. CASE UNCHANGED proc
  BY <1>1, <1>3 DEF FlowInv
<1> QED
  BY <1>2, <1>3 DEF Next, AsForgets, Corrupt, Expire, Rest, vars

\* The client lock is taken when it is free and released by its holder.
LEMMA ClientLockSelf ==
    ASSUME TypeOK, NEW p \in Procs, Step(p), proc[p].pc \in ClientLocked <=> clientLock = p
    PROVE  /\ (proc[p].pc \in ClientLocked <=> clientLock = p)'
           /\ \/ clientLock' = clientLock
              \/ clientLock = NoProc /\ clientLock' = p
              \/ clientLock = p /\ clientLock' = NoProc
<1> DEFINE C == 0..Len(home)
           T == 0..minted
           I == Issuers \cup {NoIssuer}
<1>0. proc \in [Procs -> [pc : Places, job : {"token", "login", "logout"}, round : 1..2,
                         rej : T, loaded : T, got : Nat, held : C, gone : C,
                         reg : C, cached : T, refreshed : T, loggedIn : T, disco : I]]
  BY DEF TypeOK, Process
<1>1. NoProc # p
  BY ConstantsAssumption
<1> HIDE DEF C, T, I
<1> USE <1>0, <1>1 DEF At, ClientLocked
<1>2. CASE Call(p)
  BY <1>2 DEF Call, Set
<1>3. CASE CallLogin(p)
  BY <1>3 DEF CallLogin, Set
<1>4. CASE CallLogout(p)
  BY <1>4 DEF CallLogout, Set
<1>5. CASE Resolve(p)
  <2>1. CASE proc[p].reg # 0 /\ Goto(p, "fast")
    BY <1>5, <2>1 DEF Resolve, Goto, Recorded, Set
  <2>2. CASE Recorded # 0 /\ Set(p, [proc[p] EXCEPT !.pc = "fast", !.reg = record])
    BY <1>5, <2>2 DEF Resolve, Goto, Recorded, Set
  <2>3. CASE readable /\ record = 0 /\ Goto(p, "discover")
    BY <1>5, <2>3 DEF Resolve, Goto, Recorded, Set
  <2> QED
    BY <1>5, <2>1, <2>2, <2>3 DEF Resolve
<1>6. CASE ResolveFails(p)
  BY <1>6 DEF ResolveFails, Fail, Set, Ended, Idle, Unlock
<1>7. CASE Discover(p)
  BY <1>7 DEF Discover, Disco, Set
<1>8. CASE AcquireClient(p)
  BY <1>8 DEF AcquireClient, Goto, Set
<1>9. CASE Adopt(p)
  <2>1. CASE Recorded # 0 /\ Set(p, [proc[p] EXCEPT !.pc = "fast", !.reg = record])
    BY <1>9, <2>1 DEF Adopt, Goto, Recorded, Set, Unlock
  <2>2. CASE Goto(p, "register")
    BY <1>9, <2>2, ZenonT(60) DEF Adopt, Goto, Recorded, Set, Unlock
  <2> QED
    BY <1>9, <2>1, <2>2 DEF Adopt, Adoptable
<1>10. CASE Register(p)
  BY <1>10 DEF Register, Set
<1>11. CASE SaveClient(p)
  BY <1>11 DEF SaveClient, Unlock, Set
<1>12. CASE SaveClientFails(p)
  BY <1>12 DEF SaveClientFails, Fail, Blame, Set, Ended, Idle, Unlock
<1>13. CASE LoginResolved(p)
  BY <1>13 DEF LoginResolved, Goto, Set
<1>14. CASE FastHit(p)
  <2>1. CASE Set(p, Ended(proc[p], p))
    BY <1>14, <2>1 DEF FastHit, Set, Ended, Idle
  <2>2. CASE Set(p, Ended([proc[p] EXCEPT !.cached = tokens[proc[p].reg]], p))
    BY <1>14, <2>2 DEF FastHit, Set, Ended, Idle
  <2> QED
    BY <1>14, <2>1, <2>2 DEF FastHit
<1>15. CASE FastMiss(p)
  BY <1>15 DEF FastMiss, Goto, Set
<1>16. CASE AcquireToken(p)
  <2>1. CASE proc[p].job = "login"
    BY <1>16, <2>1 DEF AcquireToken, Set
  <2>2. CASE proc[p].job # "login"
    BY <1>16, <2>2 DEF AcquireToken, Set
  <2> QED
    BY <1>16, <2>1, <2>2 DEF AcquireToken
<1>17. CASE CheckReplaced(p)
  <2>1. CASE Goto(p, "reload")
    BY <1>17, <2>1 DEF CheckReplaced, Set, Goto, AfterGone, Left, Ended, Idle
  <2>2. CASE proc[p].round = 1 /\ Set(p, AfterGone(Left(proc[p]), p))
    BY <1>17, <2>2 DEF CheckReplaced, Set, Goto, AfterGone, Left, Ended, Idle
  <2>3. CASE proc[p].round # 1 /\ Set(p, AfterGone(Left(proc[p]), p))
    BY <1>17, <2>3 DEF CheckReplaced, Set, Goto, AfterGone, Left, Ended, Idle
  <2> QED
    BY <1>17, <2>1, <2>2, <2>3 DEF CheckReplaced
<1>18. CASE Reload(p)
  <2>1. CASE Set(p, Ended(proc[p], p))
    BY <1>18, <2>1 DEF Reload, Set, Ended, Idle
  <2>2. CASE Set(p, Ended([proc[p] EXCEPT !.cached = tokens[proc[p].reg]], p))
    BY <1>18, <2>2 DEF Reload, Set, Ended, Idle
  <2>3. CASE Set(p, [proc[p] EXCEPT !.pc = "ladder", !.loaded = tokens[proc[p].reg]])
    BY <1>18, <2>3 DEF Reload, Set, Ended, Idle
  <2> QED
    BY <1>18, <2>1, <2>2, <2>3 DEF Reload
<1>19. CASE Ladder(p)
  <2>1. CASE Set(p, [[proc[p] EXCEPT !.disco = Disco(p)] EXCEPT !.pc = "drop"])
    BY <1>19, <2>1 DEF Ladder, Set, Escalated, Ended, Idle, Disco
  <2>2. CASE Set(p, [[proc[p] EXCEPT !.disco = Disco(p)] EXCEPT !.pc = "refresh"])
    BY <1>19, <2>2 DEF Ladder, Set, Escalated, Ended, Idle, Disco
  <2>3. CASE Set(p, Escalated([proc[p] EXCEPT !.disco = Disco(p)], p))
    BY <1>19, <2>3 DEF Ladder, Set, Escalated, Ended, Idle, Disco
  <2> QED
    BY <1>19, <2>1, <2>2, <2>3 DEF Ladder
<1>20. CASE Refresh(p)
  BY <1>20 DEF Refresh, Mint, Set
<1>21. CASE RefreshClientGone(p)
  BY <1>21 DEF RefreshClientGone, Goto, Set
<1>22. CASE RefreshGrantGone(p)
  BY <1>22 DEF RefreshGrantGone, Set, Escalated, Ended, Idle
<1>23. CASE LoginDone(p)
  BY <1>23 DEF LoginDone, Mint, Set
<1>24. CASE LoginFails(p)
  BY <1>24 DEF LoginFails, Fail, Set, Ended, Idle, Unlock
<1>25. CASE SaveToken(p)
  BY <1>25 DEF SaveToken, Set, Ended, Idle
<1>26. CASE StepFails(p)
  BY <1>26 DEF StepFails, Fail, Set, Ended, Idle, Unlock
<1>27. CASE Drop(p)
  BY <1>27 DEF Drop, Set, Left
<1>28. CASE DropRecord(p)
  BY <1>28 DEF DropRecord, StillRecorded, Recorded, Set, AfterGone, Ended, Idle, Unlock
<1>29. CASE Forget(p)
  <2>1. CASE Set(p, Idle)
    BY <1>29, <2>1 DEF Forget, Set, Idle, Recorded
  <2>2. CASE Recorded # 0 /\ Set(p, [proc[p] EXCEPT !.pc = "forgetToken", !.reg = record])
    BY <1>29, <2>2 DEF Forget, Set, Idle, Recorded
  <2> QED
    BY <1>29, <2>1, <2>2 DEF Forget
<1>30. CASE ForgetToken(p)
  BY <1>30 DEF ForgetToken, Goto, Set
<1>31. CASE ForgetRecord(p)
  BY <1>31 DEF ForgetRecord, Set, Idle, Blame
<1>32. CASE Crash(p)
  BY <1>32 DEF Crash, Set, Idle, Unlock, Blame
<1> QED
  BY <1>2, <1>3, <1>4, <1>5, <1>6, <1>7, <1>8, <1>9, <1>10, <1>11, <1>12, <1>13, <1>14, <1>15, <1>16, <1>17, <1>18,
     <1>19, <1>20, <1>21, <1>22, <1>23, <1>24, <1>25, <1>26, <1>27, <1>28, <1>29, <1>30, <1>31, <1>32 DEF Step

LEMMA ClientLockStep ==
    ASSUME TypeOK, ClientLockInv, [Next]_vars
    PROVE  ClientLockInv'
<1>1. ASSUME NEW p \in Procs, Step(p) PROVE ClientLockInv'
  <2>1. NoProc \notin Procs
    BY ConstantsAssumption
  <2>2. \A q \in Procs \ {p} : (clientLock' = q) = (clientLock = q) /\ proc'[q] = proc[q]
    BY <1>1, <2>1, ClientLockSelf, Others DEF ClientLockInv
  <2> QED
    BY <1>1, <2>2, ClientLockSelf DEF ClientLockInv
<1>2. CASE UNCHANGED <<proc, clientLock>>
  BY <1>2 DEF ClientLockInv
<1> QED
  BY <1>1, <1>2 DEF Next, AsForgets, Corrupt, Expire, Rest, vars

\* A process works with its client under that client's token lock, which
\* nobody else holds.
LEMMA HeldSelf ==
    ASSUME TypeOK, NEW p \in Procs, Step(p), FlowOf(p), HeldOf(p)
    PROVE  /\ HeldOf(p)'
           /\ proc'[p].held # 0 => \/ proc'[p].held = proc[p].held
                                  \/ \A q \in Procs : proc[q].held # proc'[p].held
<1> DEFINE C == 0..Len(home)
           T == 0..minted
           I == Issuers \cup {NoIssuer}
<1>0. proc \in [Procs -> [pc : Places, job : {"token", "login", "logout"}, round : 1..2,
                         rej : T, loaded : T, got : Nat, held : C, gone : C,
                         reg : C, cached : T, refreshed : T, loggedIn : T, disco : I]]
  BY DEF TypeOK, Process
<1>1. Bridges \cap Commands = {} /\ Procs = Bridges \cup Commands
  BY ConstantsAssumption DEF Procs
<1> HIDE DEF C, T, I
<1> USE <1>0, <1>1 DEF At, FlowOf, HeldOf, WithClient, TokenLocked
<1>2. CASE Call(p)
  BY <1>2 DEF Call, Set
<1>3. CASE CallLogin(p)
  BY <1>3 DEF CallLogin, Set
<1>4. CASE CallLogout(p)
  BY <1>4 DEF CallLogout, Set
<1>5. CASE Resolve(p)
  <2>1. CASE proc[p].reg # 0 /\ Goto(p, "fast")
    BY <1>5, <2>1 DEF Resolve, Goto, Recorded, Set
  <2>2. CASE Recorded # 0 /\ Set(p, [proc[p] EXCEPT !.pc = "fast", !.reg = record])
    BY <1>5, <2>2 DEF Resolve, Goto, Recorded, Set
  <2>3. CASE readable /\ record = 0 /\ Goto(p, "discover")
    BY <1>5, <2>3 DEF Resolve, Goto, Recorded, Set
  <2> QED
    BY <1>5, <2>1, <2>2, <2>3 DEF Resolve
<1>6. CASE ResolveFails(p)
  BY <1>6 DEF ResolveFails, Fail, Set, Ended, Idle, Unlock
<1>7. CASE Discover(p)
  BY <1>7 DEF Discover, Disco, Set
<1>8. CASE AcquireClient(p)
  BY <1>8 DEF AcquireClient, Goto, Set
<1>9. CASE Adopt(p)
  <2>1. CASE Recorded # 0 /\ Set(p, [proc[p] EXCEPT !.pc = "fast", !.reg = record])
    BY <1>9, <2>1 DEF Adopt, Goto, Recorded, Set, Unlock
  <2>2. CASE Goto(p, "register")
    BY <1>9, <2>2 DEF Adopt, Goto, Recorded, Set, Unlock
  <2> QED
    BY <1>9, <2>1, <2>2 DEF Adopt, Adoptable
<1>10. CASE Register(p)
  BY <1>10 DEF Register, Set
<1>11. CASE SaveClient(p)
  BY <1>11 DEF SaveClient, Unlock, Set
<1>12. CASE SaveClientFails(p)
  BY <1>12 DEF SaveClientFails, Fail, Blame, Set, Ended, Idle, Unlock
<1>13. CASE LoginResolved(p)
  BY <1>13 DEF LoginResolved, Goto, Set
<1>14. CASE FastHit(p)
  <2>1. CASE Set(p, Ended(proc[p], p))
    BY <1>14, <2>1 DEF FastHit, Set, Ended, Idle
  <2>2. CASE Set(p, Ended([proc[p] EXCEPT !.cached = tokens[proc[p].reg]], p))
    BY <1>14, <2>2 DEF FastHit, Set, Ended, Idle
  <2> QED
    BY <1>14, <2>1, <2>2 DEF FastHit
<1>15. CASE FastMiss(p)
  BY <1>15 DEF FastMiss, Goto, Set
<1>16. CASE AcquireToken(p)
  <2>1. CASE proc[p].job = "login"
    BY <1>16, <2>1 DEF AcquireToken, Set
  <2>2. CASE proc[p].job # "login"
    BY <1>16, <2>2 DEF AcquireToken, Set
  <2> QED
    BY <1>16, <2>1, <2>2 DEF AcquireToken
<1>17. CASE CheckReplaced(p)
  <2>1. CASE Goto(p, "reload")
    BY <1>17, <2>1 DEF CheckReplaced, Set, Goto, AfterGone, Left, Ended, Idle
  <2>2. CASE proc[p].round = 1 /\ Set(p, AfterGone(Left(proc[p]), p))
    BY <1>17, <2>2 DEF CheckReplaced, Set, Goto, AfterGone, Left, Ended, Idle
  <2>3. CASE proc[p].round # 1 /\ Set(p, AfterGone(Left(proc[p]), p))
    BY <1>17, <2>3 DEF CheckReplaced, Set, Goto, AfterGone, Left, Ended, Idle
  <2> QED
    BY <1>17, <2>1, <2>2, <2>3 DEF CheckReplaced
<1>18. CASE Reload(p)
  <2>1. CASE Set(p, Ended(proc[p], p))
    BY <1>18, <2>1 DEF Reload, Set, Ended, Idle
  <2>2. CASE Set(p, Ended([proc[p] EXCEPT !.cached = tokens[proc[p].reg]], p))
    BY <1>18, <2>2 DEF Reload, Set, Ended, Idle
  <2>3. CASE Set(p, [proc[p] EXCEPT !.pc = "ladder", !.loaded = tokens[proc[p].reg]])
    BY <1>18, <2>3 DEF Reload, Set, Ended, Idle
  <2> QED
    BY <1>18, <2>1, <2>2, <2>3 DEF Reload
<1>19. CASE Ladder(p)
  <2>1. CASE Set(p, [[proc[p] EXCEPT !.disco = Disco(p)] EXCEPT !.pc = "drop"])
    BY <1>19, <2>1 DEF Ladder, Set, Escalated, Ended, Idle, Disco
  <2>2. CASE Set(p, [[proc[p] EXCEPT !.disco = Disco(p)] EXCEPT !.pc = "refresh"])
    BY <1>19, <2>2 DEF Ladder, Set, Escalated, Ended, Idle, Disco
  <2>3. CASE Set(p, Escalated([proc[p] EXCEPT !.disco = Disco(p)], p))
    BY <1>19, <2>3 DEF Ladder, Set, Escalated, Ended, Idle, Disco
  <2> QED
    BY <1>19, <2>1, <2>2, <2>3 DEF Ladder
<1>20. CASE Refresh(p)
  BY <1>20 DEF Refresh, Mint, Set
<1>21. CASE RefreshClientGone(p)
  BY <1>21 DEF RefreshClientGone, Goto, Set
<1>22. CASE RefreshGrantGone(p)
  BY <1>22 DEF RefreshGrantGone, Set, Escalated, Ended, Idle
<1>23. CASE LoginDone(p)
  BY <1>23 DEF LoginDone, Mint, Set
<1>24. CASE LoginFails(p)
  BY <1>24 DEF LoginFails, Fail, Set, Ended, Idle, Unlock
<1>25. CASE SaveToken(p)
  BY <1>25 DEF SaveToken, Set, Ended, Idle
<1>26. CASE StepFails(p)
  BY <1>26 DEF StepFails, Fail, Set, Ended, Idle, Unlock
<1>27. CASE Drop(p)
  BY <1>27 DEF Drop, Set, Left
<1>28. CASE DropRecord(p)
  BY <1>28 DEF DropRecord, StillRecorded, Recorded, Set, AfterGone, Ended, Idle, Unlock
<1>29. CASE Forget(p)
  <2>1. CASE Set(p, Idle)
    BY <1>29, <2>1 DEF Forget, Set, Idle, Recorded
  <2>2. CASE Recorded # 0 /\ Set(p, [proc[p] EXCEPT !.pc = "forgetToken", !.reg = record])
    BY <1>29, <2>2 DEF Forget, Set, Idle, Recorded
  <2> QED
    BY <1>29, <2>1, <2>2 DEF Forget
<1>30. CASE ForgetToken(p)
  BY <1>30 DEF ForgetToken, Goto, Set
<1>31. CASE ForgetRecord(p)
  BY <1>31 DEF ForgetRecord, Set, Idle, Blame
<1>32. CASE Crash(p)
  BY <1>32 DEF Crash, Set, Idle, Unlock, Blame
<1> QED
  BY <1>2, <1>3, <1>4, <1>5, <1>6, <1>7, <1>8, <1>9, <1>10, <1>11, <1>12, <1>13, <1>14, <1>15, <1>16, <1>17, <1>18,
     <1>19, <1>20, <1>21, <1>22, <1>23, <1>24, <1>25, <1>26, <1>27, <1>28, <1>29, <1>30, <1>31, <1>32 DEF Step

LEMMA TokenLockStep ==
    ASSUME TypeOK, FlowInv, TokenLockInv, [Next]_vars
    PROVE  TokenLockInv'
<1>1. ASSUME NEW p \in Procs, Step(p) PROVE TokenLockInv'
  <2>1. \A q \in Procs \ {p} : proc'[q] = proc[q] /\ HeldOf(q)'
    BY <1>1, Others DEF TokenLockInv, HeldOf, At
  <2>2. /\ HeldOf(p)'
        /\ proc'[p].held # 0 => \/ proc'[p].held = proc[p].held
                               \/ \A q \in Procs : proc[q].held # proc'[p].held
    BY <1>1, HeldSelf DEF TokenLockInv, FlowInv
  <2>3. ASSUME NEW q \in Procs, NEW r \in Procs, proc'[q].held # 0, proc'[q].held = proc'[r].held
        PROVE  q = r
    BY <2>1, <2>2, <2>3 DEF TokenLockInv
  <2> QED
    BY <2>1, <2>2, <2>3 DEF TokenLockInv
<1>2. CASE UNCHANGED proc
  BY <1>2 DEF TokenLockInv, HeldOf, At
<1> QED
  BY <1>1, <1>2 DEF Next, AsForgets, Corrupt, Expire, Rest, vars

\* leaveClient clears what selfIssued compares with, and no token is issued
\* before the second round or the next call.
LEMMA LeftSelf ==
    ASSUME TypeOK, NEW p \in Procs, Step(p), LeftOf(p)
    PROVE  LeftOf(p)'
<1> DEFINE C == 0..Len(home)
           T == 0..minted
           I == Issuers \cup {NoIssuer}
<1>0. proc \in [Procs -> [pc : Places, job : {"token", "login", "logout"}, round : 1..2,
                         rej : T, loaded : T, got : Nat, held : C, gone : C,
                         reg : C, cached : T, refreshed : T, loggedIn : T, disco : I]]
  BY DEF TypeOK, Process
<1> HIDE DEF C, T, I
<1> USE <1>0 DEF At, LeftOf
<1>2. CASE Call(p)
  BY <1>2 DEF Call, Set
<1>3. CASE CallLogin(p)
  BY <1>3 DEF CallLogin, Set
<1>4. CASE CallLogout(p)
  BY <1>4 DEF CallLogout, Set
<1>5. CASE Resolve(p)
  <2>1. CASE proc[p].reg # 0 /\ Goto(p, "fast")
    BY <1>5, <2>1 DEF Resolve, Goto, Recorded, Set
  <2>2. CASE Recorded # 0 /\ Set(p, [proc[p] EXCEPT !.pc = "fast", !.reg = record])
    BY <1>5, <2>2 DEF Resolve, Goto, Recorded, Set
  <2>3. CASE readable /\ record = 0 /\ Goto(p, "discover")
    BY <1>5, <2>3 DEF Resolve, Goto, Recorded, Set
  <2> QED
    BY <1>5, <2>1, <2>2, <2>3 DEF Resolve
<1>6. CASE ResolveFails(p)
  BY <1>6 DEF ResolveFails, Fail, Set, Ended, Idle, Unlock
<1>7. CASE Discover(p)
  BY <1>7 DEF Discover, Disco, Set
<1>8. CASE AcquireClient(p)
  BY <1>8 DEF AcquireClient, Goto, Set
<1>9. CASE Adopt(p)
  <2>1. CASE Recorded # 0 /\ Set(p, [proc[p] EXCEPT !.pc = "fast", !.reg = record])
    BY <1>9, <2>1 DEF Adopt, Goto, Recorded, Set, Unlock
  <2>2. CASE Goto(p, "register")
    BY <1>9, <2>2 DEF Adopt, Goto, Recorded, Set, Unlock
  <2> QED
    BY <1>9, <2>1, <2>2 DEF Adopt, Adoptable
<1>10. CASE Register(p)
  BY <1>10 DEF Register, Set
<1>11. CASE SaveClient(p)
  BY <1>11 DEF SaveClient, Unlock, Set
<1>12. CASE SaveClientFails(p)
  BY <1>12 DEF SaveClientFails, Fail, Blame, Set, Ended, Idle, Unlock
<1>13. CASE LoginResolved(p)
  BY <1>13 DEF LoginResolved, Goto, Set
<1>14. CASE FastHit(p)
  <2>1. CASE Set(p, Ended(proc[p], p))
    BY <1>14, <2>1 DEF FastHit, Set, Ended, Idle
  <2>2. CASE Set(p, Ended([proc[p] EXCEPT !.cached = tokens[proc[p].reg]], p))
    BY <1>14, <2>2 DEF FastHit, Set, Ended, Idle
  <2> QED
    BY <1>14, <2>1, <2>2 DEF FastHit
<1>15. CASE FastMiss(p)
  BY <1>15 DEF FastMiss, Goto, Set
<1>16. CASE AcquireToken(p)
  <2>1. CASE proc[p].job = "login"
    BY <1>16, <2>1 DEF AcquireToken, Set
  <2>2. CASE proc[p].job # "login"
    BY <1>16, <2>2 DEF AcquireToken, Set
  <2> QED
    BY <1>16, <2>1, <2>2 DEF AcquireToken
<1>17. CASE CheckReplaced(p)
  <2>1. CASE Goto(p, "reload")
    BY <1>17, <2>1 DEF CheckReplaced, Set, Goto, AfterGone, Left, Ended, Idle
  <2>2. CASE proc[p].round = 1 /\ Set(p, AfterGone(Left(proc[p]), p))
    BY <1>17, <2>2 DEF CheckReplaced, Set, Goto, AfterGone, Left, Ended, Idle
  <2>3. CASE proc[p].round # 1 /\ Set(p, AfterGone(Left(proc[p]), p))
    BY <1>17, <2>3 DEF CheckReplaced, Set, Goto, AfterGone, Left, Ended, Idle
  <2> QED
    BY <1>17, <2>1, <2>2, <2>3 DEF CheckReplaced
<1>18. CASE Reload(p)
  <2>1. CASE Set(p, Ended(proc[p], p))
    BY <1>18, <2>1 DEF Reload, Set, Ended, Idle
  <2>2. CASE Set(p, Ended([proc[p] EXCEPT !.cached = tokens[proc[p].reg]], p))
    BY <1>18, <2>2 DEF Reload, Set, Ended, Idle
  <2>3. CASE Set(p, [proc[p] EXCEPT !.pc = "ladder", !.loaded = tokens[proc[p].reg]])
    BY <1>18, <2>3 DEF Reload, Set, Ended, Idle
  <2> QED
    BY <1>18, <2>1, <2>2, <2>3 DEF Reload
<1>19. CASE Ladder(p)
  <2>1. CASE Set(p, [[proc[p] EXCEPT !.disco = Disco(p)] EXCEPT !.pc = "drop"])
    BY <1>19, <2>1 DEF Ladder, Set, Escalated, Ended, Idle, Disco
  <2>2. CASE Set(p, [[proc[p] EXCEPT !.disco = Disco(p)] EXCEPT !.pc = "refresh"])
    BY <1>19, <2>2 DEF Ladder, Set, Escalated, Ended, Idle, Disco
  <2>3. CASE Set(p, Escalated([proc[p] EXCEPT !.disco = Disco(p)], p))
    BY <1>19, <2>3 DEF Ladder, Set, Escalated, Ended, Idle, Disco
  <2> QED
    BY <1>19, <2>1, <2>2, <2>3 DEF Ladder
<1>20. CASE Refresh(p)
  BY <1>20 DEF Refresh, Mint, Set
<1>21. CASE RefreshClientGone(p)
  BY <1>21 DEF RefreshClientGone, Goto, Set
<1>22. CASE RefreshGrantGone(p)
  BY <1>22 DEF RefreshGrantGone, Set, Escalated, Ended, Idle
<1>23. CASE LoginDone(p)
  BY <1>23 DEF LoginDone, Mint, Set
<1>24. CASE LoginFails(p)
  BY <1>24 DEF LoginFails, Fail, Set, Ended, Idle, Unlock
<1>25. CASE SaveToken(p)
  BY <1>25 DEF SaveToken, Set, Ended, Idle
<1>26. CASE StepFails(p)
  BY <1>26 DEF StepFails, Fail, Set, Ended, Idle, Unlock
<1>27. CASE Drop(p)
  BY <1>27 DEF Drop, Set, Left
<1>28. CASE DropRecord(p)
  BY <1>28 DEF DropRecord, StillRecorded, Recorded, Set, AfterGone, Ended, Idle, Unlock
<1>29. CASE Forget(p)
  <2>1. CASE Set(p, Idle)
    BY <1>29, <2>1 DEF Forget, Set, Idle, Recorded
  <2>2. CASE Recorded # 0 /\ Set(p, [proc[p] EXCEPT !.pc = "forgetToken", !.reg = record])
    BY <1>29, <2>2 DEF Forget, Set, Idle, Recorded
  <2> QED
    BY <1>29, <2>1, <2>2 DEF Forget
<1>30. CASE ForgetToken(p)
  BY <1>30 DEF ForgetToken, Goto, Set
<1>31. CASE ForgetRecord(p)
  BY <1>31 DEF ForgetRecord, Set, Idle, Blame
<1>32. CASE Crash(p)
  BY <1>32 DEF Crash, Set, Idle, Unlock, Blame
<1> QED
  BY <1>2, <1>3, <1>4, <1>5, <1>6, <1>7, <1>8, <1>9, <1>10, <1>11, <1>12, <1>13, <1>14, <1>15, <1>16, <1>17, <1>18,
     <1>19, <1>20, <1>21, <1>22, <1>23, <1>24, <1>25, <1>26, <1>27, <1>28, <1>29, <1>30, <1>31, <1>32 DEF Step

LEMMA LeftStep ==
    ASSUME TypeOK, LeftInv, [Next]_vars
    PROVE  LeftInv'
<1>1. ASSUME NEW p \in Procs, Step(p) PROVE LeftInv'
  <2>1. \A q \in Procs \ {p} : LeftOf(q)'
    BY <1>1, Others DEF LeftInv, LeftOf
  <2> QED
    BY <1>1, <2>1, LeftSelf DEF LeftInv
<1>2. CASE UNCHANGED proc
  BY <1>2 DEF LeftInv, LeftOf
<1> QED
  BY <1>1, <1>2 DEF Next, AsForgets, Corrupt, Expire, Rest, vars

-----------------------------------------------------------------------------
(* The theorems.                                                           *)

\* IInv is inductive.
THEOREM Invariance == Spec => []IInv
<1>1. Init => IInv
  <2> SUFFICES ASSUME Init PROVE IInv
    OBVIOUS
  <2>1. \A p \in Procs : proc[p] = Idle \/ proc[p] = [Idle EXCEPT !.disco = Retired]
    BY DEF Init
  <2>2. /\ home \in Seq(Issuers) /\ record \in 0..Len(home) /\ minted \in Nat /\ causes \in Nat
        /\ tokens \in [1..Len(home) -> 0..minted]
    <3>1. CASE record = 0 /\ home = <<>> /\ tokens = <<>> /\ minted = 0 /\ causes = 0
      BY <3>1
    <3>2. CASE record = 1 /\ home = <<Retired>> /\ tokens = <<1>> /\ minted = 1 /\ causes = 1
      BY <3>2 DEF Issuers
    <3> QED
      BY <3>1, <3>2 DEF Init
  <2>3. proc \in [Procs -> Process(0..Len(home), 0..minted)]
    <3>1. Idle \in Process(0..Len(home), 0..minted)
      BY <2>2 DEF Process, Idle, Places
    <3>2. [Idle EXCEPT !.disco = Retired] \in Process(0..Len(home), 0..minted)
      BY <2>2 DEF Process, Idle, Places, Issuers
    <3> QED
      BY <3>1, <3>2 DEF Init
  <2>4. TypeOK
    BY <2>2, <2>3 DEF Init, TypeOK, Clients
  <2>5. /\ \A p \in Procs : /\ proc[p].pc = "idle" /\ proc[p].job = "token" /\ proc[p].round = 1
                             /\ proc[p].held = 0
    BY <2>1 DEF Idle
  <2>6. FlowInv
    BY <2>5 DEF FlowInv, FlowOf, WithClient, At
  <2>7. ClientLockInv
    BY <2>5, ConstantsAssumption DEF Init, ClientLockInv, ClientLocked
  <2>8. TokenLockInv /\ LeftInv
    BY <2>5 DEF TokenLockInv, HeldOf, TokenLocked, LeftInv, LeftOf, At
  <2> QED
    BY <2>4, <2>6, <2>7, <2>8 DEF IInv
<1>2. IInv /\ [Next]_vars => IInv'
  BY TypeStep, FlowStep, ClientLockStep, TokenLockStep, LeftStep DEF IInv
<1> QED
  BY <1>1, <1>2, PTL DEF Spec

\* Every variable has its type.
THEOREM TypeCorrect == Spec => []TypeOK
<1>1. IInv => TypeOK
  BY DEF IInv
<1> QED
  BY <1>1, Invariance, PTL

\* The round after leaveClient owes its login (flow.go: selfIssued).
THEOREM RoundOwesLogin == Spec => []OwedLogin
<1>1. IInv => OwedLogin
  <2> SUFFICES ASSUME IInv, NEW p \in Bridges, proc[p].round = 2 PROVE ~SelfIssued(p)
    BY DEF OwedLogin
  <2>1. proc[p].refreshed = 0 /\ proc[p].loggedIn = 0
    BY DEF IInv, LeftInv, LeftOf, Procs
  <2> QED
    BY <2>1 DEF SelfIssued
<1> QED
  BY <1>1, Invariance, PTL

=============================================================================
