-------------------------- MODULE RegistrationDrops --------------------------
(***************************************************************************)
(* Which registrations are dropped and replaced, when every process has    *)
(* discovered the AS that the endpoint names now (Veterans = {}; with one  *)
(* that has not, TLC finds a good registration dropped).                   *)
(***************************************************************************)
EXTENDS RegistrationProofs

Registering == {"discover", "clock", "adopt", "register", "csave"}
Obtaining == TokenLocked \ {"replaced"}

DiscoOf(p) == proc[p].disco \in {NoIssuer, Current}
DiscoInv == \A p \in Procs : DiscoOf(p)

\* Who registers does so because there is no record: one of the retired AS
\* would have been used, and dropped, before.
VacantInv ==
    /\ record # 0 /\ home[record] # Current => \A p \in Procs : proc[p].pc \notin Registering
    /\ \A p \in Procs : proc[p].pc \in {"register", "csave"} => Recorded = 0

\* Clients are dropped for a reason that lasts.
Useless(c) == c \notin known \/ home[c] # Current
DropOf(p) ==
    /\ At(p, "drop") => Useless(proc[p].reg)
    /\ proc[p].pc \in {"dropLock", "dropRecord"} => Useless(proc[p].gone)
DropInv == \A p \in Procs : DropOf(p)

\* Under the token lock a bridge works with the client on record.
OnRecordInv ==
    \A p \in Bridges :
        proc[p].pc \in Obtaining => proc[p].reg = Recorded \/ proc[p].reg \in pulled

\* The registration that needs no cause: the one in service, or on its way
\* to the record.
InService ==
    \/ Recorded # 0 /\ ~Useless(Recorded)
    \/ \E p \in Procs : At(p, "csave") /\ proc[p].got \in known

CauseInv == Len(home) <= causes + (IF InService THEN 1 ELSE 0)

RInv == DiscoInv /\ VacantInv /\ DropInv /\ OnRecordInv /\ CauseInv

-----------------------------------------------------------------------------
(* What a step does to the record, and how a process comes to a place.     *)

\* Who writes the record, and what becomes of the client it named.
LEMMA RecordMoves ==
    ASSUME TypeOK, NEW p \in Procs, Step(p), ~SaveClient(p)
    PROVE  /\ record' \in {0, record} /\ pulled \subseteq pulled' /\ causes' \in {causes, causes + 1}
           /\ \/ UNCHANGED <<record, readable>>
              \/ DropRecord(p) /\ Recorded = proc[p].gone /\ Recorded' = 0
                    /\ (p \in Commands => record \in pulled')
              \/ Recorded = 0 /\ Recorded' = 0
              \/ ForgetRecord(p) /\ Recorded' = 0 /\ record \in pulled' /\ causes' = causes + 1
<1>1. record \in Nat /\ causes \in Nat /\ Bridges \cap Commands = {}
  BY ConstantsAssumption DEF TypeOK
<1>2. CASE DropRecord(p)
  BY <1>1, <1>2 DEF DropRecord, StillRecorded, Recorded
<1>3. CASE Forget(p)
  BY <1>1, <1>3 DEF Forget, Recorded, hist
<1>4. CASE ForgetRecord(p)
  BY <1>1, <1>4 DEF ForgetRecord, Recorded, Blame
<1>5. CASE ForgetToken(p) \/ Crash(p)
  BY <1>1, <1>5 DEF ForgetToken, Crash, Blame, hist
<1>6. CASE ~DropRecord(p) /\ ~Forget(p) /\ ~ForgetRecord(p) /\ ~ForgetToken(p) /\ ~Crash(p)
  BY <1>6
     DEF Step, Call, CallLogin, CallLogout, Resolve, ResolveFails, Discover, AcquireClient, Adopt,
         Register, SaveClientFails, LoginResolved, FastHit, FastMiss, AcquireToken,
         CheckReplaced, Reload, Ladder, Refresh, RefreshClientGone, RefreshGrantGone, LoginDone,
         LoginFails, SaveToken, StepFails, Drop, Mint, Fail,
         Blame, hist
<1> QED
  BY <1>2, <1>3, <1>4, <1>5, <1>6

\* How a step of p brings it to the places that the invariants speak of.
Moved(p) ==
    /\ proc'[p].pc \in Registering =>
           proc[p].pc \in Registering \/ (record = 0 /\ record' = 0)
    /\ proc'[p].pc \in {"register", "csave"} =>
           /\ UNCHANGED <<record, readable>>
           /\ \/ proc[p].pc \in {"register", "csave"}
              \/ At(p, "adopt") /\ ~Adoptable(p)
    /\ proc'[p].pc = "drop" =>
           /\ proc'[p].reg = proc[p].reg
           /\ At(p, "drop") \/ Useless(proc[p].reg)
    /\ proc'[p].pc \in {"dropLock", "dropRecord"} =>
           \/ proc[p].pc \in {"dropLock", "dropRecord"} /\ proc'[p].gone = proc[p].gone
           \/ At(p, "drop") /\ proc'[p].gone = proc[p].reg
    /\ p \in Bridges /\ proc'[p].pc \in Obtaining =>
           /\ proc'[p].reg = proc[p].reg
           /\ UNCHANGED <<record, readable>>
           /\ proc[p].pc \in Obtaining \/ proc[p].reg = Recorded

LEMMA Moves ==
    ASSUME TypeOK, NEW p \in Procs, Step(p), FlowOf(p), DiscoOf(p)
    PROVE  DiscoOf(p)' /\ Moved(p)
<1> DEFINE C == 0..Len(home)
           T == 0..minted
           I == Issuers \cup {NoIssuer}
<1>0. proc \in [Procs -> [pc : Places, job : {"token", "login", "logout"}, round : 1..2,
                         rej : T, loaded : T, got : Nat, held : C, gone : C,
                         reg : C, cached : T, refreshed : T, loggedIn : T, disco : I]]
  BY DEF TypeOK, Process
<1>1. Bridges \cap Commands = {} /\ Procs = Bridges \cup Commands /\ Retired # Current
  BY ConstantsAssumption DEF Procs
<1> HIDE DEF C, T, I
<1> USE <1>0, <1>1 DEF At, FlowOf, DiscoOf, Moved, Registering, Obtaining, TokenLocked, WithClient,
                       Foreign, Accepted, Useless, Disco
<1>2. CASE Call(p)
  BY <1>2 DEF Call, Set
<1>3. CASE CallLogin(p)
  BY <1>3 DEF CallLogin, Set
<1>4. CASE CallLogout(p)
  BY <1>4 DEF CallLogout, Set
<1>5. CASE Resolve(p)
  <2>1. CASE proc[p].reg # 0 /\ Goto(p, "fast")
    BY <1>5, <2>1 DEF Resolve, Goto, Recorded, Set
  <2>2. CASE Recorded # 0 /\ Set(p, [proc[p] EXCEPT !.pc = "fast", !.reg = record])
    BY <1>5, <2>2 DEF Resolve, Goto, Recorded, Set
  <2>3. CASE readable /\ record = 0 /\ Goto(p, "discover")
    BY <1>5, <2>3 DEF Resolve, Goto, Recorded, Set
  <2> QED
    BY <1>5, <2>1, <2>2, <2>3 DEF Resolve
<1>6. CASE ResolveFails(p)
  BY <1>6 DEF ResolveFails, Fail, Set, Ended, Idle, Unlock
<1>7. CASE Discover(p)
  <2>1. PICK d \in {NoIssuer, Current} :
            At(p, "discover") /\ Set(p, [proc[p] EXCEPT !.pc = "clock", !.disco = d])
    BY <1>7 DEF Discover
  <2>2. At(p, "discover") /\ proc'[p].pc = "clock" /\ proc'[p].disco = d
    BY <2>1 DEF Set
  <2> QED
    BY <2>2
<1>8. CASE AcquireClient(p)
  <2>1. CASE At(p, "clock")
    <3>1. proc'[p].pc = "adopt" /\ proc'[p].disco = proc[p].disco
      BY <1>8, <2>1 DEF AcquireClient, Goto, Set
    <3> QED
      BY <2>1, <3>1
  <2>2. CASE At(p, "dropLock")
    BY <1>8, <2>2 DEF AcquireClient, Goto, Set
  <2> QED
    BY <1>8, <2>1, <2>2 DEF AcquireClient
<1>9. CASE Adopt(p)
  <2>1. CASE Recorded # 0 /\ Set(p, [proc[p] EXCEPT !.pc = "fast", !.reg = record])
    BY <1>9, <2>1 DEF Adopt, Goto, Recorded, Set
  <2>2. CASE ~Adoptable(p) /\ Goto(p, "register")
    <3>1. proc'[p].pc = "register" /\ proc'[p].disco = proc[p].disco
      BY <2>2 DEF Goto, Set
    <3> QED
      BY <1>9, <2>2, <3>1 DEF Adopt
  <2> QED
    BY <1>9, <2>1, <2>2 DEF Adopt, Adoptable
<1>10. CASE Register(p)
  <2>1. PICK n : At(p, "register") /\ Set(p, [proc[p] EXCEPT !.pc = "csave", !.got = n])
    BY <1>10 DEF Register
  <2>2. proc'[p].pc = "csave" /\ proc'[p].disco = proc[p].disco
    BY <2>1 DEF Set
  <2> QED
    BY <1>10, <2>1, <2>2 DEF Register
<1>11. CASE SaveClient(p)
  BY <1>11 DEF SaveClient, Unlock, Set
<1>12. CASE SaveClientFails(p)
  BY <1>12 DEF SaveClientFails, Fail, Blame, Set, Ended, Idle, Unlock
<1>13. CASE LoginResolved(p)
  BY <1>13 DEF LoginResolved, Goto, Set
<1>14. CASE FastHit(p)
  <2>1. CASE Set(p, Ended(proc[p], p))
    BY <1>14, <2>1 DEF FastHit, Set, Ended, Idle
  <2>2. CASE Set(p, Ended([proc[p] EXCEPT !.cached = tokens[proc[p].reg]], p))
    BY <1>14, <2>2 DEF FastHit, Set, Ended, Idle
  <2> QED
    BY <1>14, <2>1, <2>2 DEF FastHit
<1>15. CASE FastMiss(p)
  BY <1>15 DEF FastMiss, Goto, Set
<1>16. CASE AcquireToken(p)
  <2>1. CASE proc[p].job = "login"
    BY <1>16, <2>1 DEF AcquireToken, Set
  <2>2. CASE proc[p].job # "login"
    BY <1>16, <2>2 DEF AcquireToken, Set
  <2> QED
    BY <1>16, <2>1, <2>2 DEF AcquireToken
<1>17. CASE CheckReplaced(p)
  <2>1. CASE ~Replaced(p) /\ Goto(p, "reload")
    BY <1>17, <2>1 DEF CheckReplaced, Set, Goto, Replaced
  <2>2. CASE proc[p].round = 1 /\ Set(p, AfterGone(Left(proc[p]), p))
    BY <1>17, <2>2 DEF CheckReplaced, Set, Goto, AfterGone, Left, Ended, Idle
  <2>3. CASE proc[p].round # 1 /\ Set(p, AfterGone(Left(proc[p]), p))
    BY <1>17, <2>3 DEF CheckReplaced, Set, Goto, AfterGone, Left, Ended, Idle
  <2> QED
    BY <1>17, <2>1, <2>2, <2>3 DEF CheckReplaced
<1>18. CASE Reload(p)
  <2>1. CASE Set(p, Ended(proc[p], p))
    BY <1>18, <2>1 DEF Reload, Set, Ended, Idle
  <2>2. CASE Set(p, Ended([proc[p] EXCEPT !.cached = tokens[proc[p].reg]], p))
    BY <1>18, <2>2 DEF Reload, Set, Ended, Idle
  <2>3. CASE Set(p, [proc[p] EXCEPT !.pc = "ladder", !.loaded = tokens[proc[p].reg]])
    BY <1>18, <2>3 DEF Reload, Set, Ended, Idle
  <2> QED
    BY <1>18, <2>1, <2>2, <2>3 DEF Reload
<1>19. CASE Ladder(p)
  <2>1. CASE Foreign(p) /\ Set(p, [[proc[p] EXCEPT !.disco = Disco(p)] EXCEPT !.pc = "drop"])
    BY <1>19, <2>1 DEF Ladder, Set, Escalated, Ended, Idle, Disco
  <2>2. CASE Set(p, [[proc[p] EXCEPT !.disco = Disco(p)] EXCEPT !.pc = "refresh"])
    BY <1>19, <2>2 DEF Ladder, Set, Escalated, Ended, Idle, Disco
  <2>3. CASE Set(p, Escalated([proc[p] EXCEPT !.disco = Disco(p)], p))
    BY <1>19, <2>3 DEF Ladder, Set, Escalated, Ended, Idle, Disco
  <2> QED
    BY <1>19, <2>1, <2>2, <2>3 DEF Ladder
<1>20. CASE Refresh(p)
  BY <1>20 DEF Refresh, Mint, Set
<1>21. CASE RefreshClientGone(p)
  BY <1>21 DEF RefreshClientGone, Goto, Set
<1>22. CASE RefreshGrantGone(p)
  BY <1>22 DEF RefreshGrantGone, Set, Escalated, Ended, Idle
<1>23. CASE LoginDone(p)
  BY <1>23 DEF LoginDone, Mint, Set
<1>24. CASE LoginFails(p)
  BY <1>24 DEF LoginFails, Fail, Set, Ended, Idle, Unlock
<1>25. CASE SaveToken(p)
  BY <1>25 DEF SaveToken, Set, Ended, Idle
<1>26. CASE StepFails(p)
  BY <1>26 DEF StepFails, Fail, Set, Ended, Idle, Unlock
<1>27. CASE Drop(p)
  BY <1>27 DEF Drop, Set, Left
<1>28. CASE DropRecord(p)
  BY <1>28 DEF DropRecord, StillRecorded, Recorded, Set, AfterGone, Ended, Idle, Unlock
<1>29. CASE Forget(p)
  <2>1. CASE Set(p, Idle)
    BY <1>29, <2>1 DEF Forget, Set, Idle, Recorded
  <2>2. CASE Recorded # 0 /\ Set(p, [proc[p] EXCEPT !.pc = "forgetToken", !.reg = record])
    BY <1>29, <2>2 DEF Forget, Set, Idle, Recorded
  <2> QED
    BY <1>29, <2>1, <2>2 DEF Forget
<1>30. CASE ForgetToken(p)
  BY <1>30 DEF ForgetToken, Goto, Set
<1>31. CASE ForgetRecord(p)
  BY <1>31 DEF ForgetRecord, Set, Idle, Blame
<1>32. CASE Crash(p)
  BY <1>32 DEF Crash, Set, Idle, Unlock, Blame
<1> QED
  BY <1>2, <1>3, <1>4, <1>5, <1>6, <1>7, <1>8, <1>9, <1>10, <1>11, <1>12, <1>13, <1>14, <1>15, <1>16, <1>17, <1>18,
     <1>19, <1>20, <1>21, <1>22, <1>23, <1>24, <1>25, <1>26, <1>27, <1>28, <1>29, <1>30, <1>31, <1>32 DEF Step

LEMMA DiscoStep ==
    ASSUME TypeOK, FlowInv, DiscoInv, [Next]_vars
    PROVE  DiscoInv'
<1>1. ASSUME NEW p \in Procs, Step(p) PROVE DiscoInv'
  <2>1. DiscoOf(p)'
    BY <1>1, Moves DEF FlowInv, DiscoInv
  <2>2. \A q \in Procs \ {p} : DiscoOf(q)'
    BY <1>1, Others DEF DiscoInv, DiscoOf
  <2> QED
    BY <2>1, <2>2 DEF DiscoInv
<1>2. CASE UNCHANGED proc
  BY <1>2 DEF DiscoInv, DiscoOf
<1> QED
  BY <1>1, <1>2 DEF Next, AsForgets, Corrupt, Expire, Rest, vars

\* SaveClient writes a registration at the AS that the endpoint names, in the
\* place of none.
LEMMA Saved ==
    ASSUME TypeOK, FlowInv, DiscoInv, VacantInv, NEW p \in Procs, SaveClient(p)
    PROVE  /\ At(p, "csave") /\ Recorded = 0 /\ UNCHANGED <<world, hist>>
           /\ record' = proc[p].got /\ Recorded' = proc[p].got
           /\ proc[p].got \in Clients /\ home[proc[p].got] = Current
           /\ proc'[p].pc = "fast"
<1>1. At(p, "csave") /\ proc[p].got \in Clients /\ home[proc[p].got] = proc[p].disco
  BY DEF SaveClient, FlowInv, FlowOf
<1>2. proc[p].disco = Current
  BY <1>1 DEF FlowInv, FlowOf, DiscoInv, DiscoOf, At
<1>3. proc'[p].pc = "fast"
  BY DEF SaveClient, Set, TypeOK, Process
<1> QED
  BY <1>1, <1>2, <1>3 DEF SaveClient, VacantInv, Recorded, At

LEMMA VacantStep ==
    ASSUME IInv, DiscoInv, VacantInv, [Next]_vars
    PROVE  VacantInv'
<1> USE DEF IInv
<1>0. record \in Clients \/ record = 0
  BY DEF TypeOK, Clients
<1>1. ASSUME NEW p \in Procs, SaveClient(p) PROVE VacantInv'
  <2>1. Step(p)
    BY <1>1 DEF Step
  <2>2. ~(record' # 0 /\ home'[record'] # Current)
    BY <1>1, Saved DEF world
  <2>3. ASSUME NEW q \in Procs, proc'[q].pc \in {"register", "csave"} PROVE FALSE
    <3>1. q # p /\ proc'[q] = proc[q]
      BY <1>1, <2>1, <2>3, Saved, Others
    <3> QED
      BY <1>1, <2>3, <3>1, Saved DEF ClientLockInv, ClientLocked, At
  <2> QED
    BY <2>2, <2>3 DEF VacantInv
<1>2. ASSUME NEW p \in Procs, Step(p), ~SaveClient(p) PROVE VacantInv'
  <2>1. Moved(p) /\ \A q \in Procs \ {p} : proc'[q] = proc[q]
    BY <1>2, Moves, Others DEF FlowInv, DiscoInv
  <2>2. ASSUME record' # 0, home'[record'] # Current, NEW q \in Procs
        PROVE  proc'[q].pc \notin Registering
    <3>1. record' = record
      BY <1>2, <2>2, RecordMoves
    <3>2. home[record] # Current
      BY <1>0, <1>2, <2>2, <3>1, WorldGrows DEF Next
    <3> QED
      BY <2>1, <2>2, <3>1, <3>2 DEF VacantInv, Moved
  <2>3. ASSUME NEW q \in Procs, proc'[q].pc \in {"register", "csave"} PROVE Recorded' = 0
    <3>1. CASE Recorded = 0
      BY <1>2, <3>1, RecordMoves DEF Recorded
    <3>2. CASE Recorded # 0
      <4>1. q = p /\ At(p, "adopt") /\ ~Adoptable(p)
        BY <2>1, <2>3, <3>2 DEF VacantInv, Moved
      <4>2. proc[p].disco = Current
        BY <4>1 DEF FlowInv, FlowOf, DiscoInv, DiscoOf, At
      <4> QED
        BY <3>2, <4>1, <4>2 DEF VacantInv, Adoptable, Recorded, Registering, At
    <3> QED
      BY <3>1, <3>2
  <2> QED
    BY <2>2, <2>3 DEF VacantInv
<1>3. CASE UNCHANGED <<record, readable, home, proc>>
  BY <1>3 DEF VacantInv, Recorded
<1>4. CASE Corrupt
  BY <1>4 DEF Corrupt, VacantInv, Recorded, world
<1> QED
  BY <1>1, <1>2, <1>3, <1>4 DEF Next, AsForgets, Expire, Rest, vars, world

\* Nobody makes a dropped client good again.
LEMMA StaysUseless ==
    ASSUME IInv, [Next]_vars, NEW c \in Clients, Useless(c)
    PROVE  Useless(c)'
BY WorldGrows DEF IInv, Useless

LEMMA DropStep ==
    ASSUME IInv, DiscoInv, DropInv, [Next]_vars
    PROVE  DropInv'
<1> USE DEF IInv
<1>0. ASSUME NEW q \in Procs
      PROVE  /\ At(q, "drop") => proc[q].reg \in Clients
             /\ proc[q].pc \in {"dropLock", "dropRecord"} => proc[q].gone \in Clients
  <2>1. Len(home) \in Nat /\ proc[q].reg \in 0..Len(home) /\ proc[q].gone \in 0..Len(home)
    <3>1. Len(home) \in Nat
      BY DEF TypeOK
    <3>2. proc[q] \in Process(0..Len(home), 0..minted)
      BY DEF TypeOK
    <3>3. \A C, T : proc[q] \in Process(C, T) => proc[q].reg \in C /\ proc[q].gone \in C
      BY DEF Process
    <3> QED
      BY <3>1, <3>2, <3>3
  <2>2. /\ At(q, "drop") => proc[q].reg # 0
        /\ proc[q].pc \in {"dropLock", "dropRecord"} => proc[q].gone # 0
    BY DEF FlowInv, FlowOf, WithClient, At
  <2> QED
    BY <2>1, <2>2 DEF Clients
<1>1. ASSUME NEW q \in Procs, proc'[q] = proc[q] PROVE DropOf(q)'
  BY <1>0, <1>1, StaysUseless DEF DropInv, DropOf, At
<1>2. ASSUME NEW p \in Procs, Step(p) PROVE DropInv'
  <2>1. Moved(p)
    BY <1>2, Moves DEF FlowInv, DiscoInv
  <2>2. ASSUME At(p, "drop")' PROVE Useless(proc[p].reg)'
    <3>1. Useless(proc[p].reg) /\ proc'[p].reg = proc[p].reg
      BY <2>1, <2>2 DEF Moved, DropInv, DropOf, At
    <3>2. proc'[p].reg # 0
      BY <2>2, FlowStep DEF FlowInv, FlowOf, WithClient, At
    <3>3. proc[p].reg \in Clients
      BY <3>1, <3>2 DEF TypeOK, Process, Clients
    <3> QED
      BY <3>1, <3>3, StaysUseless DEF Useless
  <2>3. ASSUME (proc[p].pc \in {"dropLock", "dropRecord"})' PROVE Useless(proc[p].gone)'
    <3>1. PICK c \in Clients : proc'[p].gone = c /\ Useless(c)
      BY <1>0, <2>1, <2>3 DEF Moved, DropInv, DropOf
    <3> QED
      BY <3>1, StaysUseless DEF Useless
  <2> QED
    BY <1>1, <1>2, <2>2, <2>3, Others DEF DropInv, DropOf
<1>3. CASE UNCHANGED proc
  BY <1>1, <1>3 DEF DropInv
<1> QED
  BY <1>2, <1>3 DEF Next, AsForgets, Corrupt, Expire, Rest, vars

LEMMA OnRecordStep ==
    ASSUME IInv, DiscoInv, VacantInv, OnRecordInv, [Next]_vars
    PROVE  OnRecordInv'
<1> USE DEF IInv
<1>0. /\ Bridges \subseteq Procs /\ record \in Nat /\ Procs = Bridges \cup Commands
      /\ \A q \in Bridges : proc[q].pc \in Obtaining =>
             /\ proc[q].reg # 0 /\ proc[q].held = proc[q].reg
             /\ proc[q].pc \notin {"csave", "dropRecord"}
  BY DEF Procs, TypeOK, FlowInv, FlowOf, TokenLockInv, HeldOf, WithClient, TokenLocked, Obtaining
<1>1. ASSUME NEW p \in Procs, SaveClient(p) PROVE OnRecordInv'
  <2>1. \A q \in Procs \ {p} : proc'[q] = proc[q]
    BY <1>1, Others DEF Step
  <2>2. Recorded = 0 /\ pulled' = pulled /\ proc'[p].pc \notin Obtaining
    BY <1>1, Saved DEF hist, Obtaining, TokenLocked
  <2> QED
    BY <1>0, <2>1, <2>2 DEF OnRecordInv
<1>2. ASSUME NEW p \in Procs, Step(p), ~SaveClient(p) PROVE OnRecordInv'
  <2>1. Moved(p) /\ \A q \in Procs \ {p} : proc'[q] = proc[q]
    BY <1>2, Moves, Others DEF FlowInv, DiscoInv
  <2>2. pulled \subseteq pulled'
    BY <1>2, RecordMoves
  <2>3. ASSUME p \in Bridges, proc'[p].pc \in Obtaining
        PROVE  proc'[p].reg = Recorded' \/ proc'[p].reg \in pulled'
    BY <2>1, <2>2, <2>3 DEF OnRecordInv, Moved, Recorded
  <2>4. ASSUME NEW q \in Bridges, q # p, proc[q].pc \in Obtaining
        PROVE  proc[q].reg = Recorded' \/ proc[q].reg \in pulled'
    <3>1. CASE proc[q].reg \in pulled \/ UNCHANGED <<record, readable>>
      BY <2>2, <2>4, <3>1 DEF OnRecordInv, Recorded
    <3>2. CASE proc[q].reg = Recorded /\ DropRecord(p) /\ Recorded = proc[p].gone
      <4>1. p \in Commands
        <5>1. ASSUME p \in Bridges PROVE proc[p].held = proc[p].gone
          BY <3>2, <5>1 DEF DropRecord, TokenLockInv, HeldOf, At
        <5> QED
          BY <1>0, <2>4, <3>2, <5>1 DEF TokenLockInv
      <4> QED
        BY <1>0, <1>2, <2>4, <3>2, <4>1, RecordMoves DEF Recorded
    <3>3. CASE proc[q].reg = Recorded /\ ForgetRecord(p)
      BY <1>0, <2>4, <3>3 DEF ForgetRecord, Recorded
    <3> QED
      BY <1>0, <1>2, <2>4, <3>1, <3>2, <3>3, RecordMoves DEF OnRecordInv
  <2> QED
    BY <1>0, <2>1, <2>3, <2>4 DEF OnRecordInv
<1>3. CASE UNCHANGED <<record, readable, pulled, proc>>
  BY <1>3 DEF OnRecordInv, Recorded
<1>4. CASE Corrupt
  BY <1>0, <1>4 DEF Corrupt, OnRecordInv, Recorded
<1> QED
  BY <1>1, <1>2, <1>3, <1>4 DEF Next, AsForgets, Expire, Rest, vars, hist

\* A registration under way is saved, or its loss is a cause.
LEMMA CsaveLeft ==
    ASSUME TypeOK, NEW p \in Procs, Step(p), At(p, "csave"), ~SaveClient(p)
    PROVE  causes' = causes + 1
BY DEF Step, Call, CallLogin, CallLogout, Resolve, ResolveFails, Discover, AcquireClient, Adopt,
         Register, SaveClientFails, LoginResolved, FastHit, FastMiss, AcquireToken,
         CheckReplaced, Reload, Ladder, Refresh, RefreshClientGone, RefreshGrantGone, LoginDone,
         LoginFails, SaveToken, StepFails, Drop, Mint, Fail, Forget, ForgetToken,
       ForgetRecord, DropRecord, Crash, Blame, At

LEMMA CauseStep ==
    ASSUME IInv, DiscoInv, VacantInv, DropInv, CauseInv, [Next]_vars
    PROVE  CauseInv'
<1> USE DEF IInv
<1>0. Len(home) \in Nat /\ causes \in Nat
  BY DEF TypeOK
<1>a. ASSUME UNCHANGED home, causes' = causes + 1 \/ (causes' = causes /\ (InService => InService'))
      PROVE  CauseInv'
  BY <1>0, <1>a DEF CauseInv
<1>1. ASSUME NEW p \in Procs, Register(p) PROVE CauseInv'
  <2>1. proc[p].pc = "register" /\ Recorded = 0
    BY <1>1 DEF Register, At, VacantInv
  <2>2. ~InService
    BY <2>1 DEF InService, ClientLockInv, ClientLocked, At
  <2>3. Len(home') = Len(home) + 1 /\ causes' = causes
    BY <1>1 DEF Register, hist, TypeOK
  <2>4. At(p, "csave")' /\ proc'[p].got = Len(home')
    BY <1>1 DEF Register, Set, At, TypeOK, Process
  <2>5. InService'
    BY <1>1, <2>4 DEF Register, InService
  <2> QED
    BY <1>0, <2>2, <2>3, <2>5 DEF CauseInv
<1>2. ASSUME NEW p \in Procs, SaveClient(p) PROVE CauseInv'
  <2>1. InService => proc[p].got \in known
    BY <1>2, Saved DEF InService, ClientLockInv, ClientLocked, At
  <2>2. /\ UNCHANGED <<home, known, causes>> /\ Recorded' = proc[p].got
        /\ proc[p].got \in Clients /\ home[proc[p].got] = Current
    BY <1>2, Saved DEF world, hist
  <2>3. proc[p].got # 0
    BY <2>2 DEF Clients
  <2>4. InService => InService'
    BY <2>1, <2>2, <2>3 DEF InService, Useless
  <2> QED
    BY <1>a, <2>2, <2>4
<1>3. ASSUME NEW p \in Procs, Step(p), ~SaveClient(p), ~Register(p) PROVE CauseInv'
  <2>1. UNCHANGED <<home, known>> /\ causes' \in {causes, causes + 1}
    BY <1>3, StepKeeps, RecordMoves
  <2>2. CASE At(p, "csave")
    BY <1>3, <1>a, <2>1, <2>2, CsaveLeft
  <2>3. ASSUME NEW q \in Procs, q # p, At(q, "csave"), proc[q].got \in known PROVE InService'
    BY <1>3, <2>1, <2>3, Others DEF InService, At
  <2>4. ASSUME Recorded # 0, ~Useless(Recorded) PROVE InService' \/ causes' = causes + 1
    <3>1. CASE DropRecord(p) /\ Recorded = proc[p].gone
      BY <2>4, <3>1 DEF DropRecord, DropInv, DropOf, At
    <3>2. CASE UNCHANGED <<record, readable>>
      BY <2>1, <2>4, <3>2 DEF InService, Useless, Recorded
    <3> QED
      BY <1>3, <2>4, <3>1, <3>2, RecordMoves
  <2>5. CASE ~At(p, "csave")
    BY <1>a, <2>1, <2>3, <2>4, <2>5 DEF InService
  <2> QED
    BY <2>2, <2>5
<1>4. CASE UNCHANGED <<record, readable, home, known, proc, causes>>
  BY <1>4, <1>a DEF InService, Useless, Recorded, At
<1>5. CASE AsForgets \/ Corrupt
  BY <1>5, <1>a DEF AsForgets, Corrupt, Blame, world
<1> QED
  BY <1>1, <1>2, <1>3, <1>4, <1>5 DEF Next, Expire, Rest, vars, world, hist

-----------------------------------------------------------------------------
(* The theorems.                                                           *)

\* RInv is inductive, given IInv.
THEOREM RecordInvariance ==
    ASSUME Veterans = {}
    PROVE  Spec => [](IInv /\ RInv)
<1>1. Init => RInv
  <2> SUFFICES ASSUME Init PROVE RInv
    OBVIOUS
  <2>1. \A p \in Procs : proc[p].pc = "idle" /\ proc[p].disco = NoIssuer
    BY DEF Init, Idle
  <2>2. DiscoInv /\ VacantInv /\ DropInv /\ OnRecordInv
    BY <2>1
       DEF DiscoInv, DiscoOf, VacantInv, Registering, DropInv, DropOf, OnRecordInv, Obtaining,
           TokenLocked, Procs, At
  <2>3. Len(home) <= causes
    <3>1. CASE home = <<>> /\ causes = 0
      BY <3>1
    <3>2. CASE home = <<Retired>> /\ causes = 1
      BY <3>2
    <3> QED
      BY <3>1, <3>2 DEF Init
  <2>4. Len(home) \in Nat /\ causes \in Nat
    BY DEF Init
  <2>5. CauseInv
    BY <2>3, <2>4 DEF CauseInv
  <2> QED
    BY <2>2, <2>5 DEF RInv
<1>2. IInv /\ RInv /\ [Next]_vars => RInv'
  <2>1. IInv => TypeOK /\ FlowInv
    BY DEF IInv
  <2> QED
    BY <2>1, DiscoStep, VacantStep, DropStep, OnRecordStep, CauseStep DEF RInv
<1> QED
  BY <1>1, <1>2, Invariance, PTL DEF Spec

\* Each registration after the first has a cause of its own.
THEOREM RegistrationsCaused ==
    ASSUME Veterans = {}
    PROVE  Spec => []RegistrationsJustified
<1>1. IInv /\ RInv => RegistrationsJustified
  <2> SUFFICES ASSUME IInv, RInv PROVE RegistrationsJustified
    OBVIOUS
  <2>1. Len(home) \in Nat /\ causes \in Nat
    BY DEF IInv, TypeOK
  <2> QED
    BY <2>1 DEF RInv, CauseInv, RegistrationsJustified
<1> QED
  BY <1>1, RecordInvariance, PTL

\* A bridge opens the browser with the client on record, unless somebody took
\* the record away meanwhile.
THEOREM LoginOnRecord ==
    ASSUME Veterans = {}
    PROVE  Spec => []BridgeLoginCurrent
<1>1. RInv => BridgeLoginCurrent
  BY DEF RInv, OnRecordInv, BridgeLoginCurrent, Obtaining, TokenLocked, At
<1> QED
  BY <1>1, RecordInvariance, PTL

\* dropClient takes away no registration that the endpoint's AS knows.
THEOREM GoodOnesKept ==
    ASSUME Veterans = {}
    PROVE  Spec => GoodRegistrationKept
<1>1. IInv /\ RInv =>
        [\A p \in Procs : DropRecord(p) /\ record' # record =>
             record \notin known \/ home[record] # Current]_vars
  <2> SUFFICES ASSUME IInv, RInv, NEW p \in Procs, DropRecord(p), record' # record
               PROVE  Useless(record)
    BY DEF Useless
  <2>1. Recorded = proc[p].gone /\ proc[p].gone # 0 /\ Useless(proc[p].gone)
    BY DEF DropRecord, StillRecorded, At, IInv, FlowInv, FlowOf, RInv, DropInv, DropOf
  <2> QED
    BY <2>1 DEF Recorded
<1> QED
  BY <1>1, RecordInvariance, PTL DEF GoodRegistrationKept

=============================================================================
