-------------------------- MODULE AuthLadderProofs --------------------------
(***************************************************************************)
(* Theorems about AuthLadder, for any bridges, requests and faults. The    *)
(* ladder implements the token flow, so that what TokenFlowProofs shows of *)
(* calls in any order holds for the calls that requests make. LInv adds    *)
(* what the flow alone does not know: the token a request reports as       *)
(* rejected is one the resource server has refused (RefusedInv), and so    *)
(* who climbs past the reloaded token does it for a reason (ReasonInv).    *)
(***************************************************************************)
EXTENDS AuthLadder, TokenFlowProofs

\* doAuthed asks with no token or with one that a 401 came back for.
RefusedInv ==
    /\ \A r \in Requests : at[r] \in {"new", "token"} => token[r] \in refused \cup {0}
    /\ \A r \in Requests : at[r] = "send" => token[r] # 0
    /\ \A p \in Procs : rej[p] \in refused \cup {0}

\* Past the comparison in obtain the stored token is no longer good.
ReasonInv ==
    \A p \in Procs : pc[p] \in Critical \ {"reload"} =>
                         store.acc \in expired \cup refused \cup {0}

LInv == LTypeOK /\ RefusedInv /\ ReasonInv

-----------------------------------------------------------------------------
(* Refinement.                                                             *)

\* Asking for a token is a call; the rest of a request's steps leave the flow
\* alone, and the flow's own steps are those of TokenFlow.
LEMMA LadderStep ==
    ASSUME LTypeOK, [LNext]_lvars
    PROVE  [Next]_vars
<1> USE DEF LTypeOK
<1>1. CASE UNCHANGED lvars
  BY <1>1 DEF lvars
<1>2. ASSUME NEW r \in Requests, Ladder(r) PROVE [Next]_vars
  <2>1. CASE Ask(r)
    BY <2>1 DEF Ask, Next
  <2>2. CASE TakeToken(r) \/ Answered(r) \/ Unauthorized(r)
    BY <2>2 DEF TakeToken, Answered, Unauthorized
  <2>3. QED
    BY <1>2, <2>1, <2>2 DEF Ladder
<1>3. ASSUME NEW p \in Procs, Flow(p) \/ CrashAll(p) \/ UserDone(p) PROVE [Next]_vars
  BY <1>3 DEF Flow, CrashAll, UserDone, Next
<1>4. CASE (Logout \/ Revoke \/ Expire \/ Rest) /\ UNCHANGED ladder
  BY <1>4 DEF Next
<1>5. QED
  BY <1>1, <1>2, <1>3, <1>4 DEF LNext

-----------------------------------------------------------------------------
(* Why a token is replaced.                                                *)

\* What a step of the flow, run by one process, never does: it is not the one
\* that reports a rejection, and it forgets no token.
Climbs == rej' = rej /\ expired' = expired /\ issued' \in Nat /\ issued <= issued'

\* ... and it gets past the reloaded token for a reason only.
LEMMA ClimbStep ==
    ASSUME IInv, LInv, NEW p \in Procs, refused' = refused,
           Acquire(p) \/ Advance(p) \/ LoginDone(p) \/ Crash(p)
    PROVE  Climbs /\ ReasonInv'
<1> DEFINE Good == Climbs /\ ReasonInv'
<1> USE DEF IInv, TypeOK, LockInv, LInv, ReasonInv, RefusedInv, Climbs, Critical, ctl, disk, as, mem, call, hist
<1>1. CASE Acquire(p)
  BY LadderAssumption, <1>1 DEF Acquire, Procs
<1>2. CASE FastHit(p)
  BY <1>2 DEF FastHit, Return, Fresh
<1>3. CASE FastMiss(p)
  BY <1>3 DEF FastMiss, Goto
<1>4. CASE GiveUpLock(p)
  BY <1>4 DEF GiveUpLock, Return
<1>5. CASE ObtainFails(p)
  BY <1>5 DEF ObtainFails, Return
<1>6. CASE UseStored(p)
  BY <1>6 DEF UseStored, Return
<1>7. CASE RejectFinally(p)
  BY <1>7 DEF RejectFinally, Return
<1>8. CASE StartRefresh(p)
  BY <1>8 DEF StartRefresh, Goto, StoredServes, Fresh
<1>9. CASE SkipRefresh(p)
  BY <1>9 DEF SkipRefresh, StoredServes, Fresh, Escalate, Goto, Return
<1>10. CASE Refresh(p)
  BY <1>10 DEF Refresh, Goto, Return
<1>11. CASE RefreshRefused(p)
  BY <1>11 DEF RefreshRefused, Goto
<1>12. CASE RefreshFails(p)
  BY <1>12 DEF RefreshFails, Return
<1>13. CASE DropGrant(p)
  BY <1>13 DEF DropGrant, Escalate, Goto, Return, NoToken
<1>14. CASE SaveRefreshed(p)
  BY <1>14 DEF SaveRefreshed, Return
<1>15. CASE SaveRefreshedFails(p)
  BY <1>15 DEF SaveRefreshedFails, Return, Blame, Rotated
<1>16. CASE LoginFails(p)
  BY <1>16 DEF LoginFails, Return, Blame
<1>17. CASE SaveLogin(p)
  BY <1>17 DEF SaveLogin, Return
<1>18. CASE SaveLoginFails(p)
  BY <1>18 DEF SaveLoginFails, Return, Blame
<1>19. CASE LoginDone(p)
  BY <1>19 DEF LoginDone, Goto, Blame
<1>20. CASE Crash(p)
  BY <1>20 DEF Crash, Blame, Rotated
<1>21. QED
  BY <1>1, <1>2, <1>3, <1>4, <1>5, <1>6, <1>7, <1>8, <1>9, <1>10, <1>11, <1>12, <1>13, <1>14, <1>15, <1>16, <1>17, <1>18, <1>19, <1>20 DEF Advance

\* Only a 401 makes a request ask again, and only a request makes a call.
LEMMA LInvStep ==
    ASSUME IInv, LInv, [LNext]_lvars
    PROVE  LInv'
<1> USE DEF LInv, LTypeOK, IInv
<1>1. TypeOK'
  BY LadderStep, TypeStep
<1>2. ASSUME NEW r \in Requests, Ask(r) PROVE LInv'
  <2>1. /\ of[r] \in Bridges /\ Call(of[r]) /\ rej'[of[r]] = token[r]
        /\ at[r] \in {"new", "token"}
        /\ at' = [at EXCEPT ![r] = "token"]
        /\ turn' = [turn EXCEPT ![of[r]] = r]
        /\ UNCHANGED <<of, token, attempt, refused>>
    BY <1>2 DEF Ask
  <2>2. /\ UNCHANGED <<store, expired, issued>>
        /\ \A p \in Procs \ {of[r]} : rej'[p] = rej[p]
        /\ pc' = [pc EXCEPT ![of[r]] = "fast"]
    BY <2>1 DEF Call, Goto, disk, as, TypeOK
  <2>3. LTypeOK'
    BY <1>1, <2>1, <2>2
  <2>4. RefusedInv'
    BY <2>1, <2>2 DEF RefusedInv
  <2>5. ReasonInv'
    BY <2>1, <2>2 DEF ReasonInv, Critical, TypeOK
  <2>6. QED
    BY <2>3, <2>4, <2>5
<1>3. ASSUME NEW r \in Requests, TakeToken(r) PROVE LInv'
  <2>1. /\ turn' = [turn EXCEPT ![of[r]] = NoReq]
        /\ \/ at' = [at EXCEPT ![r] = "done"] /\ UNCHANGED token
           \/ /\ out[of[r]] # 0
              /\ at' = [at EXCEPT ![r] = "send"]
              /\ token' = [token EXCEPT ![r] = out[of[r]]]
        /\ UNCHANGED <<of, attempt, refused>>
    BY <1>3 DEF TakeToken
  <2>2. UNCHANGED <<store, expired, issued, rej, pc, out>>
    BY <1>3 DEF TakeToken, vars, disk, as, call, ctl
  <2>3. out[of[r]] \in 0..issued
    BY DEF TypeOK, Procs
  <2>4. LTypeOK'
    BY <1>1, <2>1, <2>2, <2>3
  <2>5. RefusedInv'
    BY <2>1, <2>2 DEF RefusedInv
  <2>6. ReasonInv'
    BY <2>1, <2>2 DEF ReasonInv
  <2>7. QED
    BY <2>4, <2>5, <2>6
<1>4. ASSUME NEW r \in Requests, Answered(r) PROVE LInv'
  <2>1. /\ at' = [at EXCEPT ![r] = "done"]
        /\ UNCHANGED <<of, token, attempt, turn, refused, store, expired, issued, rej, pc>>
    BY <1>4 DEF Answered, vars, disk, as, call, ctl
  <2>2. QED
    BY <1>1, <2>1 DEF RefusedInv, ReasonInv
<1>5. ASSUME NEW r \in Requests, Unauthorized(r) PROVE LInv'
  <2>1. /\ at[r] = "send" /\ refused' = refused \cup {token[r]}
        /\ \/ at' = [at EXCEPT ![r] = "done"] /\ UNCHANGED attempt
           \/ /\ attempt[r] < MaxCycles
              /\ at' = [at EXCEPT ![r] = "token"]
              /\ attempt' = [attempt EXCEPT ![r] = @ + 1]
        /\ UNCHANGED <<of, token, turn>>
    BY <1>5, LadderAssumption DEF Unauthorized, Exhausted
  <2>2. UNCHANGED <<store, expired, issued, rej, pc>>
    BY <1>5 DEF Unauthorized, vars, disk, as, call, ctl
  <2>3. token[r] \in 1..issued
    BY <2>1 DEF RefusedInv, TypeOK
  <2>4. LTypeOK'
    <3>1. /\ at' \in [Requests -> {"new", "token", "send", "done"}]
          /\ refused' \subseteq 1..issued
      BY <2>1, <2>3
    <3>2. attempt' \in [Requests -> 0..MaxCycles]
      <4>1. attempt[r] \in 0..MaxCycles
        OBVIOUS
      <4>2. attempt[r] < MaxCycles => attempt[r] + 1 \in 0..MaxCycles
        BY <4>1, LadderAssumption
      <4>3. QED
        BY <2>1, <4>2
    <3>3. QED
      BY <1>1, <2>1, <2>2, <3>1, <3>2
  <2>5. RefusedInv'
    BY <2>1, <2>2 DEF RefusedInv
  <2>6. ReasonInv'
    BY <2>1, <2>2 DEF ReasonInv
  <2>7. QED
    BY <2>4, <2>5, <2>6
<1>6. ASSUME NEW p \in Procs, Flow(p) \/ UserDone(p) PROVE LInv'
  <2>1. UNCHANGED <<of, at, token, attempt, turn, refused>>
    BY <1>6 DEF Flow, UserDone, ladder
  <2>2. Climbs /\ ReasonInv'
    BY <1>6, <2>1, ClimbStep DEF Flow, UserDone
  <2>3. LTypeOK'
    BY <1>1, <2>1, <2>2 DEF Climbs, TypeOK
  <2>4. RefusedInv'
    BY <2>1, <2>2 DEF RefusedInv, Climbs
  <2>5. QED
    BY <2>2, <2>3, <2>4
<1>7. ASSUME NEW p \in Procs, CrashAll(p) PROVE LInv'
  <2>1. /\ at' = [r \in Requests |-> IF of[r] = p /\ at[r] # "new" THEN "done" ELSE at[r]]
        /\ turn' = [q \in Bridges |-> IF q = p THEN NoReq ELSE turn[q]]
        /\ UNCHANGED <<of, token, attempt, refused>>
    BY <1>7 DEF CrashAll
  <2>2. Climbs /\ ReasonInv'
    BY <1>7, <2>1, ClimbStep DEF CrashAll
  <2>3. LTypeOK'
    BY <1>1, <2>1, <2>2 DEF Climbs, TypeOK
  <2>4. RefusedInv'
    BY <2>1, <2>2 DEF RefusedInv, Climbs
  <2>5. QED
    BY <2>2, <2>3, <2>4
<1>8. CASE (Logout \/ Revoke \/ Expire \/ Rest) /\ UNCHANGED ladder
  <2>1. /\ UNCHANGED <<of, at, token, attempt, turn, refused, issued, rej, pc>>
        /\ expired \subseteq expired'
        /\ store' \in {store, NoToken}
    BY <1>8 DEF ladder, Logout, Revoke, Expire, Rest, vars, disk, as, call, ctl
  <2>2. QED
    BY <1>1, <2>1 DEF RefusedInv, ReasonInv, NoToken
<1>9. CASE UNCHANGED lvars
  <2>1. UNCHANGED <<of, at, token, attempt, turn, refused, store, expired, issued, rej, pc>>
    BY <1>9 DEF lvars, ladder, vars, disk, as, call, ctl
  <2>2. QED
    BY <1>1, <2>1 DEF RefusedInv, ReasonInv
<1>10. QED
  BY <1>2, <1>3, <1>4, <1>5, <1>6, <1>7, <1>8, <1>9 DEF LNext, Ladder

LEMMA InitLInv == LInit => LInv
BY InitInv, LadderAssumption
   DEF LInit, Init, LInv, LTypeOK, IInv, TypeOK, RefusedInv, ReasonInv, Critical, Procs

\* The inductive invariant of the ladder, over that of the flow.
THEOREM LadderInvariance == LSpec => [](IInv /\ LInv)
<1>1. LInit => IInv /\ LInv
  BY InitInv, InitLInv DEF LInit
<1>2. IInv /\ LInv /\ [LNext]_lvars => IInv' /\ LInv'
  <2>1. ASSUME IInv, LInv, [LNext]_lvars PROVE IInv' /\ LInv'
    <3>1. [Next]_vars
      BY <2>1, LadderStep DEF LInv
    <3>2. IInv'
      BY <2>1, <3>1, TypeStep, LockStep, StoreStep, GotStep, ChainStep, ReplayStep DEF IInv
    <3>3. QED
      BY <2>1, <3>2, LInvStep
  <2>2. QED
    BY <2>1
<1>3. QED
  BY <1>1, <1>2, PTL DEF LSpec

\* doAuthed with its requests, refusals and retries drives Flow.Token as
\* TokenFlow lets it be driven (client.go: doAuthed, token): every behaviour of
\* the ladder is one of the flow.
THEOREM LadderImplementsFlow == LSpec => Spec
<1>1. LInit => Init
  BY DEF LInit
<1>2. LInv /\ [LNext]_lvars => [Next]_vars
  BY LadderStep DEF LInv
<1>3. QED
  BY <1>1, <1>2, LadderInvariance, PTL DEF LSpec, Spec

\* Types of the ladder: in particular a request never goes past maxTokenCycles
\* (client.go: doAuthed), and what was refused was issued.
THEOREM LadderTypeCorrect == LSpec => []LTypeOK
<1>1. LInv => LTypeOK
  BY DEF LInv
<1>2. QED
  BY <1>1, LadderInvariance, PTL

\* The store is written by the holder of the lock, past the comparison with the
\* reloaded token, and by Logout.
LEMMA RepairStep ==
    ASSUME IInv, LInv, [LNext]_lvars
    PROVE  [RepairsStored]_lvars
<1> USE DEF RepairsStored, IInv, TypeOK, TokenType, LockInv, LInv, LTypeOK, ReasonInv, Critical
<1>1. CASE UNCHANGED store
  BY <1>1
<1>2. ASSUME NEW p \in Procs, Acquire(p) \/ Advance(p) \/ LoginDone(p) \/ Crash(p)
      PROVE  RepairsStored
  <2>1. store' = store \/ pc[p] \in {"badgrant", "saveR", "saveL"}
    BY <1>2 DEF Acquire, Advance, FastHit, FastMiss, GiveUpLock, ObtainFails, UseStored,
         RejectFinally, StartRefresh, SkipRefresh, Refresh, RefreshRefused, RefreshFails,
         DropGrant, SaveRefreshed, SaveRefreshedFails, LoginFails, SaveLogin,
         SaveLoginFails, LoginDone, Crash, disk
  <2>2. QED
    BY <2>1
<1>3. store' = store \/ Logout \/ (\E p \in Procs : Acquire(p) \/ Advance(p) \/ LoginDone(p) \/ Crash(p))
  <2>1. ASSUME NEW r \in Requests, Ladder(r) PROVE store' = store
    BY <2>1 DEF Ladder, Ask, TakeToken, Answered, Unauthorized, Call, vars, disk
  <2>2. (Revoke \/ Expire \/ Rest) => store' = store
    BY DEF Revoke, Expire, Rest, vars, disk
  <2>3. UNCHANGED lvars => store' = store
    BY DEF lvars, vars, disk
  <2>4. QED
    BY <2>1, <2>2, <2>3 DEF LNext, Flow, CrashAll, UserDone
<1>4. QED
  BY <1>1, <1>2, <1>3

\* Requests that are refused together are repaired together (flow.go: obtain):
\* for any number of processes and requests a stored token is replaced or
\* deleted only once it has expired or a resource server has refused it.
THEOREM RepairedForCause == LSpec => NoNeedlessRepair
<1>1. IInv /\ LInv /\ [LNext]_lvars => [RepairsStored]_lvars
  BY RepairStep
<1>2. QED
  BY <1>1, LadderInvariance, PTL DEF LSpec, NoNeedlessRepair

\* What holds of the flow holds under the requests that drive it (client.go:
\* doAuthed): rotation is safe, windows have causes, a refused token does not
\* come back, a usable grant stays, and all processes act as one holder of it.
THEOREM LadderIsSafe ==
    LSpec => /\ [](NoReplay /\ WindowsJustified)
             /\ RejectedNotReturned /\ UsableGrantKept /\ OneHolder
<1>1. Spec => [](NoReplay /\ WindowsJustified)
  BY RotationSafe, WindowsBounded, PTL
<1>2. Spec => RejectedNotReturned /\ UsableGrantKept /\ OneHolder
  BY ContractKept, GrantKept, Refinement
<1>3. QED
  BY <1>1, <1>2, LadderImplementsFlow, PTL
=============================================================================
