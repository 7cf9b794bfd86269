--------------------------- MODULE TokenFlowProofs ---------------------------
(***************************************************************************)
(* Theorems about TokenFlow, for any set of processes and any faults.      *)
(*                                                                         *)
(* NoReplay is not inductive: that the refresh token a process is about to *)
(* present is current follows from what the store holds, and that from who *)
(* holds the lock. IInv adds the three links of that chain: LockInv,       *)
(* StoreInv (the store does not change under the holder, logout aside) and *)
(* ChainInv (what is spent, orphaned and on its way to the store).         *)
(*                                                                         *)
(* WindowsJustified counts: WindowInv says for which calls a window is     *)
(* still owed, and when the last one that was opened is still good. The    *)
(* last part is the refinement: TokenFlow implements GrantCell.            *)
(***************************************************************************)
EXTENDS TokenFlow, FiniteSetTheorems, TLAPS

\* The code between WithLock's acquire and its deferred unlock runs in the
\* process that holds the file lock, and nowhere else.
LockInv == \A p \in Procs : pc[p] \in Critical <=> lock = p

\* While its holder refreshes, the store holds what obtain has loaded - or
\* nothing, after a logout.
StoreInv ==
    \A p \in Procs : pc[p] \in {"refresh", "badgrant", "saveR"} =>
                         store \in {loaded[p], NoToken}

\* What a saved answer will put in the store has not been rotated away and
\* is none of the tokens a caller could have had rejected.
GotInv ==
    \A p \in Procs : pc[p] \in {"saveR", "saveL"} =>
        /\ got[p].ref \notin spent
        /\ got[p].acc # 0
        /\ got[p].acc # rej[p]

\* The stored refresh token is spent only while its successor is on the way
\* to the store, or when that successor was lost.
ChainInv ==
    /\ valid \cap spent = {}
    /\ store.ref \in spent \ orphaned =>
           \E p \in Procs : pc[p] = "saveR" /\ Rotated(p)
    /\ \A p \in Procs : pc[p] = "saveR" /\ Rotated(p) => loaded[p].ref \in spent
    /\ \A p \in Procs : pc[p] = "badgrant" => loaded[p].ref \notin valid

IInv == TypeOK /\ LockInv /\ StoreInv /\ GotInv /\ ChainInv /\ NoReplay

-----------------------------------------------------------------------------
(* Each conjunct of IInv is preserved by every step.                       *)

\* Every step keeps the types; that an orphaned refresh token is a spent one
\* needs ChainInv, for the failed save and the crash.
LEMMA TypeStep ==
    ASSUME TypeOK, ChainInv, [Next]_vars
    PROVE  TypeOK'
<1> USE ConstantsAssumption DEF TypeOK, TokenType, NoToken, Procs, States, ctl, disk, as, mem, call, hist
<1>1. CASE UNCHANGED vars
  BY <1>1 DEF vars
<1>2. ASSUME NEW p \in Bridges, Call(p) PROVE TypeOK'
  BY <1>2 DEF Call, Goto, Blame
<1>3. ASSUME NEW p \in Commands, CallLogin(p) PROVE TypeOK'
  BY <1>3 DEF CallLogin, Goto
<1>4. ASSUME NEW p \in Procs, Acquire(p) PROVE TypeOK'
  BY <1>4 DEF Acquire
<1>5. ASSUME NEW p \in Procs, FastHit(p) PROVE TypeOK'
  <2>1. CASE Fresh(cached[p]) /\ Return(p, cached[p].acc) /\ UNCHANGED cached
    BY <1>5, <2>1 DEF FastHit, Return
  <2>2. CASE Fresh(store) /\ cached' = [cached EXCEPT ![p] = store] /\ Return(p, store.acc)
    BY <1>5, <2>2 DEF FastHit, Return
  <2>3. QED
    BY <1>5, <2>1, <2>2 DEF FastHit
<1>6. ASSUME NEW p \in Procs, FastMiss(p) PROVE TypeOK'
  BY <1>6 DEF FastMiss, Goto
<1>7. ASSUME NEW p \in Procs, GiveUpLock(p) PROVE TypeOK'
  BY <1>7 DEF GiveUpLock, Return
<1>8. ASSUME NEW p \in Procs, ObtainFails(p) PROVE TypeOK'
  BY <1>8 DEF ObtainFails, Return
<1>9. ASSUME NEW p \in Procs, UseStored(p) PROVE TypeOK'
  BY <1>9 DEF UseStored, Return
<1>10. ASSUME NEW p \in Procs, RejectFinally(p) PROVE TypeOK'
  BY <1>10 DEF RejectFinally, Return
<1>11. ASSUME NEW p \in Procs, StartRefresh(p) PROVE TypeOK'
  BY <1>11 DEF StartRefresh, Goto
<1>12. ASSUME NEW p \in Procs, SkipRefresh(p) PROVE TypeOK'
  <2>1. CASE Goto(p, "login") /\ windows' = windows + 1 /\ UNCHANGED <<loaded, got>>
    BY <1>12, <2>1 DEF SkipRefresh, Goto
  <2>2. CASE Return(p, 0) /\ UNCHANGED windows
    BY <1>12, <2>2 DEF SkipRefresh, Return
  <2>3. QED
    BY <1>12, <2>1, <2>2 DEF SkipRefresh, Escalate
<1>13. ASSUME NEW p \in Procs, Refresh(p) PROVE TypeOK'
  <2>1. PICK rt \in {0, issued + 1} :
         /\ issued' = issued + 1
         /\ valid' = (valid \ Retired(p, rt)) \cup ({rt} \ {0})
         /\ spent' = spent \cup Retired(p, rt)
         /\ \/ /\ got' = [got EXCEPT ![p] = RefreshedToken(loaded[p], issued + 1, rt)]
               /\ Goto(p, "saveR")
               /\ UNCHANGED <<loaded, orphaned, causes>>
            \/ /\ orphaned' = orphaned \cup Retired(p, rt)
               /\ Blame(IF rt = 0 THEN 0 ELSE 1)
               /\ Return(p, 0)
    BY <1>13 DEF Refresh
  <2>2. /\ loaded[p].ref \in 1..issued
        /\ UNCHANGED <<disk, mem, call, windows>>
    BY <1>13 DEF Refresh
  <2>3. issued' \in Nat /\ 0..issued \subseteq 0..issued' /\ rt \in 0..issued'
    BY <2>1
  <2>4. Retired(p, rt) \subseteq 1..issued
    BY <2>2 DEF Retired
  <2>5. valid' \subseteq 1..issued' /\ spent' \subseteq 1..issued'
    <3>1. ({rt} \ {0}) \subseteq 1..issued' /\ 1..issued \subseteq 1..issued'
      BY <2>1
    <3>2. valid' \subseteq 1..issued'
      BY <2>1, <3>1
    <3>3. spent' \subseteq 1..issued'
      BY <2>1, <2>4, <3>1
    <3>4. QED
      BY <3>2, <3>3
  <2>6. /\ loaded \in [Procs -> [acc : 0..issued', ref : 0..issued']]
        /\ got \in [Procs -> [acc : 0..issued', ref : 0..issued']]
    BY <2>3
  <2>7. CASE /\ got' = [got EXCEPT ![p] = RefreshedToken(loaded[p], issued + 1, rt)]
             /\ Goto(p, "saveR")
             /\ UNCHANGED <<loaded, orphaned, causes>>
    <3>1. RefreshedToken(loaded[p], issued + 1, rt) \in [acc : 0..issued', ref : 0..issued']
      BY <2>1, <2>2, <2>3 DEF RefreshedToken
    <3>2. got' \in [Procs -> [acc : 0..issued', ref : 0..issued']]
      BY <2>6, <2>7, <3>1
    <3>3. orphaned' \subseteq spent'
      BY <2>1, <2>7
    <3>4. QED
      BY <2>1, <2>2, <2>3, <2>5, <2>6, <2>7, <3>2, <3>3 DEF Goto
  <2>8. CASE /\ orphaned' = orphaned \cup Retired(p, rt)
             /\ Blame(IF rt = 0 THEN 0 ELSE 1)
             /\ Return(p, 0)
    <3>1. orphaned' \subseteq spent'
      BY <2>1, <2>8
    <3>2. causes' \in Nat
      BY <2>8 DEF Blame
    <3>3. /\ loaded' \in [Procs -> [acc : 0..issued', ref : 0..issued']]
          /\ got' \in [Procs -> [acc : 0..issued', ref : 0..issued']]
      BY <2>3, <2>6, <2>8 DEF Return
    <3>4. QED
      BY <2>1, <2>2, <2>3, <2>5, <2>8, <3>1, <3>2, <3>3 DEF Return
  <2>9. QED
    BY <2>1, <2>7, <2>8
<1>14. ASSUME NEW p \in Procs, RefreshRefused(p) PROVE TypeOK'
  BY <1>14 DEF RefreshRefused, Goto
<1>15. ASSUME NEW p \in Procs, RefreshFails(p) PROVE TypeOK'
  BY <1>15 DEF RefreshFails, Return
<1>16. ASSUME NEW p \in Procs, DropGrant(p) PROVE TypeOK'
  <2>1. store' \in {NoToken, store}
    BY <1>16 DEF DropGrant
  <2>2. CASE Goto(p, "login") /\ windows' = windows + 1 /\ UNCHANGED <<loaded, got>>
    BY <1>16, <2>1, <2>2 DEF DropGrant, Goto
  <2>3. CASE Return(p, 0) /\ UNCHANGED windows
    BY <1>16, <2>1, <2>3 DEF DropGrant, Return
  <2>4. QED
    BY <1>16, <2>2, <2>3 DEF DropGrant, Escalate
<1>17. ASSUME NEW p \in Procs, SaveRefreshed(p) PROVE TypeOK'
  BY <1>17 DEF SaveRefreshed, Return
<1>18. ASSUME NEW p \in Procs, SaveRefreshedFails(p) PROVE TypeOK'
  <2>1. orphaned' \subseteq spent'
    BY <1>18 DEF SaveRefreshedFails, Rotated, ChainInv
  <2>2. causes' \in Nat
    BY <1>18 DEF SaveRefreshedFails, Blame
  <2>3. QED
    BY <1>18, <2>1, <2>2 DEF SaveRefreshedFails, Return
<1>19. ASSUME NEW p \in Procs, LoginFails(p) PROVE TypeOK'
  BY <1>19 DEF LoginFails, Return, Blame
<1>20. ASSUME NEW p \in Procs, SaveLogin(p) PROVE TypeOK'
  BY <1>20 DEF SaveLogin, Return
<1>21. ASSUME NEW p \in Procs, SaveLoginFails(p) PROVE TypeOK'
  BY <1>21 DEF SaveLoginFails, Return, Blame
<1>22. ASSUME NEW p \in Procs, LoginDone(p) PROVE TypeOK'
  <2>1. PICK rt \in {0, issued + 1} :
         /\ issued' = issued + 1
         /\ valid' = valid \cup ({rt} \ {0})
         /\ got' = [got EXCEPT ![p] = [acc |-> issued + 1, ref |-> rt]]
         /\ Blame(IF rt = 0 THEN 1 ELSE 0)
    BY <1>22 DEF LoginDone
  <2>2. issued' \in Nat /\ 0..issued \subseteq 0..issued' /\ valid' \subseteq 1..issued'
    BY <2>1
  <2>3. causes' \in Nat
    BY <2>1 DEF Blame
  <2>4. /\ [acc |-> issued + 1, ref |-> rt] \in [acc : 0..issued', ref : 0..issued']
        /\ got \in [Procs -> [acc : 0..issued', ref : 0..issued']]
    BY <2>1, <2>2
  <2>5. got' \in [Procs -> [acc : 0..issued', ref : 0..issued']]
    BY <2>1, <2>4
  <2>6. QED
    BY <1>22, <2>1, <2>2, <2>3, <2>5 DEF LoginDone, Goto
<1>23. ASSUME NEW p \in Procs, Crash(p) PROVE TypeOK'
  <2>1. orphaned' \subseteq spent'
    BY <1>23 DEF Crash, Rotated, ChainInv
  <2>2. causes' \in Nat
    BY <1>23 DEF Crash, Blame
  <2>3. QED
    BY <1>23, <2>1, <2>2 DEF Crash
<1>24. CASE Logout
  BY <1>24 DEF Logout, Blame
<1>25. CASE Revoke
  BY <1>25 DEF Revoke, Blame
<1>26. CASE Expire
  BY <1>26 DEF Expire
<1>27. CASE Rest
  BY <1>27 DEF Rest, vars
<1>28. QED
  BY <1>1, <1>2, <1>3, <1>4, <1>5, <1>6, <1>7, <1>8, <1>9, <1>10, <1>11, <1>12, <1>13, <1>14, <1>15, <1>16, <1>17, <1>18, <1>19, <1>20, <1>21, <1>22, <1>23, <1>24, <1>25, <1>26, <1>27 DEF Next, Advance

\* Acquire, Return and Crash are the steps that move the lock.
LEMMA LockStep ==
    ASSUME TypeOK, LockInv, [Next]_vars
    PROVE  LockInv'
<1> USE ConstantsAssumption DEF TypeOK, LockInv, Procs, States, Critical, ctl, disk, as, mem, call, hist
<1>1. CASE UNCHANGED vars
  BY <1>1 DEF vars
<1>2. ASSUME NEW p \in Bridges, Call(p) PROVE LockInv'
  BY <1>2 DEF Call, Goto, Blame
<1>3. ASSUME NEW p \in Commands, CallLogin(p) PROVE LockInv'
  BY <1>3 DEF CallLogin, Goto
<1>4. ASSUME NEW p \in Procs, Acquire(p) PROVE LockInv'
  BY <1>4 DEF Acquire
<1>5. ASSUME NEW p \in Procs, FastHit(p) PROVE LockInv'
  BY <1>5 DEF FastHit, Return, Fresh
<1>6. ASSUME NEW p \in Procs, FastMiss(p) PROVE LockInv'
  BY <1>6 DEF FastMiss, Goto
<1>7. ASSUME NEW p \in Procs, GiveUpLock(p) PROVE LockInv'
  BY <1>7 DEF GiveUpLock, Return
<1>8. ASSUME NEW p \in Procs, ObtainFails(p) PROVE LockInv'
  BY <1>8 DEF ObtainFails, Return
<1>9. ASSUME NEW p \in Procs, UseStored(p) PROVE LockInv'
  BY <1>9 DEF UseStored, Return
<1>10. ASSUME NEW p \in Procs, RejectFinally(p) PROVE LockInv'
  BY <1>10 DEF RejectFinally, Return
<1>11. ASSUME NEW p \in Procs, StartRefresh(p) PROVE LockInv'
  BY <1>11 DEF StartRefresh, Goto
<1>12. ASSUME NEW p \in Procs, SkipRefresh(p) PROVE LockInv'
  BY <1>12 DEF SkipRefresh, Escalate, Goto, Return
<1>13. ASSUME NEW p \in Procs, Refresh(p) PROVE LockInv'
  BY <1>13 DEF Refresh, Goto, Return, Blame, RefreshedToken
<1>14. ASSUME NEW p \in Procs, RefreshRefused(p) PROVE LockInv'
  BY <1>14 DEF RefreshRefused, Goto
<1>15. ASSUME NEW p \in Procs, RefreshFails(p) PROVE LockInv'
  BY <1>15 DEF RefreshFails, Return
<1>16. ASSUME NEW p \in Procs, DropGrant(p) PROVE LockInv'
  BY <1>16 DEF DropGrant, Escalate, Goto, Return
<1>17. ASSUME NEW p \in Procs, SaveRefreshed(p) PROVE LockInv'
  BY <1>17 DEF SaveRefreshed, Return
<1>18. ASSUME NEW p \in Procs, SaveRefreshedFails(p) PROVE LockInv'
  BY <1>18 DEF SaveRefreshedFails, Return, Blame, Rotated
<1>19. ASSUME NEW p \in Procs, LoginFails(p) PROVE LockInv'
  BY <1>19 DEF LoginFails, Return, Blame
<1>20. ASSUME NEW p \in Procs, SaveLogin(p) PROVE LockInv'
  BY <1>20 DEF SaveLogin, Return
<1>21. ASSUME NEW p \in Procs, SaveLoginFails(p) PROVE LockInv'
  BY <1>21 DEF SaveLoginFails, Return, Blame
<1>22. ASSUME NEW p \in Procs, LoginDone(p) PROVE LockInv'
  BY <1>22 DEF LoginDone, Goto, Blame
<1>23. ASSUME NEW p \in Procs, Crash(p) PROVE LockInv'
  BY <1>23 DEF Crash, Blame, Rotated
<1>24. CASE Logout
  BY <1>24 DEF Logout, Blame
<1>25. CASE Revoke
  BY <1>25 DEF Revoke, Blame
<1>26. CASE Expire
  BY <1>26 DEF Expire
<1>27. CASE Rest
  BY <1>27 DEF Rest, vars
<1>28. QED
  BY <1>1, <1>2, <1>3, <1>4, <1>5, <1>6, <1>7, <1>8, <1>9, <1>10, <1>11, <1>12, <1>13, <1>14, <1>15, <1>16, <1>17, <1>18, <1>19, <1>20, <1>21, <1>22, <1>23, <1>24, <1>25, <1>26, <1>27 DEF Next, Advance

\* Only the holder of the lock writes the store; Logout empties it.
LEMMA StoreStep ==
    ASSUME TypeOK, LockInv, StoreInv, [Next]_vars
    PROVE  StoreInv'
<1> USE ConstantsAssumption DEF TypeOK, LockInv, StoreInv, Critical, Procs, ctl, disk, as, mem, call, hist
<1>1. CASE UNCHANGED vars
  BY <1>1 DEF vars
<1>2. ASSUME NEW p \in Bridges, Call(p) PROVE StoreInv'
  BY <1>2 DEF Call, Goto, Blame
<1>3. ASSUME NEW p \in Commands, CallLogin(p) PROVE StoreInv'
  BY <1>3 DEF CallLogin, Goto
<1>4. ASSUME NEW p \in Procs, Acquire(p) PROVE StoreInv'
  BY <1>4 DEF Acquire
<1>5. ASSUME NEW p \in Procs, FastHit(p) PROVE StoreInv'
  BY <1>5 DEF FastHit, Return, Fresh
<1>6. ASSUME NEW p \in Procs, FastMiss(p) PROVE StoreInv'
  BY <1>6 DEF FastMiss, Goto
<1>7. ASSUME NEW p \in Procs, GiveUpLock(p) PROVE StoreInv'
  BY <1>7 DEF GiveUpLock, Return
<1>8. ASSUME NEW p \in Procs, ObtainFails(p) PROVE StoreInv'
  BY <1>8 DEF ObtainFails, Return
<1>9. ASSUME NEW p \in Procs, UseStored(p) PROVE StoreInv'
  BY <1>9 DEF UseStored, Return
<1>10. ASSUME NEW p \in Procs, RejectFinally(p) PROVE StoreInv'
  BY <1>10 DEF RejectFinally, Return
<1>11. ASSUME NEW p \in Procs, StartRefresh(p) PROVE StoreInv'
  BY <1>11 DEF StartRefresh, Goto
<1>12. ASSUME NEW p \in Procs, SkipRefresh(p) PROVE StoreInv'
  BY <1>12 DEF SkipRefresh, Escalate, Goto, Return
<1>13. ASSUME NEW p \in Procs, Refresh(p) PROVE StoreInv'
  BY <1>13 DEF Refresh, Goto, Return, Blame, RefreshedToken
<1>14. ASSUME NEW p \in Procs, RefreshRefused(p) PROVE StoreInv'
  BY <1>14 DEF RefreshRefused, Goto
<1>15. ASSUME NEW p \in Procs, RefreshFails(p) PROVE StoreInv'
  BY <1>15 DEF RefreshFails, Return
<1>16. ASSUME NEW p \in Procs, DropGrant(p) PROVE StoreInv'
  BY <1>16 DEF DropGrant, Escalate, Goto, Return
<1>17. ASSUME NEW p \in Procs, SaveRefreshed(p) PROVE StoreInv'
  BY <1>17 DEF SaveRefreshed, Return
<1>18. ASSUME NEW p \in Procs, SaveRefreshedFails(p) PROVE StoreInv'
  BY <1>18 DEF SaveRefreshedFails, Return, Blame, Rotated
<1>19. ASSUME NEW p \in Procs, LoginFails(p) PROVE StoreInv'
  BY <1>19 DEF LoginFails, Return, Blame
<1>20. ASSUME NEW p \in Procs, SaveLogin(p) PROVE StoreInv'
  BY <1>20 DEF SaveLogin, Return
<1>21. ASSUME NEW p \in Procs, SaveLoginFails(p) PROVE StoreInv'
  BY <1>21 DEF SaveLoginFails, Return, Blame
<1>22. ASSUME NEW p \in Procs, LoginDone(p) PROVE StoreInv'
  BY <1>22 DEF LoginDone, Goto, Blame
<1>23. ASSUME NEW p \in Procs, Crash(p) PROVE StoreInv'
  BY <1>23 DEF Crash, Blame, Rotated
<1>24. CASE Logout
  BY <1>24 DEF Logout, Blame
<1>25. CASE Revoke
  BY <1>25 DEF Revoke, Blame
<1>26. CASE Expire
  BY <1>26 DEF Expire
<1>27. CASE Rest
  BY <1>27 DEF Rest, vars
<1>28. QED
  BY <1>1, <1>2, <1>3, <1>4, <1>5, <1>6, <1>7, <1>8, <1>9, <1>10, <1>11, <1>12, <1>13, <1>14, <1>15, <1>16, <1>17, <1>18, <1>19, <1>20, <1>21, <1>22, <1>23, <1>24, <1>25, <1>26, <1>27 DEF Next, Advance

\* An answer of the AS is new, so it is neither spent nor a rejected token.
LEMMA GotStep ==
    ASSUME TypeOK, LockInv, GotInv, ChainInv, [Next]_vars
    PROVE  GotInv'
<1> USE ConstantsAssumption DEF TypeOK, LockInv, GotInv, Critical, Procs, TokenType, NoToken, ctl, disk, as, mem, call, hist
<1>1. CASE UNCHANGED vars
  BY <1>1 DEF vars
<1>2. ASSUME NEW p \in Bridges, Call(p) PROVE GotInv'
  BY <1>2 DEF Call, Goto, Blame
<1>3. ASSUME NEW p \in Commands, CallLogin(p) PROVE GotInv'
  BY <1>3 DEF CallLogin, Goto
<1>4. ASSUME NEW p \in Procs, Acquire(p) PROVE GotInv'
  BY <1>4 DEF Acquire
<1>5. ASSUME NEW p \in Procs, FastHit(p) PROVE GotInv'
  BY <1>5 DEF FastHit, Return, Fresh
<1>6. ASSUME NEW p \in Procs, FastMiss(p) PROVE GotInv'
  BY <1>6 DEF FastMiss, Goto
<1>7. ASSUME NEW p \in Procs, GiveUpLock(p) PROVE GotInv'
  BY <1>7 DEF GiveUpLock, Return
<1>8. ASSUME NEW p \in Procs, ObtainFails(p) PROVE GotInv'
  BY <1>8 DEF ObtainFails, Return
<1>9. ASSUME NEW p \in Procs, UseStored(p) PROVE GotInv'
  BY <1>9 DEF UseStored, Return
<1>10. ASSUME NEW p \in Procs, RejectFinally(p) PROVE GotInv'
  BY <1>10 DEF RejectFinally, Return
<1>11. ASSUME NEW p \in Procs, StartRefresh(p) PROVE GotInv'
  BY <1>11 DEF StartRefresh, Goto
<1>12. ASSUME NEW p \in Procs, SkipRefresh(p) PROVE GotInv'
  BY <1>12 DEF SkipRefresh, Escalate, Goto, Return
<1>13. ASSUME NEW p \in Procs, Refresh(p) PROVE GotInv'
  <2>1. PICK rt \in {0, issued + 1} :
         /\ issued' = issued + 1
         /\ valid' = (valid \ Retired(p, rt)) \cup ({rt} \ {0})
         /\ spent' = spent \cup Retired(p, rt)
         /\ \/ /\ got' = [got EXCEPT ![p] = RefreshedToken(loaded[p], issued + 1, rt)]
               /\ Goto(p, "saveR")
               /\ UNCHANGED <<loaded, orphaned, causes>>
            \/ /\ orphaned' = orphaned \cup Retired(p, rt)
               /\ Blame(IF rt = 0 THEN 0 ELSE 1)
               /\ Return(p, 0)
    BY <1>13 DEF Refresh
  <2>2. \A q \in Procs : q # p => pc[q] \notin Critical /\ pc'[q] = pc[q]
    BY <1>13, <2>1 DEF Refresh, Goto, Return
  <2>3. SUFFICES ASSUME NEW q \in Procs, pc'[q] \in {"saveR", "saveL"}
                 PROVE  /\ got'[q].ref \notin spent'
                        /\ got'[q].acc # 0
                        /\ got'[q].acc # rej'[q]
    OBVIOUS
  <2>4. q = p /\ pc'[p] = "saveR"
    BY <1>13, <2>1, <2>2, <2>3 DEF Refresh, Goto, Return
  <2>5. got'[p] = RefreshedToken(loaded[p], issued + 1, rt)
    BY <2>1, <2>4 DEF Return
  <2>6. rej' = rej /\ loaded[p].ref \in valid
    BY <1>13 DEF Refresh
  <2>7. got'[p].acc # 0 /\ got'[p].acc # rej'[p]
    BY <2>5, <2>6 DEF RefreshedToken
  <2>8. got'[p].ref \notin spent'
    <3>1. CASE rt = 0
      BY <2>1, <2>5, <2>6, <3>1 DEF RefreshedToken, Retired, ChainInv
    <3>2. CASE rt = issued + 1
      <4>1. rt \notin spent /\ rt # loaded[p].ref /\ rt # 0
        BY <2>6, <3>2
      <4>2. QED
        BY <2>1, <2>5, <4>1 DEF RefreshedToken, Retired
    <3>3. QED
      BY <2>1, <3>1, <3>2
  <2>9. QED
    BY <2>4, <2>7, <2>8
<1>14. ASSUME NEW p \in Procs, RefreshRefused(p) PROVE GotInv'
  BY <1>14 DEF RefreshRefused, Goto
<1>15. ASSUME NEW p \in Procs, RefreshFails(p) PROVE GotInv'
  BY <1>15 DEF RefreshFails, Return
<1>16. ASSUME NEW p \in Procs, DropGrant(p) PROVE GotInv'
  BY <1>16 DEF DropGrant, Escalate, Goto, Return
<1>17. ASSUME NEW p \in Procs, SaveRefreshed(p) PROVE GotInv'
  BY <1>17 DEF SaveRefreshed, Return
<1>18. ASSUME NEW p \in Procs, SaveRefreshedFails(p) PROVE GotInv'
  BY <1>18 DEF SaveRefreshedFails, Return, Blame, Rotated
<1>19. ASSUME NEW p \in Procs, LoginFails(p) PROVE GotInv'
  BY <1>19 DEF LoginFails, Return, Blame
<1>20. ASSUME NEW p \in Procs, SaveLogin(p) PROVE GotInv'
  BY <1>20 DEF SaveLogin, Return
<1>21. ASSUME NEW p \in Procs, SaveLoginFails(p) PROVE GotInv'
  BY <1>21 DEF SaveLoginFails, Return, Blame
<1>22. ASSUME NEW p \in Procs, LoginDone(p) PROVE GotInv'
  BY <1>22 DEF LoginDone, Goto, Blame
<1>23. ASSUME NEW p \in Procs, Crash(p) PROVE GotInv'
  BY <1>23 DEF Crash, Blame, Rotated
<1>24. CASE Logout
  BY <1>24 DEF Logout, Blame
<1>25. CASE Revoke
  BY <1>25 DEF Revoke, Blame
<1>26. CASE Expire
  BY <1>26 DEF Expire
<1>27. CASE Rest
  BY <1>27 DEF Rest, vars
<1>28. QED
  BY <1>1, <1>2, <1>3, <1>4, <1>5, <1>6, <1>7, <1>8, <1>9, <1>10, <1>11, <1>12, <1>13, <1>14, <1>15, <1>16, <1>17, <1>18, <1>19, <1>20, <1>21, <1>22, <1>23, <1>24, <1>25, <1>26, <1>27 DEF Next, Advance

\* Refresh spends a token and puts its successor on the way; the steps that
\* end the holder's call either store that successor or orphan the token.
LEMMA ChainStep ==
    ASSUME TypeOK, LockInv, StoreInv, GotInv, ChainInv, [Next]_vars
    PROVE  ChainInv'
<1> USE ConstantsAssumption DEF TypeOK, LockInv, StoreInv, GotInv, ChainInv, Critical, Procs, TokenType, NoToken, Rotated, ctl, disk, as, mem, call, hist
<1>1. CASE UNCHANGED vars
  BY <1>1 DEF vars
<1>2. ASSUME NEW p \in Bridges, Call(p) PROVE ChainInv'
  BY <1>2 DEF Call, Goto, Blame
<1>3. ASSUME NEW p \in Commands, CallLogin(p) PROVE ChainInv'
  BY <1>3 DEF CallLogin, Goto
<1>4. ASSUME NEW p \in Procs, Acquire(p) PROVE ChainInv'
  BY <1>4 DEF Acquire
<1>5. ASSUME NEW p \in Procs, FastHit(p) PROVE ChainInv'
  BY <1>5, ZenonT(60) DEF FastHit, Return, Fresh
<1>6. ASSUME NEW p \in Procs, FastMiss(p) PROVE ChainInv'
  BY <1>6 DEF FastMiss, Goto
<1>7. ASSUME NEW p \in Procs, GiveUpLock(p) PROVE ChainInv'
  BY <1>7 DEF GiveUpLock, Return
<1>8. ASSUME NEW p \in Procs, ObtainFails(p) PROVE ChainInv'
  BY <1>8 DEF ObtainFails, Return
<1>9. ASSUME NEW p \in Procs, UseStored(p) PROVE ChainInv'
  BY <1>9 DEF UseStored, Return
<1>10. ASSUME NEW p \in Procs, RejectFinally(p) PROVE ChainInv'
  BY <1>10 DEF RejectFinally, Return
<1>11. ASSUME NEW p \in Procs, StartRefresh(p) PROVE ChainInv'
  BY <1>11 DEF StartRefresh, Goto
<1>12. ASSUME NEW p \in Procs, SkipRefresh(p) PROVE ChainInv'
  BY <1>12 DEF SkipRefresh, Escalate, Goto, Return
<1>13. ASSUME NEW p \in Procs, Refresh(p) PROVE ChainInv'
  <2>1. PICK rt \in {0, issued + 1} :
         /\ issued' = issued + 1
         /\ valid' = (valid \ Retired(p, rt)) \cup ({rt} \ {0})
         /\ spent' = spent \cup Retired(p, rt)
         /\ \/ /\ got' = [got EXCEPT ![p] = RefreshedToken(loaded[p], issued + 1, rt)]
               /\ Goto(p, "saveR")
               /\ UNCHANGED <<loaded, orphaned, causes>>
            \/ /\ orphaned' = orphaned \cup Retired(p, rt)
               /\ Blame(IF rt = 0 THEN 0 ELSE 1)
               /\ Return(p, 0)
    BY <1>13 DEF Refresh
  <2>2. \A q \in Procs : q # p => pc[q] \notin Critical /\ pc'[q] = pc[q]
    BY <1>13, <2>1 DEF Refresh, Goto, Return
  <2>3. loaded[p].ref \in valid /\ store' = store /\ pc[p] = "refresh"
    BY <1>13 DEF Refresh
  <2>4. (valid \cap spent = {})'
    <3>1. ({rt} \ {0}) \cap (spent \cup {loaded[p].ref}) = {}
      BY <2>1, <2>3
    <3>2. Retired(p, rt) \in {{}, {loaded[p].ref}}
      BY DEF Retired
    <3>3. QED
      BY <2>1, <3>1, <3>2
  <2>5. \/ /\ pc'[p] = "saveR"
           /\ got'[p] = RefreshedToken(loaded[p], issued + 1, rt)
           /\ loaded'[p] = loaded[p]
           /\ orphaned' = orphaned
        \/ /\ pc'[p] = "idle"
           /\ orphaned' = orphaned \cup Retired(p, rt)
    BY <2>1 DEF Goto, Return
  <2>6. store.ref \notin spent \ orphaned
    BY <2>2, <2>3
  <2>7. store.ref \in spent' \ orphaned' => pc'[p] = "saveR" /\ (Rotated(p))'
    <3>1. CASE rt = 0
      BY <2>1, <2>5, <2>6, <3>1 DEF Retired
    <3>2. CASE rt # 0
      BY <2>1, <2>3, <2>5, <2>6, <3>2 DEF Retired, RefreshedToken
    <3>3. QED
      BY <3>1, <3>2
  <2>8. ASSUME NEW q \in Procs, pc'[q] = "saveR", (Rotated(q))' PROVE loaded'[q].ref \in spent'
    <3>1. q = p
      BY <2>2, <2>8
    <3>2. rt # 0
      BY <2>5, <2>8, <3>1 DEF RefreshedToken
    <3>3. QED
      BY <2>1, <2>5, <2>8, <3>1, <3>2 DEF Retired
  <2>9. ASSUME NEW q \in Procs PROVE pc'[q] # "badgrant"
    BY <2>2, <2>5
  <2>10. QED
    BY <2>3, <2>4, <2>7, <2>8, <2>9
<1>14. ASSUME NEW p \in Procs, RefreshRefused(p) PROVE ChainInv'
  BY <1>14 DEF RefreshRefused, Goto
<1>15. ASSUME NEW p \in Procs, RefreshFails(p) PROVE ChainInv'
  BY <1>15 DEF RefreshFails, Return
<1>16. ASSUME NEW p \in Procs, DropGrant(p) PROVE ChainInv'
  <2>1. /\ store' \in {NoToken, store}
        /\ pc'[p] \in {"login", "idle"}
        /\ \A q \in Procs \ {p} : pc'[q] = pc[q] /\ loaded'[q] = loaded[q] /\ got'[q] = got[q]
        /\ UNCHANGED as
    BY <1>16 DEF DropGrant, Escalate, Goto, Return
  <2>2. \A q \in Procs : pc[q] # "saveR"
    BY <1>16 DEF DropGrant
  <2>3. store'.ref \notin spent' \ orphaned'
    BY <2>1, <2>2
  <2>4. \A q \in Procs : pc'[q] # "saveR"
    BY <2>1, <2>2
  <2>5. \A q \in Procs : pc'[q] = "badgrant" => loaded'[q].ref \notin valid'
    BY <2>1
  <2>6. (valid \cap spent = {})'
    BY <2>1
  <2>7. QED
    BY <2>3, <2>4, <2>5, <2>6
<1>17. ASSUME NEW p \in Procs, SaveRefreshed(p) PROVE ChainInv'
  BY <1>17 DEF SaveRefreshed, Return
<1>18. ASSUME NEW p \in Procs, SaveRefreshedFails(p) PROVE ChainInv'
  BY <1>18 DEF SaveRefreshedFails, Return, Blame, Rotated
<1>19. ASSUME NEW p \in Procs, LoginFails(p) PROVE ChainInv'
  BY <1>19 DEF LoginFails, Return, Blame
<1>20. ASSUME NEW p \in Procs, SaveLogin(p) PROVE ChainInv'
  BY <1>20 DEF SaveLogin, Return
<1>21. ASSUME NEW p \in Procs, SaveLoginFails(p) PROVE ChainInv'
  BY <1>21 DEF SaveLoginFails, Return, Blame
<1>22. ASSUME NEW p \in Procs, LoginDone(p) PROVE ChainInv'
  BY <1>22 DEF LoginDone, Goto, Blame
<1>23. ASSUME NEW p \in Procs, Crash(p) PROVE ChainInv'
  BY <1>23 DEF Crash, Blame, Rotated
<1>24. CASE Logout
  BY <1>24 DEF Logout, Blame
<1>25. CASE Revoke
  BY <1>25 DEF Revoke, Blame
<1>26. CASE Expire
  BY <1>26 DEF Expire
<1>27. CASE Rest
  BY <1>27 DEF Rest, vars
<1>28. QED
  BY <1>1, <1>2, <1>3, <1>4, <1>5, <1>6, <1>7, <1>8, <1>9, <1>10, <1>11, <1>12, <1>13, <1>14, <1>15, <1>16, <1>17, <1>18, <1>19, <1>20, <1>21, <1>22, <1>23, <1>24, <1>25, <1>26, <1>27 DEF Next, Advance

\* StartRefresh loads what the store holds while nobody saves.
LEMMA ReplayStep ==
    ASSUME TypeOK, LockInv, ChainInv, NoReplay, [Next]_vars
    PROVE  NoReplay'
<1> USE ConstantsAssumption DEF TypeOK, LockInv, ChainInv, NoReplay, Critical, Procs, ctl, disk, as, mem, call, hist
<1>1. CASE UNCHANGED vars
  BY <1>1 DEF vars
<1>2. ASSUME NEW p \in Bridges, Call(p) PROVE NoReplay'
  BY <1>2 DEF Call, Goto, Blame
<1>3. ASSUME NEW p \in Commands, CallLogin(p) PROVE NoReplay'
  BY <1>3 DEF CallLogin, Goto
<1>4. ASSUME NEW p \in Procs, Acquire(p) PROVE NoReplay'
  BY <1>4 DEF Acquire
<1>5. ASSUME NEW p \in Procs, FastHit(p) PROVE NoReplay'
  BY <1>5 DEF FastHit, Return, Fresh
<1>6. ASSUME NEW p \in Procs, FastMiss(p) PROVE NoReplay'
  BY <1>6 DEF FastMiss, Goto
<1>7. ASSUME NEW p \in Procs, GiveUpLock(p) PROVE NoReplay'
  BY <1>7 DEF GiveUpLock, Return
<1>8. ASSUME NEW p \in Procs, ObtainFails(p) PROVE NoReplay'
  BY <1>8 DEF ObtainFails, Return
<1>9. ASSUME NEW p \in Procs, UseStored(p) PROVE NoReplay'
  BY <1>9 DEF UseStored, Return
<1>10. ASSUME NEW p \in Procs, RejectFinally(p) PROVE NoReplay'
  BY <1>10 DEF RejectFinally, Return
<1>11. ASSUME NEW p \in Procs, StartRefresh(p) PROVE NoReplay'
  BY <1>11 DEF StartRefresh, Goto
<1>12. ASSUME NEW p \in Procs, SkipRefresh(p) PROVE NoReplay'
  BY <1>12 DEF SkipRefresh, Escalate, Goto, Return
<1>13. ASSUME NEW p \in Procs, Refresh(p) PROVE NoReplay'
  BY <1>13 DEF Refresh, Goto, Return, Blame, RefreshedToken
<1>14. ASSUME NEW p \in Procs, RefreshRefused(p) PROVE NoReplay'
  BY <1>14 DEF RefreshRefused, Goto
<1>15. ASSUME NEW p \in Procs, RefreshFails(p) PROVE NoReplay'
  BY <1>15 DEF RefreshFails, Return
<1>16. ASSUME NEW p \in Procs, DropGrant(p) PROVE NoReplay'
  BY <1>16 DEF DropGrant, Escalate, Goto, Return
<1>17. ASSUME NEW p \in Procs, SaveRefreshed(p) PROVE NoReplay'
  BY <1>17 DEF SaveRefreshed, Return
<1>18. ASSUME NEW p \in Procs, SaveRefreshedFails(p) PROVE NoReplay'
  BY <1>18 DEF SaveRefreshedFails, Return, Blame, Rotated
<1>19. ASSUME NEW p \in Procs, LoginFails(p) PROVE NoReplay'
  BY <1>19 DEF LoginFails, Return, Blame
<1>20. ASSUME NEW p \in Procs, SaveLogin(p) PROVE NoReplay'
  BY <1>20 DEF SaveLogin, Return
<1>21. ASSUME NEW p \in Procs, SaveLoginFails(p) PROVE NoReplay'
  BY <1>21 DEF SaveLoginFails, Return, Blame
<1>22. ASSUME NEW p \in Procs, LoginDone(p) PROVE NoReplay'
  BY <1>22 DEF LoginDone, Goto, Blame
<1>23. ASSUME NEW p \in Procs, Crash(p) PROVE NoReplay'
  BY <1>23 DEF Crash, Blame, Rotated
<1>24. CASE Logout
  BY <1>24 DEF Logout, Blame
<1>25. CASE Revoke
  BY <1>25 DEF Revoke, Blame
<1>26. CASE Expire
  BY <1>26 DEF Expire
<1>27. CASE Rest
  BY <1>27 DEF Rest, vars
<1>28. QED
  BY <1>1, <1>2, <1>3, <1>4, <1>5, <1>6, <1>7, <1>8, <1>9, <1>10, <1>11, <1>12, <1>13, <1>14, <1>15, <1>16, <1>17, <1>18, <1>19, <1>20, <1>21, <1>22, <1>23, <1>24, <1>25, <1>26, <1>27 DEF Next, Advance

\* The empty store and idle processes satisfy every link of the chain.
LEMMA InitInv == Init => IInv
BY ConstantsAssumption
   DEF Init, IInv, TypeOK, TokenType, NoToken, States, Critical, LockInv,
       StoreInv, GotInv, ChainInv, NoReplay, Rotated

\* The inductive invariant holds in every reachable state (flow.go: obtain,
\* refresh, loginAndSave; lock.go: WithLock).
THEOREM Invariance == Spec => []IInv
<1>1. Init => IInv
  BY InitInv
<1>2. IInv /\ [Next]_vars => IInv'
  BY TypeStep, LockStep, StoreStep, GotStep, ChainStep, ReplayStep DEF IInv
<1>3. QED
  BY <1>1, <1>2, PTL DEF Spec

\* The state stays within its types: in particular an orphaned refresh token
\* is a spent one, and every token anywhere is one the AS has issued.
THEOREM TypeCorrect == Spec => []TypeOK
<1>1. IInv => TypeOK
  BY DEF IInv
<1>2. QED
  BY <1>1, Invariance, PTL

\* Rotation is safe (flow.go: obtain reloads under the lock and always takes
\* the rotated token): with any number of processes, crashes, failed saves,
\* lost answers, logouts and revocations, a refresh token that was rotated away
\* is presented again only if its successor was lost.
THEOREM RotationSafe == Spec => []NoReplay
<1>1. IInv => NoReplay
  BY DEF IInv
<1>2. QED
  BY <1>1, Invariance, PTL

-----------------------------------------------------------------------------
(* Action properties.                                                      *)

\* A call ends with a token in four places: the fast path, where nothing was
\* rejected, the reloaded token, which is compared, and the two saves, whose
\* token is newer than any the caller could have had.
LEMMA RejectionStep ==
    ASSUME IInv, [Next]_vars
    PROVE  HonorsRejection
<1> USE ConstantsAssumption DEF IInv, TypeOK, GotInv, HonorsRejection, Procs, TokenType, ctl, disk, as, mem, call, hist
<1>1. CASE UNCHANGED vars
  BY <1>1 DEF vars
<1>2. ASSUME NEW p \in Bridges, Call(p) PROVE HonorsRejection
  BY <1>2 DEF Call, Goto, Blame
<1>3. ASSUME NEW p \in Commands, CallLogin(p) PROVE HonorsRejection
  BY <1>3 DEF CallLogin, Goto
<1>4. ASSUME NEW p \in Procs, Acquire(p) PROVE HonorsRejection
  BY <1>4 DEF Acquire
<1>5. ASSUME NEW p \in Procs, FastHit(p) PROVE HonorsRejection
  BY <1>5 DEF FastHit, Return, Fresh
<1>6. ASSUME NEW p \in Procs, FastMiss(p) PROVE HonorsRejection
  BY <1>6 DEF FastMiss, Goto
<1>7. ASSUME NEW p \in Procs, GiveUpLock(p) PROVE HonorsRejection
  BY <1>7 DEF GiveUpLock, Return
<1>8. ASSUME NEW p \in Procs, ObtainFails(p) PROVE HonorsRejection
  BY <1>8 DEF ObtainFails, Return
<1>9. ASSUME NEW p \in Procs, UseStored(p) PROVE HonorsRejection
  BY <1>9 DEF UseStored, StoredServes, Return
<1>10. ASSUME NEW p \in Procs, RejectFinally(p) PROVE HonorsRejection
  BY <1>10 DEF RejectFinally, Return
<1>11. ASSUME NEW p \in Procs, StartRefresh(p) PROVE HonorsRejection
  BY <1>11 DEF StartRefresh, Goto
<1>12. ASSUME NEW p \in Procs, SkipRefresh(p) PROVE HonorsRejection
  BY <1>12 DEF SkipRefresh, Escalate, Goto, Return
<1>13. ASSUME NEW p \in Procs, Refresh(p) PROVE HonorsRejection
  BY <1>13 DEF Refresh, Goto, Return, Blame, RefreshedToken
<1>14. ASSUME NEW p \in Procs, RefreshRefused(p) PROVE HonorsRejection
  BY <1>14 DEF RefreshRefused, Goto
<1>15. ASSUME NEW p \in Procs, RefreshFails(p) PROVE HonorsRejection
  BY <1>15 DEF RefreshFails, Return
<1>16. ASSUME NEW p \in Procs, DropGrant(p) PROVE HonorsRejection
  BY <1>16 DEF DropGrant, Escalate, Goto, Return
<1>17. ASSUME NEW p \in Procs, SaveRefreshed(p) PROVE HonorsRejection
  BY <1>17 DEF SaveRefreshed, Return
<1>18. ASSUME NEW p \in Procs, SaveRefreshedFails(p) PROVE HonorsRejection
  BY <1>18 DEF SaveRefreshedFails, Return, Blame, Rotated
<1>19. ASSUME NEW p \in Procs, LoginFails(p) PROVE HonorsRejection
  BY <1>19 DEF LoginFails, Return, Blame
<1>20. ASSUME NEW p \in Procs, SaveLogin(p) PROVE HonorsRejection
  BY <1>20 DEF SaveLogin, Return
<1>21. ASSUME NEW p \in Procs, SaveLoginFails(p) PROVE HonorsRejection
  BY <1>21 DEF SaveLoginFails, Return, Blame
<1>22. ASSUME NEW p \in Procs, LoginDone(p) PROVE HonorsRejection
  BY <1>22 DEF LoginDone, Goto, Blame
<1>23. ASSUME NEW p \in Procs, Crash(p) PROVE HonorsRejection
  BY <1>23 DEF Crash, Blame, Rotated
<1>24. CASE Logout
  BY <1>24 DEF Logout, Blame
<1>25. CASE Revoke
  BY <1>25 DEF Revoke, Blame
<1>26. CASE Expire
  BY <1>26 DEF Expire
<1>27. CASE Rest
  BY <1>27 DEF Rest, vars
<1>28. QED
  BY <1>1, <1>2, <1>3, <1>4, <1>5, <1>6, <1>7, <1>8, <1>9, <1>10, <1>11, <1>12, <1>13, <1>14, <1>15, <1>16, <1>17, <1>18, <1>19, <1>20, <1>21, <1>22, <1>23, <1>24, <1>25, <1>26, <1>27 DEF Next, Advance

\* The provider contract of client.go holds for Flow.Token: a rejected token is
\* never answered to the call that reports it.
THEOREM ContractKept == Spec => RejectedNotReturned
<1>1. IInv /\ [Next]_vars => [HonorsRejection]_vars
  BY RejectionStep
<1>2. QED
  BY <1>1, Invariance, PTL DEF Spec, RejectedNotReturned

\* What UsableGrantKept says of one step.
KeepsUsableGrant == store.ref \in valid /\ store' = NoToken => Logout

\* DropGrant empties the store of what it loaded, which the AS has refused;
\* the saves write a token.
LEMMA GrantStep ==
    ASSUME IInv, [Next]_vars
    PROVE  KeepsUsableGrant
<1> USE ConstantsAssumption DEF IInv, TypeOK, StoreInv, GotInv, ChainInv, KeepsUsableGrant, Procs, TokenType, NoToken, ctl, disk, as, mem, call, hist
<1>1. CASE UNCHANGED vars
  BY <1>1 DEF vars
<1>2. ASSUME NEW p \in Bridges, Call(p) PROVE KeepsUsableGrant
  BY <1>2 DEF Call, Goto, Blame
<1>3. ASSUME NEW p \in Commands, CallLogin(p) PROVE KeepsUsableGrant
  BY <1>3 DEF CallLogin, Goto
<1>4. ASSUME NEW p \in Procs, Acquire(p) PROVE KeepsUsableGrant
  BY <1>4 DEF Acquire
<1>5. ASSUME NEW p \in Procs, FastHit(p) PROVE KeepsUsableGrant
  BY <1>5 DEF FastHit, Return, Fresh
<1>6. ASSUME NEW p \in Procs, FastMiss(p) PROVE KeepsUsableGrant
  BY <1>6 DEF FastMiss, Goto
<1>7. ASSUME NEW p \in Procs, GiveUpLock(p) PROVE KeepsUsableGrant
  BY <1>7 DEF GiveUpLock, Return
<1>8. ASSUME NEW p \in Procs, ObtainFails(p) PROVE KeepsUsableGrant
  BY <1>8 DEF ObtainFails, Return
<1>9. ASSUME NEW p \in Procs, UseStored(p) PROVE KeepsUsableGrant
  BY <1>9 DEF UseStored, Return
<1>10. ASSUME NEW p \in Procs, RejectFinally(p) PROVE KeepsUsableGrant
  BY <1>10 DEF RejectFinally, Return
<1>11. ASSUME NEW p \in Procs, StartRefresh(p) PROVE KeepsUsableGrant
  BY <1>11 DEF StartRefresh, Goto
<1>12. ASSUME NEW p \in Procs, SkipRefresh(p) PROVE KeepsUsableGrant
  BY <1>12 DEF SkipRefresh, Escalate, Goto, Return
<1>13. ASSUME NEW p \in Procs, Refresh(p) PROVE KeepsUsableGrant
  BY <1>13 DEF Refresh, Goto, Return, Blame, RefreshedToken
<1>14. ASSUME NEW p \in Procs, RefreshRefused(p) PROVE KeepsUsableGrant
  BY <1>14 DEF RefreshRefused, Goto
<1>15. ASSUME NEW p \in Procs, RefreshFails(p) PROVE KeepsUsableGrant
  BY <1>15 DEF RefreshFails, Return
<1>16. ASSUME NEW p \in Procs, DropGrant(p) PROVE KeepsUsableGrant
  BY <1>16 DEF DropGrant, Escalate, Goto, Return
<1>17. ASSUME NEW p \in Procs, SaveRefreshed(p) PROVE KeepsUsableGrant
  <2>1. store' = got[p] /\ got[p].acc # 0
    BY <1>17 DEF SaveRefreshed
  <2>2. QED
    BY <2>1
<1>18. ASSUME NEW p \in Procs, SaveRefreshedFails(p) PROVE KeepsUsableGrant
  BY <1>18 DEF SaveRefreshedFails, Return, Blame, Rotated
<1>19. ASSUME NEW p \in Procs, LoginFails(p) PROVE KeepsUsableGrant
  BY <1>19 DEF LoginFails, Return, Blame
<1>20. ASSUME NEW p \in Procs, SaveLogin(p) PROVE KeepsUsableGrant
  <2>1. store' = got[p] /\ got[p].acc # 0
    BY <1>20 DEF SaveLogin
  <2>2. QED
    BY <2>1
<1>21. ASSUME NEW p \in Procs, SaveLoginFails(p) PROVE KeepsUsableGrant
  BY <1>21 DEF SaveLoginFails, Return, Blame
<1>22. ASSUME NEW p \in Procs, LoginDone(p) PROVE KeepsUsableGrant
  BY <1>22 DEF LoginDone, Goto, Blame
<1>23. ASSUME NEW p \in Procs, Crash(p) PROVE KeepsUsableGrant
  BY <1>23 DEF Crash, Blame, Rotated
<1>24. CASE Logout
  BY <1>24 DEF Logout, Blame
<1>25. CASE Revoke
  BY <1>25 DEF Revoke, Blame
<1>26. CASE Expire
  BY <1>26 DEF Expire
<1>27. CASE Rest
  BY <1>27 DEF Rest, vars
<1>28. QED
  BY <1>1, <1>2, <1>3, <1>4, <1>5, <1>6, <1>7, <1>8, <1>9, <1>10, <1>11, <1>12, <1>13, <1>14, <1>15, <1>16, <1>17, <1>18, <1>19, <1>20, <1>21, <1>22, <1>23, <1>24, <1>25, <1>26, <1>27 DEF Next, Advance

\* Only logout removes a token whose refresh token the AS still accepts.
THEOREM GrantKept == Spec => UsableGrantKept
<1>1. IInv /\ [Next]_vars => [KeepsUsableGrant]_vars
  BY GrantStep
<1>2. QED
  BY <1>1, Invariance, PTL DEF Spec, UsableGrantKept, KeepsUsableGrant

-----------------------------------------------------------------------------
(* The windows.                                                            *)

\* Where a call has not yet chosen a rung of obtain.
Undecided == {"fast", "lock", "reload", "refresh", "badgrant"}

\* Calls whose 401 said "expired": Call has counted that as a cause, and the
\* window it may lead to is still to come.
Charged == {p \in Procs : stale[p] /\ pc[p] \in Undecided}

\* The last window is still good for something: its login goes on, or led to a
\* refresh token that the AS accepts and that is stored or about to be.
Spoken ==
    \/ \E p \in Procs : pc[p] = "login"
    \/ \E p \in Procs : pc[p] = "saveL" /\ got[p].ref \in valid
    \/ \E p \in Procs : pc[p] = "saveR" /\ Rotated(p) /\ got[p].ref \in valid
    \/ (\A p \in Procs : pc[p] # "saveL") /\ store.ref \in valid

\* Every cause pays for one window, and every charged call has one to its
\* name; the window beyond the causes was opened only if it is still good.
WindowInv ==
    /\ \A p \in Commands : ~stale[p]
    /\ IsFiniteSet(Charged)
    /\ windows + Cardinality(Charged) <= causes + (IF Spoken THEN 1 ELSE 0)

\* What a step of p leaves alone.
OthersStay(p) ==
    \A q \in Procs \ {p} :
        /\ pc'[q] = pc[q] /\ stale'[q] = stale[q]
        /\ got'[q] = got[q] /\ loaded'[q] = loaded[q]

\* A step that opens no window may lose the good one only for a cause.
LEMMA NoWindow ==
    ASSUME TypeOK, TypeOK', WindowInv, windows' = windows,
           Charged' \subseteq Charged, \A p \in Commands : ~stale'[p],
           \/ causes' = causes /\ (Spoken => Spoken')
           \/ causes' = causes + 1
    PROVE  WindowInv'
<1> DEFINE C == Charged
           D == Charged'
<1>1. IsFiniteSet(C) /\ windows + Cardinality(C) <= causes + (IF Spoken THEN 1 ELSE 0)
  BY DEF WindowInv
<1>2. D \subseteq C
  OBVIOUS
<1> HIDE DEF C, D
<1>3. IsFiniteSet(D) /\ Cardinality(D) <= Cardinality(C)
  BY <1>1, <1>2, FS_Subset
<1>4. Cardinality(C) \in Nat /\ Cardinality(D) \in Nat
  BY <1>1, <1>3, FS_CardinalityType
<1>5. windows \in Nat /\ causes \in Nat
  BY DEF TypeOK
<1>6. windows' + Cardinality(D) <= causes' + (IF Spoken' THEN 1 ELSE 0)
  BY <1>1, <1>3, <1>4, <1>5
<1>7. QED
  BY <1>3, <1>6 DEF WindowInv, D

\* A call that reports an expired token brings its cause along.
LEMMA OneCharged ==
    ASSUME TypeOK, WindowInv, NEW p, windows' = windows,
           Charged' \subseteq Charged \cup {p}, \A q \in Commands : ~stale'[q],
           causes' = causes + 1, Spoken => Spoken'
    PROVE  WindowInv'
<1> DEFINE C == Charged
           D == Charged'
<1>1. IsFiniteSet(C) /\ windows + Cardinality(C) <= causes + (IF Spoken THEN 1 ELSE 0)
  BY DEF WindowInv
<1>2. D \subseteq C \cup {p}
  OBVIOUS
<1> HIDE DEF C, D
<1>3. /\ IsFiniteSet(C \cup {p})
      /\ Cardinality(C) \in Nat
      /\ Cardinality(C \cup {p}) \in {Cardinality(C), Cardinality(C) + 1}
  BY <1>1, FS_AddElement, FS_CardinalityType
<1>4. IsFiniteSet(D) /\ Cardinality(D) <= Cardinality(C \cup {p})
  BY <1>2, <1>3, FS_Subset
<1>5. Cardinality(D) \in Nat
  BY <1>4, FS_CardinalityType
<1>6. windows \in Nat /\ causes \in Nat
  BY DEF TypeOK
<1>7. Cardinality(D) <= Cardinality(C) + 1
  BY <1>3, <1>4, <1>5
<1>8. windows' + Cardinality(D) <= causes' + (IF Spoken' THEN 1 ELSE 0)
  BY <1>1, <1>3, <1>5, <1>6, <1>7
<1>9. QED
  BY <1>4, <1>8 DEF WindowInv, D

\* A window opens when the last one is good for nothing any more, or for a
\* call that has been charged for it.
LEMMA OneWindow ==
    ASSUME TypeOK, WindowInv, NEW p, windows' = windows + 1,
           Charged' \subseteq Charged \ {p}, \A q \in Commands : ~stale'[q],
           causes' = causes, Spoken', ~Spoken \/ p \in Charged
    PROVE  WindowInv'
<1> DEFINE C == Charged
           D == Charged'
<1>1. IsFiniteSet(C) /\ windows + Cardinality(C) <= causes + (IF Spoken THEN 1 ELSE 0)
  BY DEF WindowInv
<1>2. D \subseteq C \ {p} /\ (~Spoken \/ p \in C)
  OBVIOUS
<1> HIDE DEF C, D
<1>3. /\ IsFiniteSet(C \ {p})
      /\ Cardinality(C) \in Nat
      /\ Cardinality(C \ {p}) \in Nat
      /\ Cardinality(C \ {p}) = IF p \in C THEN Cardinality(C) - 1 ELSE Cardinality(C)
  BY <1>1, FS_RemoveElement, FS_CardinalityType
<1>4. IsFiniteSet(D) /\ Cardinality(D) <= Cardinality(C \ {p})
  BY <1>2, <1>3, FS_Subset
<1>5. Cardinality(D) \in Nat
  BY <1>4, FS_CardinalityType
<1>6. windows \in Nat /\ causes \in Nat
  BY DEF TypeOK
<1>7. windows' + Cardinality(D) <= causes' + (IF Spoken' THEN 1 ELSE 0)
  BY <1>1, <1>2, <1>3, <1>4, <1>5, <1>6
<1>8. QED
  BY <1>4, <1>7 DEF WindowInv, D

\* The calls of the other processes stay charged.
LEMMA NotCharged ==
    ASSUME NEW p \in Procs, OthersStay(p), pc'[p] \notin Undecided
    PROVE  Charged' \subseteq Charged \ {p}
BY DEF OthersStay, Charged

LEMMA StillCharged ==
    ASSUME NEW p \in Procs, OthersStay(p), stale'[p] = stale[p],
           pc'[p] \in Undecided => pc[p] \in Undecided
    PROVE  Charged' \subseteq Charged
BY DEF OthersStay, Charged

\* A step that stores nothing, and of a process that holds no answer.
LEMMA StillSpoken ==
    ASSUME NEW p \in Procs, OthersStay(p), UNCHANGED <<store, valid>>,
           pc[p] \notin {"login", "saveL", "saveR"}, pc'[p] # "saveL"
    PROVE  Spoken => Spoken'
BY DEF OthersStay, Spoken, Rotated

\* Of the others nobody is in the part of a call that needs the lock.
OthersOut(p) == \A q \in Procs \ {p} : pc[q] \notin Critical

\* What Spoken says then.
SpokenAt(p) ==
    \/ pc[p] = "login"
    \/ pc[p] = "saveL" /\ got[p].ref \in valid
    \/ pc[p] = "saveR" /\ Rotated(p) /\ got[p].ref \in valid
    \/ pc[p] # "saveL" /\ store.ref \in valid

\* The holder of the lock is the only one with an answer ...
LEMMA HolderSpoke ==
    ASSUME NEW p \in Procs, OthersOut(p)
    PROVE  Spoken <=> SpokenAt(p)
<1>1. \A q \in Procs : pc[q] \in {"login", "saveL", "saveR"} => q = p
  BY DEF OthersOut, Critical
<1>2. (\A q \in Procs : pc[q] # "saveL") <=> pc[p] # "saveL"
  BY <1>1
<1>3. QED
  BY <1>1, <1>2 DEF Spoken, SpokenAt

\* ... and still is after its step.
LEMMA HolderSpeaks ==
    ASSUME NEW p \in Procs, OthersOut(p), OthersStay(p)
    PROVE  Spoken' <=> SpokenAt(p)'
<1>1. \A q \in Procs : pc'[q] \in {"login", "saveL", "saveR"} => q = p
  BY DEF OthersOut, OthersStay, Critical
<1>2. (\A q \in Procs : pc'[q] # "saveL") <=> pc'[p] # "saveL"
  BY <1>1
<1>3. QED
  BY <1>1, <1>2 DEF Spoken, SpokenAt

LEMMA HolderAlone ==
    ASSUME LockInv, NEW p \in Procs, pc[p] \in Critical
    PROVE  OthersOut(p)
BY DEF LockInv, OthersOut

\* Every step pays for the window it opens or the good window it wastes.
LEMMA WindowStep ==
    ASSUME TypeOK, LockInv, StoreInv, ChainInv, WindowInv, [Next]_vars
    PROVE  WindowInv'
<1> USE ConstantsAssumption DEF TypeOK, Procs, Undecided, ctl, disk, as, mem, call, hist
<1>0. TypeOK'
  BY TypeStep
<1>1. CASE UNCHANGED vars
  <2>1. UNCHANGED <<windows, causes, stale>> /\ Charged' = Charged /\ Spoken' = Spoken
    BY <1>1 DEF vars, Charged, Spoken, Rotated
  <2>2. QED
    BY <1>0, <2>1, NoWindow DEF WindowInv
<1>2. ASSUME NEW p \in Bridges, Call(p) PROVE WindowInv'
  <2>1. PICK s \in BOOLEAN :
          /\ stale' = [stale EXCEPT ![p] = s]
          /\ Blame(IF s THEN 1 ELSE 0)
    BY <1>2 DEF Call
  <2>2. /\ OthersStay(p) /\ pc[p] = "idle" /\ pc'[p] = "fast"
        /\ stale'[p] = s
        /\ UNCHANGED <<store, valid, windows>>
    BY <1>2, <2>1 DEF OthersStay, Call, Goto
  <2>3. \A q \in Commands : ~stale'[q]
    BY <2>1 DEF WindowInv
  <2>4. Spoken => Spoken'
    BY <2>2, StillSpoken
  <2>5. CASE s
    <3>1. causes' = causes + 1
      BY <2>1, <2>5 DEF Blame
    <3>2. Charged' \subseteq Charged \cup {p}
      BY <2>2 DEF OthersStay, Charged
    <3>3. QED
      BY <2>2, <2>3, <2>4, <3>1, <3>2, OneCharged
  <2>6. CASE ~s
    <3>1. causes' = causes
      BY <2>1, <2>6 DEF Blame
    <3>2. Charged' \subseteq Charged
      BY <2>2, <2>6 DEF OthersStay, Charged
    <3>3. QED
      BY <1>0, <2>2, <2>3, <2>4, <3>1, <3>2, NoWindow
  <2>7. QED
    BY <2>5, <2>6
<1>3. ASSUME NEW p \in Commands, CallLogin(p) PROVE WindowInv'
  <2>1. OthersStay(p) /\ pc[p] = "idle" /\ pc'[p] = "lock" /\ UNCHANGED <<store, valid, stale, windows, causes>>
    BY <1>3 DEF OthersStay, CallLogin, Goto
  <2>2. Charged' \subseteq Charged
    BY <2>1 DEF OthersStay, Charged, WindowInv
  <2>3. Spoken => Spoken'
    BY <2>1, StillSpoken
  <2>4. QED
    BY <1>0, <2>1, <2>2, <2>3, NoWindow DEF WindowInv
<1>4. ASSUME NEW p \in Procs, Acquire(p) PROVE WindowInv'
  <2>1. OthersStay(p) /\ pc[p] = "lock" /\ pc'[p] \in {"login", "reload"} /\ UNCHANGED <<store, valid, stale, windows, causes>>
    BY <1>4 DEF OthersStay, Acquire, Goto
  <2>2. Charged' \subseteq Charged
    BY <2>1, StillCharged
  <2>3. Spoken => Spoken'
    BY <2>1, StillSpoken
  <2>4. QED
    BY <1>0, <2>1, <2>2, <2>3, NoWindow DEF WindowInv
<1>5. ASSUME NEW p \in Procs, FastHit(p) PROVE WindowInv'
  <2>1. OthersStay(p) /\ pc[p] = "fast" /\ pc'[p] = "idle" /\ UNCHANGED <<store, valid, stale, windows, causes>>
    BY <1>5 DEF OthersStay, FastHit, Return
  <2>2. Charged' \subseteq Charged
    BY <2>1, StillCharged
  <2>3. Spoken => Spoken'
    BY <2>1, StillSpoken
  <2>4. QED
    BY <1>0, <2>1, <2>2, <2>3, NoWindow DEF WindowInv
<1>6. ASSUME NEW p \in Procs, FastMiss(p) PROVE WindowInv'
  <2>1. OthersStay(p) /\ pc[p] = "fast" /\ pc'[p] = "lock" /\ UNCHANGED <<store, valid, stale, windows, causes>>
    BY <1>6 DEF OthersStay, FastMiss, Goto
  <2>2. Charged' \subseteq Charged
    BY <2>1, StillCharged
  <2>3. Spoken => Spoken'
    BY <2>1, StillSpoken
  <2>4. QED
    BY <1>0, <2>1, <2>2, <2>3, NoWindow DEF WindowInv
<1>7. ASSUME NEW p \in Procs, GiveUpLock(p) PROVE WindowInv'
  <2>1. OthersStay(p) /\ pc[p] = "lock" /\ pc'[p] = "idle" /\ UNCHANGED <<store, valid, stale, windows, causes>>
    BY <1>7 DEF OthersStay, GiveUpLock, Return
  <2>2. Charged' \subseteq Charged
    BY <2>1, StillCharged
  <2>3. Spoken => Spoken'
    BY <2>1, StillSpoken
  <2>4. QED
    BY <1>0, <2>1, <2>2, <2>3, NoWindow DEF WindowInv
<1>8. ASSUME NEW p \in Procs, ObtainFails(p) PROVE WindowInv'
  <2>1. OthersStay(p) /\ pc[p] = "reload" /\ pc'[p] = "idle" /\ UNCHANGED <<store, valid, stale, windows, causes>>
    BY <1>8 DEF OthersStay, ObtainFails, Return
  <2>2. Charged' \subseteq Charged
    BY <2>1, StillCharged
  <2>3. Spoken => Spoken'
    BY <2>1, StillSpoken
  <2>4. QED
    BY <1>0, <2>1, <2>2, <2>3, NoWindow DEF WindowInv
<1>9. ASSUME NEW p \in Procs, UseStored(p) PROVE WindowInv'
  <2>1. OthersStay(p) /\ pc[p] = "reload" /\ pc'[p] = "idle" /\ UNCHANGED <<store, valid, stale, windows, causes>>
    BY <1>9 DEF OthersStay, UseStored, Return
  <2>2. Charged' \subseteq Charged
    BY <2>1, StillCharged
  <2>3. Spoken => Spoken'
    BY <2>1, StillSpoken
  <2>4. QED
    BY <1>0, <2>1, <2>2, <2>3, NoWindow DEF WindowInv
<1>10. ASSUME NEW p \in Procs, RejectFinally(p) PROVE WindowInv'
  <2>1. OthersStay(p) /\ pc[p] = "reload" /\ pc'[p] = "idle" /\ UNCHANGED <<store, valid, stale, windows, causes>>
    BY <1>10 DEF OthersStay, RejectFinally, Return
  <2>2. Charged' \subseteq Charged
    BY <2>1, StillCharged
  <2>3. Spoken => Spoken'
    BY <2>1, StillSpoken
  <2>4. QED
    BY <1>0, <2>1, <2>2, <2>3, NoWindow DEF WindowInv
<1>11. ASSUME NEW p \in Procs, StartRefresh(p) PROVE WindowInv'
  <2>1. OthersStay(p) /\ pc[p] = "reload" /\ pc'[p] = "refresh" /\ UNCHANGED <<store, valid, stale, windows, causes>>
    BY <1>11 DEF OthersStay, StartRefresh, Goto
  <2>2. Charged' \subseteq Charged
    BY <2>1, StillCharged
  <2>3. Spoken => Spoken'
    BY <2>1, StillSpoken
  <2>4. QED
    BY <1>0, <2>1, <2>2, <2>3, NoWindow DEF WindowInv
<1>12. ASSUME NEW p \in Procs, SkipRefresh(p) PROVE WindowInv'
  <2>1. /\ OthersStay(p) /\ pc[p] = "reload" /\ pc'[p] \in {"login", "idle"}
        /\ UNCHANGED <<store, valid, stale, causes>>
    BY <1>12 DEF OthersStay, SkipRefresh, Escalate, Goto, Return
  <2>2. Charged' \subseteq Charged \ {p}
    BY <2>1, NotCharged
  <2>3. CASE pc'[p] = "login" /\ windows' = windows + 1
    <3>1. Spoken'
      BY <2>3 DEF Spoken
    <3>2. store.ref = 0 \/ p \in Charged
      BY <1>12, <2>1 DEF SkipRefresh, MayRefresh, GivesUp, SelfIssued, Charged
    <3>3. store.ref = 0 => ~Spoken
      BY <2>1, HolderAlone, HolderSpoke DEF Critical, SpokenAt
    <3>4. QED
      BY <2>1, <2>2, <2>3, <3>1, <3>2, <3>3, OneWindow DEF WindowInv
  <2>4. CASE pc'[p] = "idle" /\ windows' = windows
    <3>1. Spoken => Spoken'
      BY <2>1, <2>4, StillSpoken
    <3>2. QED
      BY <1>0, <2>1, <2>2, <2>4, <3>1, NoWindow DEF WindowInv
  <2>5. QED
    BY <1>12, <2>3, <2>4 DEF SkipRefresh, Escalate, Goto, Return
<1>13. ASSUME NEW p \in Procs, Refresh(p) PROVE WindowInv'
  <2>1. PICK rt \in {0, issued + 1} :
          /\ issued' = issued + 1
          /\ valid' = (valid \ Retired(p, rt)) \cup ({rt} \ {0})
          /\ \/ /\ got' = [got EXCEPT ![p] = RefreshedToken(loaded[p], issued + 1, rt)]
                /\ Goto(p, "saveR")
                /\ UNCHANGED <<loaded, orphaned, causes>>
             \/ /\ Blame(IF rt = 0 THEN 0 ELSE 1)
                /\ Return(p, 0)
    BY <1>13 DEF Refresh
  <2>2. /\ OthersStay(p) /\ pc[p] = "refresh" /\ loaded[p].ref \in valid
        /\ UNCHANGED <<store, stale, windows>>
    BY <1>13, <2>1 DEF OthersStay, Refresh, Goto, Return
  <2>3. pc'[p] \in {"saveR", "idle"}
    BY <2>1 DEF Goto, Return
  <2>4. Charged' \subseteq Charged
    BY <2>2, <2>3, NotCharged
  <2>5. /\ Spoken <=> SpokenAt(p)
        /\ Spoken' <=> SpokenAt(p)'
    BY <2>2, HolderAlone, HolderSpoke, HolderSpeaks DEF Critical
  <2>6. CASE rt = 0
    <3>1. valid' = valid /\ causes' = causes
      BY <2>1, <2>6 DEF Retired, Blame
    <3>2. Spoken => Spoken'
      BY <2>2, <2>3, <2>5, <3>1 DEF SpokenAt
    <3>3. QED
      BY <1>0, <2>2, <2>4, <3>1, <3>2, NoWindow DEF WindowInv
  <2>7. CASE rt # 0 /\ pc'[p] = "saveR"
    <3>1. got'[p].ref = rt /\ loaded'[p] = loaded[p] /\ causes' = causes
      BY <2>1, <2>7 DEF Goto, Return, RefreshedToken
    <3>2. got'[p].ref \in valid' /\ got'[p].ref # loaded'[p].ref
      BY <2>1, <2>2, <2>7, <3>1 DEF TokenType
    <3>3. Spoken'
      BY <2>5, <2>7, <3>2 DEF SpokenAt, Rotated
    <3>4. QED
      BY <1>0, <2>2, <2>4, <3>1, <3>3, NoWindow DEF WindowInv
  <2>8. CASE rt # 0 /\ pc'[p] = "idle"
    <3>1. causes' = causes + 1
      BY <2>1, <2>8 DEF Goto, Return, Blame
    <3>2. QED
      BY <1>0, <2>2, <2>4, <3>1, NoWindow DEF WindowInv
  <2>9. QED
    BY <2>3, <2>6, <2>7, <2>8
<1>14. ASSUME NEW p \in Procs, RefreshRefused(p) PROVE WindowInv'
  <2>1. OthersStay(p) /\ pc[p] = "refresh" /\ pc'[p] = "badgrant" /\ UNCHANGED <<store, valid, stale, windows, causes>>
    BY <1>14 DEF OthersStay, RefreshRefused, Goto
  <2>2. Charged' \subseteq Charged
    BY <2>1, StillCharged
  <2>3. Spoken => Spoken'
    BY <2>1, StillSpoken
  <2>4. QED
    BY <1>0, <2>1, <2>2, <2>3, NoWindow DEF WindowInv
<1>15. ASSUME NEW p \in Procs, RefreshFails(p) PROVE WindowInv'
  <2>1. OthersStay(p) /\ pc[p] = "refresh" /\ pc'[p] = "idle" /\ UNCHANGED <<store, valid, stale, windows, causes>>
    BY <1>15 DEF OthersStay, RefreshFails, Return
  <2>2. Charged' \subseteq Charged
    BY <2>1, StillCharged
  <2>3. Spoken => Spoken'
    BY <2>1, StillSpoken
  <2>4. QED
    BY <1>0, <2>1, <2>2, <2>3, NoWindow DEF WindowInv
<1>16. ASSUME NEW p \in Procs, DropGrant(p) PROVE WindowInv'
  <2>1. /\ OthersStay(p) /\ pc[p] = "badgrant" /\ pc'[p] \in {"login", "idle"}
        /\ UNCHANGED <<valid, stale, causes>>
    BY <1>16 DEF OthersStay, DropGrant, Escalate, Goto, Return
  <2>2. Charged' \subseteq Charged \ {p}
    BY <2>1, NotCharged
  <2>3. store.ref \notin valid
    BY <2>1 DEF StoreInv, ChainInv, NoToken
  <2>4. ~Spoken
    BY <2>1, <2>3, HolderAlone, HolderSpoke DEF Critical, SpokenAt
  <2>5. CASE pc'[p] = "login" /\ windows' = windows + 1
    <3>1. Spoken'
      BY <2>5 DEF Spoken
    <3>2. QED
      BY <2>1, <2>2, <2>4, <2>5, <3>1, OneWindow DEF WindowInv
  <2>6. CASE pc'[p] = "idle" /\ windows' = windows
    BY <1>0, <2>1, <2>2, <2>4, <2>6, NoWindow DEF WindowInv
  <2>7. QED
    BY <1>16, <2>5, <2>6 DEF DropGrant, Escalate, Goto, Return
<1>17. ASSUME NEW p \in Procs, SaveRefreshed(p) PROVE WindowInv'
  <2>1. /\ OthersStay(p) /\ pc[p] = "saveR" /\ pc'[p] = "idle"
        /\ UNCHANGED <<valid, stale, windows>>
        /\ store' = got[p] /\ causes' = causes
    BY <1>17 DEF OthersStay, SaveRefreshed, Return
  <2>2. Charged' \subseteq Charged
    BY <2>1, NotCharged
  <2>3. /\ Spoken <=> SpokenAt(p)
        /\ Spoken' <=> SpokenAt(p)'
    BY <2>1, HolderAlone, HolderSpoke, HolderSpeaks DEF Critical
  <2>4. Spoken => Spoken'
    <3>1. CASE Rotated(p)
      <4>1. store.ref \notin valid
        <5>1. loaded[p].ref \in spent /\ valid \cap spent = {}
          BY <2>1, <3>1 DEF ChainInv
        <5>2. store.ref \in {loaded[p].ref, 0}
          BY <2>1 DEF StoreInv, NoToken
        <5>3. 0 \notin valid
          OBVIOUS
        <5>4. QED
          BY <5>1, <5>2, <5>3
      <4>2. QED
        BY <2>1, <2>3, <4>1 DEF SpokenAt
    <3>2. CASE ~Rotated(p)
      <4>1. store.ref \in valid => store.ref = got[p].ref
        BY <2>1, <3>2 DEF StoreInv, Rotated, NoToken
      <4>2. QED
        BY <2>1, <2>3, <3>2, <4>1 DEF SpokenAt
    <3>3. QED
      BY <3>1, <3>2
  <2>5. QED
    BY <1>0, <2>1, <2>2, <2>4, NoWindow DEF WindowInv
<1>18. ASSUME NEW p \in Procs, SaveRefreshedFails(p) PROVE WindowInv'
  <2>1. /\ OthersStay(p) /\ pc[p] = "saveR" /\ pc'[p] = "idle"
        /\ UNCHANGED <<valid, stale, windows>>
        /\ store' = store /\ causes' = IF Rotated(p) THEN causes + 1 ELSE causes
    BY <1>18 DEF OthersStay, SaveRefreshedFails, Return, Blame
  <2>2. Charged' \subseteq Charged
    BY <2>1, NotCharged
  <2>3. /\ Spoken <=> SpokenAt(p)
        /\ Spoken' <=> SpokenAt(p)'
    BY <2>1, HolderAlone, HolderSpoke, HolderSpeaks DEF Critical
  <2>4. ~Rotated(p) => (Spoken => Spoken')
    BY <2>1, <2>3 DEF SpokenAt
  <2>5. QED
    BY <1>0, <2>1, <2>2, <2>4, NoWindow DEF WindowInv
<1>19. ASSUME NEW p \in Procs, LoginFails(p) PROVE WindowInv'
  <2>1. /\ OthersStay(p) /\ pc[p] = "login" /\ pc'[p] = "idle"
        /\ UNCHANGED <<stale, windows>>
        /\ causes' = causes + 1
    BY <1>19 DEF OthersStay, LoginFails, Return, Blame
  <2>2. Charged' \subseteq Charged
    BY <2>1, NotCharged
  <2>3. QED
    BY <1>0, <2>1, <2>2, NoWindow DEF WindowInv
<1>20. ASSUME NEW p \in Procs, SaveLogin(p) PROVE WindowInv'
  <2>1. /\ OthersStay(p) /\ pc[p] = "saveL" /\ pc'[p] = "idle"
        /\ UNCHANGED <<valid, stale, windows>>
        /\ store' = got[p] /\ causes' = causes
    BY <1>20 DEF OthersStay, SaveLogin, Return
  <2>2. Charged' \subseteq Charged
    BY <2>1, NotCharged
  <2>3. /\ Spoken <=> SpokenAt(p)
        /\ Spoken' <=> SpokenAt(p)'
    BY <2>1, HolderAlone, HolderSpoke, HolderSpeaks DEF Critical
  <2>4. Spoken => Spoken'
    BY <2>1, <2>3 DEF SpokenAt
  <2>5. QED
    BY <1>0, <2>1, <2>2, <2>4, NoWindow DEF WindowInv
<1>21. ASSUME NEW p \in Procs, SaveLoginFails(p) PROVE WindowInv'
  <2>1. /\ OthersStay(p) /\ pc[p] = "saveL" /\ pc'[p] = "idle"
        /\ UNCHANGED <<stale, windows>>
        /\ causes' = causes + 1
    BY <1>21 DEF OthersStay, SaveLoginFails, Return, Blame
  <2>2. Charged' \subseteq Charged
    BY <2>1, NotCharged
  <2>3. QED
    BY <1>0, <2>1, <2>2, NoWindow DEF WindowInv
<1>22. ASSUME NEW p \in Procs, LoginDone(p) PROVE WindowInv'
  <2>1. PICK rt \in {0, issued + 1} :
          /\ valid' = valid \cup ({rt} \ {0})
          /\ got' = [got EXCEPT ![p] = [acc |-> issued + 1, ref |-> rt]]
          /\ Blame(IF rt = 0 THEN 1 ELSE 0)
    BY <1>22 DEF LoginDone
  <2>2. /\ OthersStay(p) /\ pc'[p] = "saveL" /\ got'[p].ref = rt
        /\ UNCHANGED <<stale, windows>>
    BY <1>22, <2>1 DEF OthersStay, LoginDone, Goto
  <2>3. Charged' \subseteq Charged
    BY <2>2, NotCharged
  <2>4. CASE rt = 0
    <3>1. causes' = causes + 1
      BY <2>1, <2>4 DEF Blame
    <3>2. QED
      BY <1>0, <2>2, <2>3, <3>1, NoWindow DEF WindowInv
  <2>5. CASE rt # 0
    <3>1. causes' = causes
      BY <2>1, <2>5 DEF Blame
    <3>2. got'[p].ref \in valid'
      BY <2>1, <2>2, <2>5
    <3>3. Spoken'
      BY <2>2, <3>2 DEF Spoken
    <3>4. QED
      BY <1>0, <2>2, <2>3, <3>1, <3>3, NoWindow DEF WindowInv
  <2>6. QED
    BY <2>4, <2>5
<1>23. ASSUME NEW p \in Procs, Crash(p) PROVE WindowInv'
  <2>1. /\ OthersStay(p) /\ pc'[p] = "idle"
        /\ UNCHANGED <<store, valid, stale, windows>>
        /\ causes' = causes + (IF \/ pc[p] = "saveR" /\ Rotated(p)
                                  \/ pc[p] \in {"login", "saveL"} THEN 1 ELSE 0)
    BY <1>23 DEF OthersStay, Crash, Blame
  <2>2. Charged' \subseteq Charged
    BY <2>1, NotCharged
  <2>3. CASE pc[p] \in {"login", "saveL"} \/ (pc[p] = "saveR" /\ Rotated(p))
    <3>1. causes' = causes + 1
      BY <2>1, <2>3
    <3>2. QED
      BY <1>0, <2>1, <2>2, <3>1, NoWindow DEF WindowInv
  <2>4. CASE pc[p] \notin {"login", "saveL"} /\ ~(pc[p] = "saveR" /\ Rotated(p))
    <3>1. causes' = causes
      BY <2>1, <2>4
    <3>2. Spoken => Spoken'
      BY <2>1, <2>4 DEF OthersStay, Spoken, Rotated
    <3>3. QED
      BY <1>0, <2>1, <2>2, <3>1, <3>2, NoWindow DEF WindowInv
  <2>5. QED
    BY <2>3, <2>4
<1>24. CASE Logout
  <2>1. UNCHANGED <<stale, pc, windows>> /\ causes' = causes + 1
    BY <1>24 DEF Logout, Blame
  <2>2. Charged' = Charged
    BY <2>1 DEF Charged
  <2>3. QED
    BY <1>0, <2>1, <2>2, NoWindow DEF WindowInv
<1>25. CASE Revoke
  <2>1. UNCHANGED <<stale, pc, windows>> /\ causes' = causes + 1
    BY <1>25 DEF Revoke, Blame
  <2>2. Charged' = Charged
    BY <2>1 DEF Charged
  <2>3. QED
    BY <1>0, <2>1, <2>2, NoWindow DEF WindowInv
<1>26. CASE Expire
  <2>1. UNCHANGED <<store, valid, pc, got, loaded, stale, windows, causes>>
    BY <1>26 DEF Expire, vars
  <2>2. Charged' = Charged /\ Spoken' = Spoken
    BY <2>1 DEF Charged, Spoken, Rotated
  <2>3. QED
    BY <1>0, <2>1, <2>2, NoWindow DEF WindowInv
<1>27. CASE Rest
  <2>1. UNCHANGED <<store, valid, pc, got, loaded, stale, windows, causes>>
    BY <1>27 DEF Rest, vars
  <2>2. Charged' = Charged /\ Spoken' = Spoken
    BY <2>1 DEF Charged, Spoken, Rotated
  <2>3. QED
    BY <1>0, <2>1, <2>2, NoWindow DEF WindowInv
<1>28. QED
  BY <1>1, <1>2, <1>3, <1>4, <1>5, <1>6, <1>7, <1>8, <1>9, <1>10, <1>11, <1>12, <1>13, <1>14, <1>15, <1>16, <1>17, <1>18, <1>19, <1>20, <1>21, <1>22, <1>23, <1>24, <1>25, <1>26, <1>27 DEF Next, Advance

\* At the start nobody is charged and no window is open.
LEMMA InitWindow == Init => WindowInv
<1>1. Init => Charged = {}
  BY DEF Init, Charged, Undecided
<1>2. QED
  BY <1>1, FS_EmptySet, ConstantsAssumption DEF Init, WindowInv, Procs

\* Browser windows are bounded by what calls for them (flow.go: obtain; lock.go:
\* WithLock): one for the first login, and one for each event that costs the
\* processes their refresh token or reports a token expired - for any number
\* of processes and calls, whatever fails.
THEOREM WindowsBounded == Spec => []WindowsJustified
<1>1. Init => WindowInv
  BY InitWindow
<1>2. IInv /\ WindowInv /\ [Next]_vars => WindowInv'
  BY WindowStep DEF IInv
<1>3. IInv /\ WindowInv => WindowsJustified
  <2>1. IInv /\ WindowInv => Cardinality(Charged) \in Nat
    BY FS_CardinalityType DEF WindowInv
  <2>2. QED
    BY <2>1 DEF IInv, TypeOK, WindowInv, WindowsJustified
<1>4. QED
  BY <1>1, <1>2, <1>3, Invariance, PTL DEF Spec

-----------------------------------------------------------------------------
(* TokenFlow implements GrantCell. At most one process works on a token,   *)
(* since it holds the lock (LockInv): while it does the cell is its token, *)
(* and otherwise the cell is the store.                                    *)

\* The places in obtain where a process has a token that is not the stored one.
Working == {"refresh", "badgrant", "saveR", "saveL"}

TokenOf(p) == IF pc[p] \in {"saveR", "saveL"} THEN got[p] ELSE loaded[p]

\* What a step of p does not touch: the other processes.
OnlyAt(p) ==
    /\ pc' \in [Procs -> States]
    /\ \A q \in Procs \ {p} :
         pc'[q] = pc[q] /\ got'[q] = got[q] /\ loaded'[q] = loaded[q]

-----------------------------------------------------------------------------
(* The refinement mapping.                                                 *)

\* Only the holder of the lock can be at work.
LEMMA CellHeld ==
    ASSUME TypeOK, LockInv, NEW p \in Procs, pc[p] \in Working
    PROVE  Cell = TokenOf(p)
<1> DEFINE holders == {q \in Procs : pc[q] \in Working}
<1>1. \A q \in holders : q = p
  BY DEF LockInv, Working, Critical
<1>2. holders = {p}
  BY <1>1
<1>3. (CHOOSE q \in holders : TRUE) = p
  BY <1>2
<1>4. QED
  BY <1>2, <1>3 DEF Cell, TokenOf, Working

\* While nobody is at work the cell is the store.
LEMMA CellFree ==
    ASSUME \A q \in Procs : pc[q] \notin Working
    PROVE  Cell = store
BY DEF Cell, Working

\* A step of a process that is not at work before or after leaves the cell.
LEMMA CellSame ==
    ASSUME NEW p \in Procs, OnlyAt(p), store' = store,
           pc[p] \notin Working, pc'[p] \notin Working
    PROVE  Cell' = Cell
<1> DEFINE holders == {q \in Procs : pc[q] \in Working}
<1> DEFINE holders1 == {q \in Procs : pc'[q] \in Working}
<1>1. holders1 = holders
  BY DEF OnlyAt
<1>2. CASE holders = {}
  BY <1>1, <1>2 DEF Cell, Working
<1>3. CASE holders # {}
  <2> DEFINE h == CHOOSE q \in holders : TRUE
  <2>1. h \in holders /\ h # p
    BY <1>3
  <2>2. pc'[h] = pc[h] /\ got'[h] = got[h] /\ loaded'[h] = loaded[h]
    BY <2>1 DEF OnlyAt
  <2>3. Cell = TokenOf(h)
    BY <1>3 DEF Cell, TokenOf, Working
  <2>4. Cell' = IF pc'[h] \in {"saveR", "saveL"} THEN got'[h] ELSE loaded'[h]
    <3>1. (CHOOSE q \in holders1 : TRUE) = h
      BY <1>1
    <3>2. QED
      BY <1>1, <1>3, <3>1 DEF Cell, Working
  <2>5. QED
    BY <2>2, <2>3, <2>4 DEF TokenOf
<1>4. QED
  BY <1>2, <1>3

\* When a process that holds the lock stops working, nobody works.
LEMMA CellLeft ==
    ASSUME LockInv, NEW p \in Procs, OnlyAt(p),
           pc[p] \in Critical, pc'[p] \notin Working
    PROVE  Cell' = store'
<1>1. \A q \in Procs : pc'[q] \notin Working
  BY DEF LockInv, OnlyAt, Working, Critical
<1>2. QED
  BY <1>1 DEF Cell, Working

\* When a process that holds the lock works, the cell becomes its token.
LEMMA CellEntered ==
    ASSUME LockInv, NEW p \in Procs, OnlyAt(p),
           pc[p] \in Critical, pc'[p] \in Working
    PROVE  Cell' = IF pc'[p] \in {"saveR", "saveL"} THEN got'[p] ELSE loaded'[p]
<1> DEFINE holders1 == {q \in Procs : pc'[q] \in Working}
<1>1. holders1 = {p}
  BY DEF LockInv, OnlyAt, Working, Critical
<1>2. (CHOOSE q \in holders1 : TRUE) = p
  BY <1>1
<1>3. QED
  BY <1>1, <1>2 DEF Cell, Working

\* Before it starts, a process that holds the lock finds the cell in the store.
LEMMA CellAwaited ==
    ASSUME LockInv, NEW p \in Procs, pc[p] \in Critical, pc[p] \notin Working
    PROVE  Cell = store
<1>1. \A q \in Procs : pc[q] \notin Working
  BY DEF LockInv, Working, Critical
<1>2. QED
  BY <1>1, CellFree

-----------------------------------------------------------------------------
(* Every step of TokenFlow is a step of GrantCell or none.                 *)

LEMMA CellStep ==
    ASSUME IInv, [Next]_vars
    PROVE  [Grant!Next]_(Grant!cellVars)
<1> USE DEF IInv, Grant!cellVars
<1> DEFINE Goal == [Grant!Next]_(Grant!cellVars)
<1>1. CASE UNCHANGED vars
  <2>1. Cell' = Cell
    BY <1>1 DEF vars, ctl, disk, Cell
  <2>2. QED
    BY <1>1, <2>1 DEF vars, disk, as
\* A step of p that changes neither what the AS knows nor the store, and leads
\* neither to work nor from it.
<1>2. ASSUME NEW p \in Procs, OnlyAt(p), pc[p] \notin Working, pc'[p] \notin Working,
             UNCHANGED <<store, issued, valid, spent>>
      PROVE  Goal
  BY <1>2, CellSame
\* A step of p that ends its work, and leaves everything but the cell alone.
<1>3. ASSUME NEW p \in Procs, OnlyAt(p), pc[p] \in Critical, pc'[p] \notin Working,
             UNCHANGED <<store, issued, valid, spent>>
      PROVE  Goal
  <2>1. Cell' = store
    BY <1>3, CellLeft
  <2>2. Grant!Abandon
    BY <1>3, <2>1 DEF Grant!Abandon
  <2>3. QED
    BY <2>2 DEF Grant!Next
<1>4. ASSUME NEW p \in Bridges, Call(p) PROVE Goal
  <2>1. /\ OnlyAt(p) /\ pc[p] \notin Working /\ pc'[p] \notin Working
        /\ UNCHANGED <<store, issued, valid, spent>>
    BY <1>4 DEF Call, Goto, OnlyAt, TypeOK, States, Working, Procs, disk, as
  <2>2. QED
    BY <2>1, <1>2 DEF Procs
<1>5. ASSUME NEW p \in Commands, CallLogin(p) PROVE Goal
  <2>1. /\ OnlyAt(p) /\ pc[p] \notin Working /\ pc'[p] \notin Working
        /\ UNCHANGED <<store, issued, valid, spent>>
    BY <1>5 DEF CallLogin, Goto, OnlyAt, TypeOK, States, Working, Procs, disk, as
  <2>2. QED
    BY <2>1, <1>2 DEF Procs
<1>6. ASSUME NEW p \in Procs, Acquire(p) PROVE Goal
  <2>1. /\ OnlyAt(p) /\ pc[p] \notin Working /\ pc'[p] \notin Working
        /\ UNCHANGED <<store, issued, valid, spent>>
    BY <1>6 DEF Acquire, OnlyAt, TypeOK, States, Working, Procs, disk, as
  <2>2. QED
    BY <2>1, <1>2 DEF Procs
<1>7. ASSUME NEW p \in Procs, FastHit(p) PROVE Goal
  <2>1. /\ OnlyAt(p) /\ pc[p] \notin Working /\ pc'[p] \notin Working
        /\ UNCHANGED <<store, issued, valid, spent>>
    BY <1>7 DEF FastHit, Return, OnlyAt, TypeOK, States, Working, Procs, disk, as
  <2>2. QED
    BY <2>1, <1>2 DEF Procs
<1>8. ASSUME NEW p \in Procs, FastMiss(p) PROVE Goal
  <2>1. /\ OnlyAt(p) /\ pc[p] \notin Working /\ pc'[p] \notin Working
        /\ UNCHANGED <<store, issued, valid, spent>>
    BY <1>8 DEF FastMiss, Goto, OnlyAt, TypeOK, States, Working, Procs, disk, as
  <2>2. QED
    BY <2>1, <1>2 DEF Procs
<1>9. ASSUME NEW p \in Procs, GiveUpLock(p) PROVE Goal
  <2>1. /\ OnlyAt(p) /\ pc[p] \notin Working /\ pc'[p] \notin Working
        /\ UNCHANGED <<store, issued, valid, spent>>
    BY <1>9 DEF GiveUpLock, Return, OnlyAt, TypeOK, States, Working, Procs, disk, as
  <2>2. QED
    BY <2>1, <1>2 DEF Procs
<1>10. ASSUME NEW p \in Procs, ObtainFails(p) PROVE Goal
  <2>1. /\ OnlyAt(p) /\ pc[p] \notin Working /\ pc'[p] \notin Working
        /\ UNCHANGED <<store, issued, valid, spent>>
    BY <1>10 DEF ObtainFails, Return, OnlyAt, TypeOK, States, Working, Procs, disk, as
  <2>2. QED
    BY <2>1, <1>2 DEF Procs
<1>11. ASSUME NEW p \in Procs, UseStored(p) PROVE Goal
  <2>1. /\ OnlyAt(p) /\ pc[p] \notin Working /\ pc'[p] \notin Working
        /\ UNCHANGED <<store, issued, valid, spent>>
    BY <1>11 DEF UseStored, Return, OnlyAt, TypeOK, States, Working, Procs, disk, as
  <2>2. QED
    BY <2>1, <1>2 DEF Procs
<1>12. ASSUME NEW p \in Procs, RejectFinally(p) PROVE Goal
  <2>1. /\ OnlyAt(p) /\ pc[p] \notin Working /\ pc'[p] \notin Working
        /\ UNCHANGED <<store, issued, valid, spent>>
    BY <1>12 DEF RejectFinally, Return, OnlyAt, TypeOK, States, Working, Procs, disk, as
  <2>2. QED
    BY <2>1, <1>2 DEF Procs
<1>13. ASSUME NEW p \in Procs, SkipRefresh(p) PROVE Goal
  <2>1. /\ OnlyAt(p) /\ pc[p] \notin Working /\ pc'[p] \notin Working
        /\ UNCHANGED <<store, issued, valid, spent>>
    BY <1>13 DEF SkipRefresh, Escalate, Goto, Return, OnlyAt, TypeOK, States, Working, Procs, disk, as
  <2>2. QED
    BY <2>1, <1>2 DEF Procs
<1>14. ASSUME NEW p \in Procs, LoginFails(p) PROVE Goal
  <2>1. /\ OnlyAt(p) /\ pc[p] \notin Working /\ pc'[p] \notin Working
        /\ UNCHANGED <<store, issued, valid, spent>>
    BY <1>14 DEF LoginFails, Return, Blame, OnlyAt, TypeOK, States, Working, Procs, disk, as
  <2>2. QED
    BY <2>1, <1>2 DEF Procs
<1>15. ASSUME NEW p \in Procs, RefreshFails(p) PROVE Goal
  <2>1. /\ OnlyAt(p) /\ pc[p] \in Critical /\ pc'[p] \notin Working
        /\ UNCHANGED <<store, issued, valid, spent>>
    BY <1>15 DEF RefreshFails, Return, OnlyAt, TypeOK, States, Critical, Working, disk, as
  <2>2. QED
    BY <2>1, <1>3
<1>16. ASSUME NEW p \in Procs, SaveRefreshedFails(p) PROVE Goal
  <2>1. /\ OnlyAt(p) /\ pc[p] \in Critical /\ pc'[p] \notin Working
        /\ UNCHANGED <<store, issued, valid, spent>>
    BY <1>16 DEF SaveRefreshedFails, Return, Blame, OnlyAt, TypeOK, States, Critical, Working, disk, as
  <2>2. QED
    BY <2>1, <1>3
<1>17. ASSUME NEW p \in Procs, SaveLoginFails(p) PROVE Goal
  <2>1. /\ OnlyAt(p) /\ pc[p] \in Critical /\ pc'[p] \notin Working
        /\ UNCHANGED <<store, issued, valid, spent>>
    BY <1>17 DEF SaveLoginFails, Return, Blame, OnlyAt, TypeOK, States, Critical, Working, disk, as
  <2>2. QED
    BY <2>1, <1>3
<1>18. ASSUME NEW p \in Procs, StartRefresh(p) PROVE Goal
  <2>1. /\ OnlyAt(p) /\ pc[p] = "reload" /\ pc'[p] = "refresh" /\ loaded'[p] = store
        /\ UNCHANGED <<store, issued, valid, spent>>
    BY <1>18 DEF StartRefresh, Goto, OnlyAt, TypeOK, States, disk, as
  <2>2. Cell = store
    BY <2>1, CellAwaited DEF Critical, Working
  <2>3. Cell' = store
    BY <2>1, CellEntered DEF Critical, Working
  <2>4. QED
    BY <2>1, <2>2, <2>3
<1>19. ASSUME NEW p \in Procs, RefreshRefused(p) PROVE Goal
  <2>1. /\ OnlyAt(p) /\ pc[p] = "refresh" /\ pc'[p] = "badgrant" /\ loaded'[p] = loaded[p]
        /\ UNCHANGED <<store, issued, valid, spent>>
    BY <1>19 DEF RefreshRefused, Goto, OnlyAt, TypeOK, States, disk, as
  <2>2. Cell = loaded[p]
    BY <2>1, CellHeld DEF TokenOf, Working
  <2>3. Cell' = loaded[p]
    BY <2>1, CellEntered DEF Critical, Working
  <2>4. QED
    BY <2>1, <2>2, <2>3
<1>20. ASSUME NEW p \in Procs, Refresh(p) PROVE Goal
  <2>1. PICK rt \in {0, issued + 1} :
         /\ issued' = issued + 1
         /\ valid' = (valid \ Retired(p, rt)) \cup ({rt} \ {0})
         /\ spent' = spent \cup Retired(p, rt)
         /\ \/ /\ got' = [got EXCEPT ![p] = RefreshedToken(loaded[p], issued + 1, rt)]
               /\ Goto(p, "saveR")
               /\ UNCHANGED loaded
            \/ Return(p, 0)
    BY <1>20 DEF Refresh
  <2>2. pc[p] = "refresh" /\ loaded[p].ref \in valid /\ store' = store
    BY <1>20 DEF Refresh, disk
  <2>3. Cell = loaded[p]
    BY <2>2, CellHeld DEF TokenOf, Working
  <2>4. Cell' \in {[acc |-> issued + 1, ref |-> IF rt = 0 THEN Cell.ref ELSE rt], store}
    <3>1. CASE /\ got' = [got EXCEPT ![p] = RefreshedToken(loaded[p], issued + 1, rt)]
               /\ Goto(p, "saveR")
               /\ UNCHANGED loaded
      <4>1. OnlyAt(p) /\ pc'[p] = "saveR"
        BY <3>1 DEF Goto, OnlyAt, TypeOK, States
      <4>2. got'[p] = RefreshedToken(loaded[p], issued + 1, rt)
        BY <3>1 DEF TypeOK
      <4>3. QED
        BY <2>2, <2>3, <4>1, <4>2, CellEntered DEF RefreshedToken, Critical, Working
    <3>2. CASE Return(p, 0)
      <4>1. OnlyAt(p) /\ pc'[p] = "idle"
        BY <3>2 DEF Return, OnlyAt, TypeOK, States
      <4>2. QED
        BY <2>2, <4>1, CellLeft DEF Critical, Working
    <3>3. QED
      BY <2>1, <3>1, <3>2
  <2>5. Retired(p, rt) = IF rt = 0 THEN {} ELSE {Cell.ref}
    BY <2>3 DEF Retired
  <2>6. Grant!Renew
    BY <2>1, <2>2, <2>3, <2>4, <2>5 DEF Grant!Renew
  <2>7. QED
    BY <2>6 DEF Grant!Next
<1>21. ASSUME NEW p \in Procs, DropGrant(p) PROVE Goal
  <2>1. /\ OnlyAt(p) /\ pc[p] = "badgrant" /\ pc'[p] \notin Working
        /\ store' = NoToken \/ store' = store
        /\ UNCHANGED <<issued, valid, spent>>
    BY <1>21 DEF DropGrant, Escalate, Goto, Return, OnlyAt, TypeOK, States, Working, as
  <2>2. Cell' = store'
    BY <2>1, CellLeft DEF Critical
  <2>3. CASE store' = store
    BY <2>1, <2>3, <1>3 DEF Critical
  <2>4. CASE store' = NoToken
    <3>1. Grant!Forget
      BY <2>1, <2>2, <2>4 DEF Grant!Forget, Grant!NoToken, NoToken
    <3>2. QED
      BY <3>1 DEF Grant!Next
  <2>5. QED
    BY <2>1, <2>3, <2>4
<1>22. ASSUME NEW p \in Procs, SaveRefreshed(p) PROVE Goal
  <2>1. /\ OnlyAt(p) /\ pc[p] = "saveR" /\ pc'[p] = "idle" /\ store' = got[p]
        /\ UNCHANGED <<issued, valid, spent>>
    BY <1>22 DEF SaveRefreshed, Return, OnlyAt, TypeOK, States, as
  <2>2. Cell = got[p]
    BY <2>1, CellHeld DEF TokenOf, Working
  <2>3. Cell' = store'
    BY <2>1, CellLeft DEF Critical, Working
  <2>4. Grant!Persist
    BY <2>1, <2>2, <2>3 DEF Grant!Persist
  <2>5. QED
    BY <2>4 DEF Grant!Next
<1>23. ASSUME NEW p \in Procs, SaveLogin(p) PROVE Goal
  <2>1. /\ OnlyAt(p) /\ pc[p] = "saveL" /\ pc'[p] = "idle" /\ store' = got[p]
        /\ UNCHANGED <<issued, valid, spent>>
    BY <1>23 DEF SaveLogin, Return, OnlyAt, TypeOK, States, as
  <2>2. Cell = got[p]
    BY <2>1, CellHeld DEF TokenOf, Working
  <2>3. Cell' = store'
    BY <2>1, CellLeft DEF Critical, Working
  <2>4. Grant!Persist
    BY <2>1, <2>2, <2>3 DEF Grant!Persist
  <2>5. QED
    BY <2>4 DEF Grant!Next
<1>24. ASSUME NEW p \in Procs, LoginDone(p) PROVE Goal
  <2>1. PICK rt \in {0, issued + 1} :
         /\ issued' = issued + 1
         /\ valid' = valid \cup ({rt} \ {0})
         /\ got' = [got EXCEPT ![p] = [acc |-> issued + 1, ref |-> rt]]
    BY <1>24 DEF LoginDone
  <2>2. /\ OnlyAt(p) /\ pc[p] = "login" /\ pc'[p] = "saveL"
        /\ got'[p] = [acc |-> issued + 1, ref |-> rt]
        /\ UNCHANGED <<store, spent>>
    BY <1>24, <2>1 DEF LoginDone, Goto, OnlyAt, TypeOK, States, disk
  <2>3. Cell' = got'[p]
    BY <2>2, CellEntered DEF Critical, Working
  <2>4. Grant!Login
    BY <2>1, <2>2, <2>3 DEF Grant!Login
  <2>5. QED
    BY <2>4 DEF Grant!Next
<1>25. ASSUME NEW p \in Procs, Crash(p) PROVE Goal
  <2>1. /\ OnlyAt(p) /\ pc'[p] = "idle" /\ UNCHANGED <<store, issued, valid, spent>>
    BY <1>25 DEF Crash, OnlyAt, TypeOK, States, disk
  <2>2. CASE pc[p] \in Working
    BY <2>1, <2>2, <1>3 DEF Working, Critical
  <2>3. CASE pc[p] \notin Working
    BY <2>1, <2>3, <1>2 DEF Working
  <2>4. QED
    BY <2>2, <2>3
<1>26. CASE Logout
  <2>1. /\ store' = NoToken /\ UNCHANGED <<pc, got, loaded, issued, valid, spent>>
    BY <1>26 DEF Logout, as, ctl
  <2>2. Cell' \in {Cell, NoToken}
    <3>1. CASE \A q \in Procs : pc[q] \notin Working
      BY <2>1, <3>1 DEF Cell, Working
    <3>2. CASE \E q \in Procs : pc[q] \in Working
      BY <2>1, <3>2 DEF Cell, Working
    <3>3. QED
      BY <3>1, <3>2
  <2>3. Grant!Forget
    BY <2>1, <2>2 DEF Grant!Forget, Grant!NoToken, NoToken
  <2>4. QED
    BY <2>3 DEF Grant!Next
<1>27. CASE Revoke
  <2>1. /\ Cell' = Cell /\ UNCHANGED <<store, issued, spent>>
    BY <1>27 DEF Revoke, ctl, disk, Cell
  <2>2. Grant!Revoke
    BY <1>27, <2>1 DEF Revoke, Grant!Revoke
  <2>3. QED
    BY <2>2 DEF Grant!Next
<1>28. CASE Expire
  <2>1. Cell' = Cell
    BY <1>28 DEF Expire, ctl, Cell
  <2>2. QED
    BY <1>28, <2>1 DEF Expire, as
<1>29. CASE Rest
  BY <1>29, <1>1 DEF Rest
<1>30. QED
  BY <1>1, <1>4, <1>5, <1>6, <1>7, <1>8, <1>9, <1>10, <1>11, <1>12, <1>13, <1>14, <1>15, <1>16, <1>17, <1>18, <1>19, <1>20, <1>21, <1>22, <1>23, <1>24, <1>25, <1>26, <1>27, <1>28, <1>29 DEF Next, Advance

\* At the start nobody works, and the store is empty.
LEMMA CellInit ==
    ASSUME Init
    PROVE  Grant!Init
<1>1. pc = [p \in Procs |-> "idle"]
  BY DEF Init
<1>2. \A q \in Procs : pc[q] \notin Working
  BY <1>1 DEF Working
<1>3. Cell = store
  BY <1>2, CellFree
<1>4. store = NoToken /\ issued = 0 /\ valid = {} /\ spent = {}
  BY DEF Init
<1>5. QED
  BY <1>3, <1>4 DEF Grant!Init, Grant!NoToken, NoToken

\* All processes together behave as one holder of the grant (flow.go: obtain,
\* lock.go: WithLock): every step maps to one of GrantCell's or to none, the
\* first state to its first state.
THEOREM Refinement == Spec => OneHolder
<1>1. Init => Grant!Init
  BY CellInit
<1>2. IInv /\ [Next]_vars => [Grant!Next]_(Grant!cellVars)
  BY CellStep
<1>3. QED
  BY <1>1, <1>2, Invariance, PTL DEF Spec, OneHolder, Grant!Spec
=============================================================================
