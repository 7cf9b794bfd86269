------------------------------ MODULE GrantCell ------------------------------
(***************************************************************************)
(* What pkg/oauth promises about a grant, whatever the number of processes *)
(* that share it: one holder at a time works on it. A new token is always  *)
(* obtained from the one that is current, it is made durable as it came,   *)
(* and whoever fails to do so leaves the durable one behind. TokenFlow     *)
(* implements this module; see Cell and OneHolder there.                   *)
(***************************************************************************)
EXTENDS Naturals

VARIABLES
    cell,       \* the token that the next step of the ladder starts from
    durable,    \* the token in the store
    issued,     \* number of tokens the AS has issued
    valid,      \* refresh tokens the AS accepts
    spent       \* refresh tokens the AS has rotated away

cellVars == <<cell, durable, issued, valid, spent>>

NoToken == [acc |-> 0, ref |-> 0]

Init ==
    /\ cell = NoToken /\ durable = NoToken
    /\ issued = 0 /\ valid = {} /\ spent = {}

\* A login brings a grant of its own.
Login ==
    /\ issued' = issued + 1
    /\ \E rt \in {0, issued + 1} :
         /\ cell' = [acc |-> issued + 1, ref |-> rt]
         /\ valid' = valid \cup ({rt} \ {0})
    /\ UNCHANGED <<durable, spent>>

\* The AS answers the current refresh token, and may rotate it; the answer
\* becomes current or is lost.
Renew ==
    /\ cell.ref \in valid
    /\ issued' = issued + 1
    /\ \E rt \in {0, issued + 1} :
         LET retired == IF rt = 0 THEN {} ELSE {cell.ref}
             next == IF rt = 0 THEN cell.ref ELSE rt
         IN /\ valid' = (valid \ retired) \cup ({rt} \ {0})
            /\ spent' = spent \cup retired
            /\ cell' \in {[acc |-> issued + 1, ref |-> next], durable}
    /\ UNCHANGED durable

Persist == durable' = cell /\ UNCHANGED <<cell, issued, valid, spent>>

\* A failed call, or the death of the holder.
Abandon == cell' = durable /\ UNCHANGED <<durable, issued, valid, spent>>

\* A logout, which a holder at work does not notice, or a refused grant.
Forget ==
    /\ durable' = NoToken /\ cell' \in {cell, NoToken}
    /\ UNCHANGED <<issued, valid, spent>>

Revoke ==
    /\ \E r \in valid : valid' = valid \ {r}
    /\ UNCHANGED <<cell, durable, issued, spent>>

Next == Login \/ Renew \/ Persist \/ Abandon \/ Forget \/ Revoke

Spec == Init /\ [][Next]_cellVars
=============================================================================
