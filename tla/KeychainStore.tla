---------------------------- MODULE KeychainStore ----------------------------
(***************************************************************************)
(* pkg/oauth/keychain.go: token files encrypted under one key that lives   *)
(* in the OS keychain. Refresh and login call Save under the flock of the  *)
(* token key (TokenFlow), so one process at a time works on a token key;   *)
(* processes with different token keys hold different flocks. An actor of  *)
(* this module is the holder of one token key's flock.                     *)
(*                                                                         *)
(* An encryption key is its number in the order of generation, a token     *)
(* file is the key that sealed it; 0 stands for none.                      *)
(***************************************************************************)
EXTENDS Naturals

CONSTANTS
    TokenKeys,  \* the token keys in use: endpoint and client_id
    MaxKeys     \* no further key is generated once there are this many

VARIABLES
    chain,      \* the key in the OS keychain
    generated,  \* number of keys generated so far
    file,       \* per token key: the .enc file
    pc,         \* per token key: where its holder is
    key         \* the encryption key it works with

vars == <<chain, generated, file, pc, key>>

Init ==
    /\ chain = 0 /\ generated = 0
    /\ file = [k \in TokenKeys |-> 0]
    /\ pc = [k \in TokenKeys |-> "idle"]
    /\ key = [k \in TokenKeys |-> 0]

Goto(k, place) == pc' = [pc EXCEPT ![k] = place]

\* masterKey: keyring.Get, and a new key when there is none and we are to save.
GetKey(k) ==
    /\ pc[k] = "idle" /\ (chain # 0 \/ generated < MaxKeys)
    /\ IF chain # 0
       THEN /\ key' = [key EXCEPT ![k] = chain]
            /\ Goto(k, "write") /\ UNCHANGED generated
       ELSE /\ key' = [key EXCEPT ![k] = generated + 1]
            /\ generated' = generated + 1
            /\ Goto(k, "set")
    /\ UNCHANGED <<chain, file>>

\* masterKey: keyring.Set, or its failure.
SetKey(k) ==
    /\ pc[k] = "set"
    /\ \/ chain' = key[k] /\ Goto(k, "write")
       \/ UNCHANGED chain /\ Goto(k, "idle")
    /\ UNCHANGED <<generated, file, key>>

\* Save: the sealed token replaces the file, or the write fails.
WriteFile(k) ==
    /\ pc[k] = "write"
    /\ file' \in {file, [file EXCEPT ![k] = key[k]]}
    /\ Goto(k, "idle")
    /\ UNCHANGED <<chain, generated, key>>

\* Delete, for a refused grant or a logout; the key stays.
DeleteFile(k) ==
    /\ pc[k] = "idle" /\ file[k] # 0
    /\ file' = [file EXCEPT ![k] = 0]
    /\ UNCHANGED <<chain, generated, pc, key>>

\* The process dies; what is in the keychain and on disk stays.
Crash(k) ==
    /\ pc[k] # "idle"
    /\ Goto(k, "idle")
    /\ UNCHANGED <<chain, generated, file, key>>

\* What Load answers to whoever reads the file of k.
Load(k) == IF file[k] = 0 \/ chain = 0 THEN "not found"
           ELSE IF file[k] = chain THEN "token" ELSE "cannot decrypt"

\* Nobody saves a token.
Rest == (\A k \in TokenKeys : pc[k] = "idle") /\ UNCHANGED vars

Next == Rest \/ \E k \in TokenKeys :
    GetKey(k) \/ SetKey(k) \/ WriteFile(k) \/ DeleteFile(k) \/ Crash(k)

Spec == Init /\ [][Next]_vars

\* A saved token can be read again as long as the keychain keeps its key:
\* "Generation happens under the refresh/login flock, so two racing processes
\* cannot mint different keys" (keychain.go:84-85). obtain ends with the error
\* of a token that cannot be decrypted, so only a logout helps.
SavedReadable == \A k \in TokenKeys : Load(k) # "cannot decrypt"
=============================================================================
