--------------------------- MODULE MCKeychainStore ---------------------------
(* A TLC instance of KeychainStore: two profiles log in at the same time.  *)
EXTENDS KeychainStore

CONSTANTS k1, k2

TwoKeys == {k1, k2}
=============================================================================
