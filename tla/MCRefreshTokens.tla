--------------------------- MODULE MCRefreshTokens ---------------------------
(***************************************************************************)
(* One browser with up to five requests, of which any may be in flight     *)
(* together: two browsers share nothing but the key space.                 *)
(***************************************************************************)
EXTENDS RefreshTokens, TLC

CONSTANTS d1, r1, r2, r3, r4, r5

OneBrowser == [r \in Requests |-> d1]

\* Nothing tells the requests apart.
Interchangeable == Permutations(Requests)
==============================================================================
