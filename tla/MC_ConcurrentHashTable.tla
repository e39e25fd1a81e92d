---------------------- MODULE MC_ConcurrentHashTable ----------------------
(***************************************************************************)
(* Three keys, two of which collide at capacity 2 (hashes 0 and 2) and     *)
(* spread at capacity 3, so probe chains, holes left by remove, and a      *)
(* resize that moves keys all occur.                                       *)
(***************************************************************************)
EXTENDS ConcurrentHashTable

CONSTANTS a, b, c

MC_Keys == {a, b, c}
MC_Hash == [k \in MC_Keys |-> CASE k = a -> 0 [] k = b -> 2 [] k = c -> 1]
=============================================================================
