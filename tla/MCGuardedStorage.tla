------------------------- MODULE MCGuardedStorage -------------------------
(***************************************************************************)
(* The guarded storage for TLC.  Four keys that lie on two branches of one *)
(* tree, three levels deep: a key can be an entry at one time and a        *)
(* namespace node at another, a namespace node can have a namespace node   *)
(* beneath it, and a walk and a Delete go through entries at two depths    *)
(* while the other caller is in a call of its own.                         *)
(***************************************************************************)
EXTENDS GuardedStorage, TLC

MCKeys == { <<"a">>, <<"a", "b">>, <<"a", "b", "c">>, <<"a", "c">> }
Symmetry == Permutations(Callers) \cup Permutations(Payloads)

=============================================================================
