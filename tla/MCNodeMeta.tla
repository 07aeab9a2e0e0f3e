----------------------------- MODULE MCNodeMeta -----------------------------
(***************************************************************************)
(* NodeMeta instantiated for TLC.                                          *)
(***************************************************************************)
EXTENDS NodeMeta

\* Callers are interchangeable, and so are the values.
MetaSymmetry == Permutations(Callers) \cup Permutations(Vals)

=============================================================================
