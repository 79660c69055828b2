----------------------------- MODULE MCReferences -----------------------------
(* Small instances of References. *)
EXTENDS ReferencesInv, TLC

CONSTANTS x, y, z, c, d, k1, k2

\* Keys, cids and callers are each interchangeable.
MCSymmetry == Permutations(Keys) \cup Permutations(Cids) \cup Permutations(Callers)

\* The properties say nothing of a raced cid: no use in going on when all are.
SomeCidUnraced == raced # Cids
=============================================================================
