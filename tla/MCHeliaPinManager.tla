-------------------------- MODULE MCHeliaPinManager --------------------------
(* Small instances of HeliaPinManager: two nested pins that share a block. *)
EXTENDS HeliaPinManagerInv, TLC

CONSTANTS r, a, b, w1, w2, k1, k2

\* r links to a and b, a links to b: b has two parents, and a is a pin inside r.
DiamondLinks == (r :> {a, b}) @@ (a :> {b}) @@ (b :> {})

\* r links to a, a to nothing: the smallest DAG with a link.
PairLinks == (r :> {a}) @@ (a :> {})

\* r links to a; b is a DAG of its own.
ForestLinks == (r :> {a}) @@ (a :> {}) @@ (b :> {})

\* The properties say nothing of a raced pin: no use in going on when all are.
SomePinUnraced == raced # Pins

WorkerSymmetry == Permutations(Workers)
CallerSymmetry == Permutations(Callers)
BothSymmetry == Permutations(Workers) \cup Permutations(Callers)
=============================================================================
