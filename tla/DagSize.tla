--------------------------------- MODULE DagSize --------------------------------
(***************************************************************************)
(* packages/utils, dag/index.ts: getSize, which walks a DAG and counts.    *)
(*   links, codec   the DAG: links of a block to later ones, and the codec *)
(*            of its cid                                                   *)
(*   queue    the blocks walk still has to get                             *)
(*   got      the blocks that were counted                                 *)
(*   blocks   the count                                                    *)
(*   failed   getWalker has thrown                                         *)
(* A maximal depth and a local walk are in HeliaPinManager.                *)
(***************************************************************************)
EXTENDS Naturals, Sequences, FiniteSets, SequencesExt

CONSTANTS Top, Codecs    \* the blocks are 1..Top, 1 the root

TopOK == Top \in Nat \ {0}

VARIABLES links, codec, queue, got, blocks, failed

vars == <<links, codec, queue, got, blocks, failed>>

Nodes == 1..Top

Init ==
  /\ links \in {l \in [Nodes -> SUBSET Nodes] : \A c \in Nodes : \A k \in l[c] : k > c}
  /\ codec \in [Nodes -> Codecs]
  /\ queue = <<1>> /\ got = {} /\ blocks = 0 /\ failed = FALSE

\* getWalker: there is one for these codecs.
Known == {"dag-pb", "dag-cbor", "dag-json", "raw", "json"}

\* Mutant: only dag-pb has links.
WalkPb(c) == IF codec[c] = "dag-pb" THEN links[c] ELSE {}

\* Blocks of raw and json have no links.
Walk(c) == IF codec[c] \in {"raw", "json"} THEN {} ELSE links[c]

\* One block after the other: getSize awaits each.
Count ==
  /\ queue # <<>> /\ ~failed
  /\ IF codec[Head(queue)] \in Known
     THEN /\ queue' = Tail(queue) \o SetToSeq(Walk(Head(queue)))
          /\ got' = got \cup {Head(queue)} /\ blocks' = blocks + 1
          /\ UNCHANGED failed
     ELSE failed' = TRUE /\ UNCHANGED <<queue, got, blocks>>
  /\ UNCHANGED <<links, codec>>

Next == Count
Spec == Init /\ [][Next]_vars
-----------------------------------------------------------------------------
\* What links lead to from the root: what is in every set that holds the root and what its blocks link to.
Linked(c) == IF codec[c] \in {"dag-pb", "dag-cbor", "dag-json"} THEN links[c] ELSE {}
Closed(S) == 1 \in S /\ \A c \in S : Linked(c) \subseteq S
Reached == {c \in Nodes : \A S \in SUBSET Nodes : Closed(S) => c \in S}

Finished == queue = <<>> /\ ~failed

\* In the end everything the root leads to was counted, and nothing else; a codec without a walker never goes unseen.
AllCounted == Finished => got = Reached /\ \A c \in got : codec[c] \in Known

\* utils/test/dag-size.spec.ts:17, "returns the correct block count for the dag".
CountIsRight == Finished => blocks = Cardinality(Reached)
=============================================================================
