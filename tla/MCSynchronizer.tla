--------------------------- MODULE MCSynchronizer ---------------------------
(* Four slots, the second one without a URL.  In TwoChainNodes the node in    *)
(* the third slot follows another chain; the first node, where a process     *)
(* starts, may be pruned.                                                    *)
EXTENDS Synchronizer

MCConfigured == {0, 2, 3}
TwoConfigured == {0, 2}

OneChainNodes == [n \in 0 .. 3 |-> "A"]
TwoChainNodes == [n \in 0 .. 3 |-> IF n = 2 THEN "B" ELSE "A"]

WholeNodes  == [n \in 0 .. 3 |-> 1]
\* The first node has pruned the commit of its second block.
PartlyPruned == [n \in 0 .. 3 |-> IF n = 0 THEN 3 ELSE 1]

\* No node has the first block: each was restored from a snapshot.
PrunedNodes == [n \in 0 .. 3 |-> 2]
=============================================================================
