---------------------------- MODULE ChainIndex ----------------------------
(***************************************************************************)
(* What the synchronizer promises about the block table: it is an index of *)
(* one chain, from its first block, and only ever gains the next block.    *)
(***************************************************************************)
EXTENDS Naturals

CONSTANTS MaxHeight, ChainNames

VARIABLE index   \* set of [height, chain]

Init == index = {}

IsNext(b) ==
    /\ b.height = 1 \/ \E a \in index : a.height = b.height - 1
    /\ \A a \in index : a.height < b.height /\ a.chain = b.chain

AppendNext ==
    \E h \in 1 .. MaxHeight, c \in ChainNames :
        LET b == [height |-> h, chain |-> c]
        IN  IsNext(b) /\ index' = index \cup {b}

Spec == Init /\ [][AppendNext]_index
=============================================================================
