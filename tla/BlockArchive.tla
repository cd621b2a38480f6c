---------------------------- MODULE BlockArchive ----------------------------
(***************************************************************************)
(* What the block store promises: an archive of blocks that grows by one   *)
(* complete block at a time, each with its microblocks readable and their  *)
(* number right, in increasing height.  Nothing is ever lost from it,      *)
(* except all of it, when the operator deletes the database.               *)
(***************************************************************************)
EXTENDS Naturals, Sequences, Functions

CONSTANTS
    Chains,     \* the chains the node may serve
    MaxHeight,  \* bound: blocks are numbered 1..MaxHeight
    MaySkip,    \* heights may be left out
    MayReset    \* the archive may be deleted

VARIABLES
    archive,    \* set of [height, count, microblocks]
    chain       \* the chain being archived

Init == archive = {} /\ chain \in Chains

WholeBlock(h) == [height |-> h, count |-> Len(chain[h]), microblocks |-> Range(chain[h])]

Extends(h) ==
    /\ \A b \in archive : b.height < h
    /\ MaySkip \/ h = 1 \/ \E b \in archive : b.height = h - 1

AppendBlock ==
    /\ \E h \in 1 .. MaxHeight : Extends(h) /\ archive' = archive \cup {WholeBlock(h)}
    /\ UNCHANGED chain

Wipe ==
    /\ MayReset
    /\ archive' = {}
    /\ chain' \in Chains

Next == AppendBlock \/ Wipe

Spec == Init /\ [][Next]_<<archive, chain>>
=============================================================================
