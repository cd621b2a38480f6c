----------------------------- MODULE MCApiReads -----------------------------
(* The chain of MCStateCommit, and walks with pages of one or two blocks that *)
(* may end at the largest offset.                                             *)
EXTENDS ApiReads, MCStateCommit

ASSUME MCGenesis == GenesisDeclares
=============================================================================
