---------------------------- MODULE MCBlockStore ----------------------------
(* Three microblocks of two virtual blockchains over three blocks.  In the   *)
(* first chain a block fills a file, the next is empty and the last needs a  *)
(* new file; in the second a block is appended to a file that already holds  *)
(* one, and the last, empty, needs a new file.                               *)
EXTENDS BlockStore

CONSTANTS m1, m2, m3

MCMicroblocks == {m1, m2, m3}
MCSize == [m \in MCMicroblocks |-> IF m = m2 THEN 2 ELSE 1]

\* m3 extends m1, in a later block: a skipped block is missed.
MCPrevious == [m \in MCMicroblocks |-> IF m = m3 THEN m1 ELSE NoMicroblock]

FirstChain  == [h \in Heights |-> CASE h = 1 -> <<m1, m2>> [] h = 2 -> <<>> [] OTHER -> <<m3>>]
SecondChain == [h \in Heights |-> CASE h = 1 -> <<m1>> [] h = 2 -> <<m3, m2>> [] OTHER -> <<>>]

OneChain  == {FirstChain}
TwoChains == {FirstChain, SecondChain}
=============================================================================
