---------------------------- MODULE CometbftApi ----------------------------
(***************************************************************************)
(* CometbftApiService and the nodes behind it.                             *)
(*                                                                         *)
(* The service holds up to MaxNodes URLs and talks to one of them at a     *)
(* time.  The nodes are external.  A node first stores a block and then    *)
(* has its application execute it: /status reports the stored height,      *)
(* while the ABCI queries answer for executed blocks only.                 *)
(***************************************************************************)
EXTENDS Naturals

CONSTANTS
    MaxNodes,      \* MAX_NODES
    Configured,    \* slots whose NODEx_URL is set and not empty (slot 0 is NODE1_URL)
    ChainOf,       \* ChainOf[n]: the chain node n follows
    EarliestHash,  \* EarliestHash[n]: hash of the earliest block node n keeps
    CommitBase,    \* CommitBase[n]: lowest block whose commit node n keeps
    Base,          \* Base[n]: lowest block the application of node n answers for
    NoHash,        \* no chain record in the database yet
    MaxHeight,     \* bound: heights of the chains
    StatusAhead    \* the executed height of a node may trail its stored height

Slots == 0 .. MaxNodes - 1

ASSUME NodesAssumption ==
    /\ MaxNodes \in Nat \ {0}
    /\ Configured \subseteq Slots /\ Configured # {}   \* or the constructor throws
    /\ MaxHeight \in Nat
    /\ StatusAhead \in BOOLEAN
    /\ DOMAIN ChainOf = Slots /\ DOMAIN EarliestHash = Slots
    /\ Base \in [Slots -> Nat] /\ CommitBase \in [Slots -> Nat]
    /\ \A n \in Slots : EarliestHash[n] # NoHash
    /\ \A n, m \in Slots : EarliestHash[n] = EarliestHash[m] => ChainOf[n] = ChainOf[m]

VARIABLES
    up,         \* up[n]: node n answers
    stored,     \* stored[n]: height of its block store
    executed,   \* executed[n]: height of its application
    nodeIndex   \* this.nodeIndex

nodeVars == <<up, stored, executed>>

NodesTypeOK ==
    /\ up \in [Slots -> BOOLEAN]
    /\ stored \in [Slots -> 0 .. MaxHeight]
    /\ executed \in [Slots -> 0 .. MaxHeight]
    /\ nodeIndex \in Slots

NodesInit ==
    /\ up = [n \in Slots |-> TRUE]
    /\ stored = [n \in Slots |-> 0]
    /\ executed = [n \in Slots |-> 0]

-----------------------------------------------------------------------------
(* The constructor and changeNode() *)

IsFirstNode(n) == n \in Configured /\ \A m \in Configured : n <= m

\* How far m is after n, cyclically.
Distance(n, m) == IF m > n THEN m - n ELSE m + MaxNodes - n
\* Mutant of IsNextNode: empty slots are not skipped.
IsNextIndex(n, m) == m = (n + 1) % MaxNodes

\* m is the next slot, cyclically, that holds a URL: n itself when it is alone.
IsNextNode(n, m) ==
    m \in Configured /\ \A k \in Configured : Distance(n, m) <= Distance(n, k)

-----------------------------------------------------------------------------
(* What the current node answers *)

CurrentUp == up[nodeIndex]

\* getChainStatus(): null (an exception in the caller) when the node is down; a
\* node without blocks has no earliest block hash.
HasStatus == CurrentUp /\ stored[nodeIndex] > 0

\* getBlockAtHeight(): null when the application has not executed the block, or
\* started above it (pruned, or restored from a snapshot).
HasBlock(h) == Base[nodeIndex] <= h /\ h <= executed[nodeIndex]

\* commitBlock() does without the commit for the first block only.
HasCommit(h) == h = 1 \/ CommitBase[nodeIndex] <= h

CurrentChain == ChainOf[nodeIndex]
CurrentHash  == EarliestHash[nodeIndex]

-----------------------------------------------------------------------------
(* Steps of the nodes *)

StoreNextBlock(n) ==
    /\ up[n]
    /\ stored[n] < MaxHeight
    /\ executed[n] = stored[n]
    /\ stored' = [stored EXCEPT ![n] = @ + 1]
    /\ executed' = IF StatusAhead THEN executed ELSE stored'
    /\ UNCHANGED up

ExecuteBlock(n) ==
    /\ up[n]
    /\ executed[n] < stored[n]
    /\ executed' = [executed EXCEPT ![n] = stored[n]]
    /\ UNCHANGED <<up, stored>>

NodeGoesDown(n) == up[n] /\ up' = [up EXCEPT ![n] = FALSE] /\ UNCHANGED <<stored, executed>>
NodeComesUp(n)  == ~up[n] /\ up' = [up EXCEPT ![n] = TRUE] /\ UNCHANGED <<stored, executed>>
=============================================================================
