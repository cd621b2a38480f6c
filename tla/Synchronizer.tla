---------------------------- MODULE Synchronizer ----------------------------
(***************************************************************************)
(* SyncService: the timer chain that polls the current node, stores the    *)
(* blocks it does not have yet, each in one transaction, fails over to the *)
(* next node after an error, and tells SyncStateService how far it is.     *)
(* That state gates the HTTP API.                                          *)
(*                                                                         *)
(* The transaction that stores a block is one step here: it commits, finds *)
(* no data, or throws.  BlockStore has its inside.  An exception between   *)
(* beginUpdate() and closeUpdate() leaves the microblock file open and     *)
(* makes every later transaction throw (storageOpen).                      *)
(***************************************************************************)
EXTENDS CometbftApi

CONSTANTS
    MaxDifference,      \* MAX_HEIGHT_DIFFERENCE
    MayThrowInWindow,   \* exceptions may occur while the microblock file is open
    ProcessMayDie,      \* the indexer may be killed
    MaxFaults           \* bound: number of faults

Healthy  == "healthy"     \* HEALTHY_SYNC_DELAY
Degraded == "degraded"    \* DEGRADED_SYNC_DELAY
NoTimer  == "none"

Heights == 1 .. MaxHeight
ChainNames == {ChainOf[n] : n \in Slots}
Hashes == {EarliestHash[n] : n \in Slots}

ASSUME SynchronizerAssumption ==
    /\ MaxDifference \in Nat \ {0}
    /\ MaxFaults \in Nat

VARIABLES
    blocks,       \* BlockEntity: set of [height, chain]
    chainRecord,  \* ChainEntity 1: the earliest block hash, or NoHash
    pc,           \* "down", "waiting", "status" or "loop"
    syncDelay,    \* this.syncDelay
    timer,        \* delay of the armed timer, or NoTimer
    height,       \* synchronize(): height
    latest,       \* synchronize(): latestBlockHeight
    storageOpen,  \* the microblock file was left open
    dbHeight, chainHeight, initialized,   \* SyncStateService
    faults

dbVars    == <<blocks, chainRecord>>
stateVars == <<dbHeight, chainHeight, initialized>>
loopVars  == <<pc, syncDelay, timer, height, latest, storageOpen>>
vars      == <<nodeVars, nodeIndex, dbVars, stateVars, loopVars, faults>>

KnownHeights == {b.height : b \in blocks}

\* The height of the last stored block, 0 when there is none.
IsKnownHeight(h) == h \in KnownHeights \cup {0} /\ \A k \in KnownHeights : k <= h

Init ==
    /\ NodesInit
    /\ nodeIndex = 0
    /\ pc = "down" /\ syncDelay = Healthy /\ timer = NoTimer
    /\ height = 0 /\ latest = 0
    /\ storageOpen = FALSE
    /\ dbHeight = 0 /\ chainHeight = 0 /\ initialized = FALSE
    /\ blocks = {} /\ chainRecord = NoHash
    /\ faults = 0

-----------------------------------------------------------------------------
(* Start of the process: the constructor of CometbftApiService, then           *)
(* onModuleInit(), which arms the first timer.                                 *)

Start ==
    /\ pc = "down"
    /\ \E n \in Slots : IsFirstNode(n) /\ nodeIndex' = n
    /\ timer' = syncDelay
    /\ pc' = "waiting"
    /\ UNCHANGED <<nodeVars, dbVars, stateVars, syncDelay, height, latest, storageOpen, faults>>

-----------------------------------------------------------------------------
(* synchronize() *)

TimerFires ==
    /\ pc = "waiting"
    /\ timer # NoTimer
    /\ timer' = NoTimer
    /\ pc' = "status"
    /\ UNCHANGED <<nodeVars, nodeIndex, dbVars, stateVars, syncDelay, height, latest,
                   storageOpen, faults>>

\* Mutant of Rearm: the delay is never changed.
RearmSame(delay) ==
    /\ timer' = syncDelay
    /\ pc' = "waiting"
    /\ height' = 0 /\ latest' = 0
    /\ UNCHANGED syncDelay

\* finally: the next timer is armed with the delay in force so far; only then
\* do .then() and .catch() change the delay.
Rearm(delay) ==
    /\ timer' = syncDelay
    /\ syncDelay' = delay
    /\ pc' = "waiting"
    /\ height' = 0 /\ latest' = 0

Succeed == Rearm(Healthy) /\ UNCHANGED nodeIndex

\* Mutant of ChangeNode: the node in use is kept.
StayOnNode == UNCHANGED nodeIndex
ChangeNode == \E n \in Slots : IsNextNode(nodeIndex, n) /\ nodeIndex' = n

Fail == Rearm(Degraded) /\ ChangeNode

\* Mutant of MatchesRecord: the hash is recorded but never compared.
MatchesAnything == TRUE

\* getSyncStatus(): the chain record is made on first contact and compared ever after.
MatchesRecord == chainRecord \in {NoHash, CurrentHash}

GetSyncStatus ==
    /\ pc = "status"
    /\ HasStatus
    /\ MatchesRecord
    /\ chainRecord' = CurrentHash
    /\ \E known \in 0 .. MaxHeight : IsKnownHeight(known) /\ height' = known + 1
    /\ latest' = stored[nodeIndex]
    /\ pc' = "loop"
    /\ UNCHANGED <<nodeVars, nodeIndex, blocks, stateVars, syncDelay, timer, storageOpen, faults>>

\* "Cannot get the chain status", "Cannot get the earliest block hash",
\* "Earliest block hash mismatch detected"
SyncStatusFails ==
    /\ pc = "status"
    /\ ~HasStatus \/ ~MatchesRecord
    /\ Fail
    /\ UNCHANGED <<nodeVars, dbVars, stateVars, storageOpen, faults>>

\* Mutant of SetHeights: the head is set with the first block only.
SetHeightsOnce(h) ==
    /\ dbHeight' = h /\ initialized' = TRUE
    /\ chainHeight' = IF initialized THEN chainHeight ELSE latest

\* syncState.setHeights(), after each transaction that did not throw
SetHeights(h) == dbHeight' = h /\ chainHeight' = latest /\ initialized' = TRUE

InLoop == pc = "loop" /\ height <= latest

CommitBlock ==
    /\ InLoop
    /\ CurrentUp /\ HasBlock(height) /\ HasCommit(height) /\ ~storageOpen
    /\ blocks' = blocks \cup {[height |-> height, chain |-> CurrentChain]}
    /\ SetHeights(height)
    /\ height' = height + 1
    /\ UNCHANGED <<nodeVars, nodeIndex, chainRecord, pc, syncDelay, timer, latest, storageOpen,
                   faults>>

\* blockData is null: the transaction commits nothing.
SkipBlock ==
    /\ InLoop
    /\ CurrentUp /\ ~HasBlock(height)
    /\ SetHeights(height)
    /\ height' = height + 1
    /\ UNCHANGED <<nodeVars, nodeIndex, dbVars, pc, syncDelay, timer, latest, storageOpen, faults>>

\* Mutant of BlockFails: the heights are set whatever the outcome.
BlockFailsCounted ==
    /\ InLoop
    /\ ~CurrentUp \/ (HasBlock(height) /\ (~HasCommit(height) \/ storageOpen))
    /\ SetHeights(height)
    /\ Fail
    /\ UNCHANGED <<nodeVars, dbVars, storageOpen, faults>>

\* The node does not answer; it has the block but not its commit ("block.commit is
\* null and this is not the genesis block"); the microblock file is still open.
BlockFails ==
    /\ InLoop
    /\ ~CurrentUp \/ (HasBlock(height) /\ (~HasCommit(height) \/ storageOpen))
    /\ Fail
    /\ UNCHANGED <<nodeVars, dbVars, stateVars, storageOpen, faults>>

EndLoop ==
    /\ pc = "loop"
    /\ height > latest
    /\ Succeed
    /\ UNCHANGED <<nodeVars, dbVars, stateVars, storageOpen, faults>>

-----------------------------------------------------------------------------
(* Faults *)

CountFault == faults < MaxFaults /\ faults' = faults + 1

\* Any call of the transaction throws, before or after the file is open.
TransactionThrows ==
    /\ InLoop
    /\ CurrentUp /\ HasBlock(height) /\ HasCommit(height) /\ ~storageOpen
    /\ CountFault
    /\ storageOpen' \in (IF MayThrowInWindow THEN BOOLEAN ELSE {FALSE})
    /\ Fail
    /\ UNCHANGED <<nodeVars, dbVars, stateVars>>

ProcessDies ==
    /\ pc # "down"
    /\ ProcessMayDie
    /\ CountFault
    /\ nodeIndex' = 0
    /\ pc' = "down" /\ syncDelay' = Healthy /\ timer' = NoTimer
    /\ height' = 0 /\ latest' = 0
    /\ storageOpen' = FALSE
    /\ dbHeight' = 0 /\ chainHeight' = 0 /\ initialized' = FALSE
    /\ UNCHANGED <<nodeVars, dbVars>>

NodeFault == CountFault /\ \E n \in Configured : NodeGoesDown(n)

-----------------------------------------------------------------------------

ServiceStep ==
    \/ Start
    \/ TimerFires
    \/ GetSyncStatus
    \/ SyncStatusFails
    \/ CommitBlock
    \/ SkipBlock
    \/ BlockFails
    \/ EndLoop

NodeStep(n) == StoreNextBlock(n) \/ ExecuteBlock(n) \/ NodeComesUp(n)

NodesStep ==
    /\ \/ NodeFault
       \/ (\E n \in Configured : NodeStep(n)) /\ UNCHANGED faults
    /\ UNCHANGED <<nodeIndex, dbVars, stateVars, loopVars>>

Next == ServiceStep \/ TransactionThrows \/ ProcessDies \/ NodesStep

Spec == Init /\ [][Next]_vars

\* An armed timer fires, every call returns or throws and a supervisor restarts
\* the process; a node that stays up stores and executes the blocks of its chain.
\* Nothing is assumed of a node that is down.
Fairness ==
    /\ WF_vars(ServiceStep)
    /\ \A n \in Configured :
          WF_vars((StoreNextBlock(n) \/ ExecuteBlock(n))
                  /\ UNCHANGED <<nodeIndex, dbVars, stateVars, loopVars, faults>>)

FairSpec == Spec /\ Fairness

-----------------------------------------------------------------------------
(* Properties *)

\* Every variable has its type; the node in use has a URL.
TypeOK ==
    /\ NodesTypeOK
    /\ pc = "down" \/ nodeIndex \in Configured
    /\ blocks \subseteq [height : Heights, chain : ChainNames]
    /\ chainRecord \in Hashes \cup {NoHash}
    /\ pc \in {"down", "waiting", "status", "loop"}
    /\ syncDelay \in {Healthy, Degraded}
    /\ timer \in {Healthy, Degraded, NoTimer}
    /\ height \in 0 .. MaxHeight + 1
    /\ latest \in 0 .. MaxHeight
    /\ storageOpen \in BOOLEAN
    /\ dbHeight \in 0 .. MaxHeight
    /\ chainHeight \in 0 .. MaxHeight
    /\ initialized \in BOOLEAN
    /\ faults \in 0 .. MaxFaults

\* checkApiAvaibilityOrFail() lets a request through.
Synchronized == initialized /\ dbHeight + MaxDifference >= chainHeight

\* While the API answers, the database has every block up to MaxDifference below
\* the head the API reports.
GateSound == Synchronized => \A h \in Heights : h + MaxDifference <= chainHeight
                                                => h \in KnownHeights

\* "ingests new blocks block-by-block": the stored heights have no gap.
NoGaps == \A b \in blocks : \A h \in 1 .. b.height : h \in KnownHeights

Index == INSTANCE ChainIndex WITH index <- blocks

\* The database is an index of one chain that grows by its next block only,
\* through failovers to nodes of other chains, rollbacks and restarts.
ImplementsChainIndex == Index!Spec

\* Faults stop: the nodes stay up, one of them has the whole chain that was recorded,
\* and the microblock file is not left open for good.
NodesStayUp   == <>[](\A n \in Configured : up[n])
NodesStayDown == <>[](\A n \in Configured : ~up[n])
WholeNode == \E n \in Configured : chainRecord \in {NoHash, EarliestHash[n]}
                                   /\ Base[n] <= 1 /\ CommitBase[n] <= 2
FaultsStop == NodesStayUp /\ []WholeNode /\ []<>~storageOpen

\* Once faults stop the whole chain is eventually indexed, whichever node the service
\* was using and whichever chain it met first.
CatchesUp == FaultsStop => <>[](KnownHeights = Heights)

\* The head the gate compares with, read once per poll and only reported with a block,
\* does not stay old: once faults stop it is the head of the chain.
HeadRefreshed == FaultsStop => <>[](initialized => chainHeight = MaxHeight)

\* "switching to a slower cadence when the node is unreachable": once no node
\* answers any more the polls settle at the degraded cadence, and once faults stop,
\* at the healthy one.
Polls(delay) == <>[](pc = "waiting" => timer = delay)
CadenceSettles == /\ NodesStayDown => Polls(Degraded)
                  /\ FaultsStop => Polls(Healthy)

\* A poll that ends with everything stored opens the API.
CaughtUpServes == [][EndLoop /\ IsKnownHeight(latest) => Synchronized']_vars
=============================================================================
