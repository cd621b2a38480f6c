------------------------ MODULE Synchronizer_proofs ------------------------
(***************************************************************************)
(* Proofs about Synchronizer, for any number of nodes, chains, heights and *)
(* faults: type correctness; and, when every node serves every block it    *)
(* has stored, that the block table never has a gap, never mixes chains    *)
(* (it implements ChainIndex) and is as complete as the gate of the API    *)
(* claims.                                                                 *)
(***************************************************************************)
EXTENDS Synchronizer, TLAPS

\* No node was restored from a snapshot: each answers for the blocks from 1 on.
EveryBlockServed == \A n \in Slots : Base[n] <= 1

-----------------------------------------------------------------------------
(* Type correctness *)

\* The end of a poll, whatever its outcome, keeps the types of what it changes.
LEMMA RearmType ==
    ASSUME TypeOK, NEW delay \in {Healthy, Degraded}, Rearm(delay)
    PROVE  /\ pc' = "waiting"
           /\ timer' \in {Healthy, Degraded, NoTimer}
           /\ syncDelay' \in {Healthy, Degraded}
           /\ height' \in 0 .. MaxHeight + 1
           /\ latest' \in 0 .. MaxHeight
  BY NodesAssumption DEF TypeOK, Rearm

\* A failed poll keeps the types and moves to a node that has a URL.
LEMMA FailType ==
    ASSUME TypeOK, Fail
    PROVE  /\ pc' = "waiting"
           /\ timer' \in {Healthy, Degraded, NoTimer}
           /\ syncDelay' \in {Healthy, Degraded}
           /\ height' \in 0 .. MaxHeight + 1
           /\ latest' \in 0 .. MaxHeight
           /\ nodeIndex' \in Slots /\ nodeIndex' \in Configured
  <1>1. nodeIndex' \in Slots /\ nodeIndex' \in Configured
    BY DEF Fail, ChangeNode, IsNextNode
  <1>2. Rearm(Degraded)
    BY DEF Fail
  <1> QED
    BY <1>1, <1>2, RearmType

\* In the loop of synchronize() the height is a height.
LoopHeight == pc = "loop" => height >= 1

TypeInv == TypeOK /\ LoopHeight

\* The initial state is well typed.
LEMMA TypeInit == Init => TypeInv
  <1> SUFFICES ASSUME Init
               PROVE  TypeInv
    OBVIOUS
  <1> USE NodesAssumption, SynchronizerAssumption
  <1>1. NodesTypeOK
    <2>1. 0 \in 0 .. MaxHeight /\ 0 \in Slots
      BY DEF Slots
    <2> QED
      BY <2>1 DEF Init, NodesInit, NodesTypeOK
  <1> QED
    <2>1. storageOpen \in BOOLEAN /\ initialized \in BOOLEAN
      BY DEF Init
    <2>2. /\ nodeIndex \in Slots
          /\ height \in 0 .. MaxHeight + 1 /\ latest \in 0 .. MaxHeight
          /\ dbHeight \in 0 .. MaxHeight /\ chainHeight \in 0 .. MaxHeight
          /\ faults \in 0 .. MaxFaults
      BY DEF Init, Slots
    <2> QED
      BY <1>1, <2>1, <2>2 DEF Init, TypeInv, TypeOK, LoopHeight

\* A fault is counted within its bound.
LEMMA FaultType ==
    ASSUME TypeOK, CountFault
    PROVE  faults' \in 0 .. MaxFaults
  BY SynchronizerAssumption DEF TypeOK, CountFault

\* Every step, of the service, of a fault or of a node, keeps the types.
LEMMA TypeStep == TypeInv /\ [Next]_vars => TypeInv'
  <1> SUFFICES ASSUME TypeInv, [Next]_vars
               PROVE  TypeInv'
    OBVIOUS
  <1> USE NodesAssumption, SynchronizerAssumption
  <1>0. TypeOK /\ LoopHeight
    BY DEF TypeInv
  <1> USE DEF TypeInv, LoopHeight
  <1>1. CASE Start
    BY <1>0, <1>1 DEF Start, IsFirstNode, TypeOK, NodesTypeOK, nodeVars, dbVars, stateVars
  <1>2. CASE TimerFires
    BY <1>0, <1>2 DEF TimerFires, TypeOK, NodesTypeOK, nodeVars, dbVars, stateVars
  <1>3. CASE GetSyncStatus
    <2>1. chainRecord' \in Hashes \cup {NoHash}
      BY <1>0, <1>3 DEF GetSyncStatus, CurrentHash, Hashes, TypeOK, NodesTypeOK
    <2>2. height' \in 1 .. MaxHeight + 1 /\ latest' \in 0 .. MaxHeight
      BY <1>0, <1>3 DEF GetSyncStatus, TypeOK, NodesTypeOK
    <2> QED
      BY <1>0, <1>3, <2>1, <2>2 DEF GetSyncStatus, TypeOK, NodesTypeOK, nodeVars, stateVars
  <1>4. CASE SyncStatusFails
    BY <1>0, <1>4, FailType
       DEF SyncStatusFails, TypeOK, NodesTypeOK, nodeVars, dbVars, stateVars
  <1>5. CASE CommitBlock
    <2>1. height \in Heights /\ height + 1 \in 1 .. MaxHeight + 1
      BY <1>0, <1>5 DEF CommitBlock, InLoop, TypeOK, Heights
    <2>2. CurrentChain \in ChainNames
      BY <1>0 DEF CurrentChain, ChainNames, TypeOK, NodesTypeOK
    <2>3. blocks' \subseteq [height : Heights, chain : ChainNames]
      BY <1>0, <1>5, <2>1, <2>2 DEF CommitBlock, TypeOK
    <2>4. dbHeight' \in 0 .. MaxHeight /\ chainHeight' \in 0 .. MaxHeight
          /\ initialized' \in BOOLEAN /\ height' \in 1 .. MaxHeight + 1
      BY <1>0, <1>5, <2>1 DEF CommitBlock, SetHeights, TypeOK, Heights
    <2> QED
      BY <1>0, <1>5, <2>3, <2>4 DEF CommitBlock, TypeOK, NodesTypeOK, nodeVars
  <1>6. CASE SkipBlock
    <2>1. height \in Heights /\ height + 1 \in 1 .. MaxHeight + 1
      BY <1>0, <1>6 DEF SkipBlock, InLoop, TypeOK, Heights
    <2> QED
      BY <1>0, <1>6, <2>1
         DEF SkipBlock, SetHeights, Heights, TypeOK, NodesTypeOK, nodeVars, dbVars
  <1>7. CASE BlockFails
    BY <1>0, <1>7, FailType DEF BlockFails, TypeOK, NodesTypeOK, nodeVars, dbVars, stateVars
  <1>8. CASE EndLoop
    BY <1>0, <1>8, RearmType
       DEF EndLoop, Succeed, TypeOK, NodesTypeOK, nodeVars, dbVars, stateVars
  <1>9. CASE TransactionThrows
    <2>1. storageOpen' \in BOOLEAN
      BY <1>9 DEF TransactionThrows
    <2> QED
      BY <1>0, <1>9, <2>1, FailType, FaultType
         DEF TransactionThrows, TypeOK, NodesTypeOK, nodeVars, dbVars, stateVars
  <1>10. CASE ProcessDies
    <2>1. faults' \in 0 .. MaxFaults
      BY <1>0, <1>10, FaultType DEF ProcessDies
    <2> QED
      <3>1. storageOpen' \in BOOLEAN /\ initialized' \in BOOLEAN
        BY <1>10 DEF ProcessDies
      <3>2. /\ nodeIndex' \in Slots
            /\ height' \in 0 .. MaxHeight + 1 /\ latest' \in 0 .. MaxHeight
            /\ dbHeight' \in 0 .. MaxHeight /\ chainHeight' \in 0 .. MaxHeight
        BY <1>10 DEF ProcessDies, Slots
      <3>3. NodesTypeOK'
        BY <1>0, <1>10, <3>2 DEF ProcessDies, TypeOK, NodesTypeOK, nodeVars
      <3> QED
        BY <1>0, <1>10, <2>1, <3>1, <3>2, <3>3 DEF ProcessDies, TypeOK, dbVars
  <1>11. CASE NodesStep
    <2>1. faults' \in 0 .. MaxFaults
      <3>1. CASE NodeFault
        BY <1>0, <3>1, FaultType DEF NodeFault
      <3>2. CASE UNCHANGED faults
        BY <1>0, <3>2 DEF TypeOK
      <3> QED
        BY <1>11, <3>1, <3>2 DEF NodesStep
    <2>2. NodesTypeOK'
      <3>1. NodesTypeOK /\ UNCHANGED nodeIndex
        BY <1>0, <1>11 DEF NodesStep, TypeOK
      <3>2. ASSUME NEW n \in Configured, NodeGoesDown(n) \/ NodeComesUp(n)
            PROVE  NodesTypeOK'
        BY <3>1, <3>2 DEF NodeGoesDown, NodeComesUp, NodesTypeOK
      <3>3. ASSUME NEW n \in Configured, StoreNextBlock(n)
            PROVE  NodesTypeOK'
        <4>1. stored' \in [Slots -> 0 .. MaxHeight]
          BY <3>1, <3>3 DEF StoreNextBlock, NodesTypeOK
        <4>2. executed' \in {executed, stored'} /\ UNCHANGED up
          BY <3>3 DEF StoreNextBlock
        <4> QED
          BY <3>1, <4>1, <4>2 DEF NodesTypeOK
      <3>4. ASSUME NEW n \in Configured, ExecuteBlock(n)
            PROVE  NodesTypeOK'
        BY <3>1, <3>4 DEF ExecuteBlock, NodesTypeOK
      <3> QED
        BY <1>11, <3>2, <3>3, <3>4 DEF NodesStep, NodeFault, NodeStep
    <2> QED
      BY <1>0, <1>11, <2>1, <2>2 DEF NodesStep, TypeOK, dbVars, stateVars, loopVars
  <1>12. CASE UNCHANGED vars
    BY <1>0, <1>12 DEF vars, TypeOK, NodesTypeOK, nodeVars, dbVars, stateVars, loopVars
  <1> QED
    BY <1>1, <1>2, <1>3, <1>4, <1>5, <1>6, <1>7, <1>8, <1>9, <1>10, <1>11, <1>12
       DEF Next, ServiceStep

\* Every variable keeps its type, and the node in use always has a URL.
THEOREM TypeCorrect == Spec => []TypeOK
  <1>1. TypeInv => TypeOK
    BY DEF TypeInv
  <1> QED
    BY <1>1, TypeInit, TypeStep, PTL DEF Spec

-----------------------------------------------------------------------------
(* The inductive invariant of the block table *)

\* The application of a node trails its block store by one block at most.
ExecutedOK ==
    \A n \in Slots : executed[n] <= stored[n] /\ stored[n] <= executed[n] + 1

\* The stored blocks are all of the chain of every node the record lets through.
ChainOK ==
    \A b \in blocks : /\ chainRecord # NoHash
                      /\ \A n \in Slots : EarliestHash[n] = chainRecord => ChainOf[n] = b.chain

\* The next block of the loop, when there is one, follows the last stored one.
LoopOK ==
    pc = "loop" =>
        /\ EarliestHash[nodeIndex] = chainRecord
        /\ latest <= stored[nodeIndex]
        /\ \A b \in blocks : b.height < height
        /\ height <= latest => height = 1 \/ \E b \in blocks : b.height = height - 1

\* Every block below the reported height is stored, and that one is too unless
\* it is the head, which may have been skipped.
GateOK ==
    initialized => /\ \A h \in Heights : h < dbHeight => h \in KnownHeights
                   /\ dbHeight = chainHeight \/ dbHeight \in KnownHeights

TableInv == TypeInv /\ ExecutedOK /\ ChainOK /\ LoopOK /\ NoGaps /\ GateOK

\* A step that leaves the tables, the gate and the loop's hypotheses alone.
LEMMA QuietStep ==
    ASSUME TableInv, TypeInv', UNCHANGED <<dbVars, stateVars, nodeVars>>,
           pc' # "loop"
    PROVE  TableInv'
  BY DEF TableInv, ExecutedOK, ChainOK, LoopOK, NoGaps, GateOK, KnownHeights, dbVars,
         stateVars, nodeVars

\* In the loop only the head of the chain can be skipped.
LEMMA OnlyHeadIsSkipped ==
    ASSUME TableInv, EveryBlockServed, InLoop, ~HasBlock(height)
    PROVE  height = latest
  <1> USE NodesAssumption
  <1>1. /\ nodeIndex \in Slots
        /\ executed[nodeIndex] \in Nat /\ stored[nodeIndex] \in Nat
        /\ height \in Nat /\ latest \in Nat /\ 1 <= height /\ height <= latest
    BY DEF TableInv, TypeInv, LoopHeight, TypeOK, NodesTypeOK, InLoop, Slots
  <1>2. Base[nodeIndex] \in Nat /\ Base[nodeIndex] <= 1
    BY <1>1 DEF EveryBlockServed
  <1>3. executed[nodeIndex] < height
    BY <1>1, <1>2 DEF HasBlock
  <1>4. stored[nodeIndex] <= executed[nodeIndex] + 1 /\ latest <= stored[nodeIndex]
    BY <1>1 DEF TableInv, ExecutedOK, LoopOK, InLoop
  <1> QED
    BY <1>1, <1>3, <1>4

\* Below the next block of the loop everything is stored.
LEMMA LoopPrefix ==
    ASSUME TableInv, InLoop
    PROVE  /\ height \in Heights
           /\ \A h \in Heights : h < height => h \in KnownHeights
           /\ \A b \in blocks : b.height < height
           /\ height = 1 \/ \E b \in blocks : b.height = height - 1
  <1> USE NodesAssumption
  <1>1. height \in Heights
    BY DEF TableInv, TypeInv, TypeOK, LoopHeight, InLoop, Heights
  <1>2. /\ \A b \in blocks : b.height < height
        /\ height = 1 \/ \E b \in blocks : b.height = height - 1
    BY DEF TableInv, LoopOK, InLoop
  <1>3. ASSUME NEW h \in Heights, h < height
        PROVE  h \in KnownHeights
    <2>1. PICK b \in blocks : b.height = height - 1
      BY <1>1, <1>2, <1>3 DEF Heights
    <2>2. h \in 1 .. b.height
      BY <1>1, <1>3, <2>1 DEF Heights
    <2> QED
      BY <2>1, <2>2 DEF TableInv, NoGaps
  <1> QED
    BY <1>1, <1>2, <1>3

\* A new block extends the chain in the table by one.
LEMMA CommitAppends ==
    ASSUME TableInv, CommitBlock
    PROVE  Index!AppendNext
  <1> DEFINE new == [height |-> height, chain |-> CurrentChain]
  <1>0. InLoop
    BY DEF CommitBlock
  <1>1. nodeIndex \in Slots
    BY DEF TableInv, TypeInv, TypeOK, NodesTypeOK
  <1>2. \A b \in blocks : b.chain = CurrentChain
    BY <1>0, <1>1 DEF TableInv, ChainOK, LoopOK, InLoop, CurrentChain
  <1>3. height \in 1 .. MaxHeight /\ CurrentChain \in ChainNames
    BY <1>0, <1>1, LoopPrefix DEF Heights, CurrentChain, ChainNames
  <1>4. blocks' = blocks \cup {new}
    BY DEF CommitBlock
  <1>5. Index!IsNext(new)
    BY <1>0, <1>2, LoopPrefix DEF Index!IsNext
  <1> QED
    BY <1>3, <1>4, <1>5 DEF Index!AppendNext

\* A new block keeps the invariant.
LEMMA CommitKeeps ==
    ASSUME TableInv, TypeInv', CommitBlock
    PROVE  TableInv'
  <1> DEFINE new == [height |-> height, chain |-> CurrentChain]
  <1> USE NodesAssumption
  <1>0. InLoop /\ blocks' = blocks \cup {new}
    BY DEF CommitBlock
  <1>1. /\ UNCHANGED <<up, stored, executed, nodeIndex, chainRecord, pc, latest>>
        /\ height' = height + 1
        /\ dbHeight' = height /\ chainHeight' = latest /\ initialized' = TRUE
    BY DEF CommitBlock, SetHeights, nodeVars
  <1>2. KnownHeights \subseteq KnownHeights' /\ height \in KnownHeights'
    <2>1. new \in blocks' /\ new.height = height /\ blocks \subseteq blocks'
      BY <1>0
    <2> QED
      BY <2>1 DEF KnownHeights
  <1>3. /\ height \in Heights
        /\ \A h \in Heights : h < height => h \in KnownHeights
        /\ \A b \in blocks : b.height < height
    BY <1>0, LoopPrefix
  <1>4. nodeIndex \in Slots /\ EarliestHash[nodeIndex] = chainRecord /\ chainRecord # NoHash
    BY <1>0 DEF TableInv, TypeInv, TypeOK, NodesTypeOK, LoopOK, InLoop
  <1>5. ExecutedOK'
    BY <1>1 DEF TableInv, ExecutedOK
  <1>6. ChainOK'
    <2>1. \A n \in Slots : EarliestHash[n] = chainRecord => ChainOf[n] = CurrentChain
      BY <1>4 DEF CurrentChain
    <2> QED
      BY <1>0, <1>1, <1>4, <2>1 DEF TableInv, ChainOK
  <1>7. LoopOK'
    <2>1. latest <= stored[nodeIndex]
      BY <1>0 DEF TableInv, LoopOK, InLoop
    <2>2. \A b \in blocks' : b.height < height'
      <3>1. new.height < height'
        BY <1>1, <1>3 DEF Heights
      <3>2. \A b \in blocks : b.height \in Heights
        BY DEF TableInv, TypeInv, TypeOK
      <3>3. \A b \in blocks : b.height < height'
        BY <1>1, <1>3, <3>2 DEF Heights
      <3> QED
        BY <1>0, <3>1, <3>3
    <2>3. new \in blocks' /\ new.height = height' - 1
      BY <1>0, <1>1, <1>3 DEF Heights
    <2> QED
      BY <1>1, <1>4, <2>1, <2>2, <2>3 DEF LoopOK
  <1>8. NoGaps'
    <2>1. ASSUME NEW h \in 1 .. height
          PROVE  h \in KnownHeights'
      BY <1>2, <1>3 DEF Heights
    <2>2. \A b \in blocks : \A h \in 1 .. b.height : h \in KnownHeights'
      BY <1>2 DEF TableInv, NoGaps
    <2> QED
      BY <1>0, <2>1, <2>2 DEF NoGaps
  <1>9. GateOK'
    BY <1>1, <1>2, <1>3 DEF GateOK
  <1> QED
    BY <1>5, <1>6, <1>7, <1>8, <1>9 DEF TableInv

\* A skipped head keeps the invariant: the loop is over.
LEMMA SkipKeeps ==
    ASSUME TableInv, TypeInv', EveryBlockServed, SkipBlock
    PROVE  TableInv'
  <1> USE NodesAssumption
  <1>1. /\ UNCHANGED <<up, stored, executed, nodeIndex, blocks, chainRecord, pc, latest>>
        /\ height' = height + 1
        /\ dbHeight' = height /\ chainHeight' = latest /\ initialized' = TRUE
    BY DEF SkipBlock, SetHeights, nodeVars, dbVars
  <1>2. InLoop /\ height = latest
    BY OnlyHeadIsSkipped DEF SkipBlock
  <1>3. /\ height \in Heights
        /\ \A h \in Heights : h < height => h \in KnownHeights
        /\ \A b \in blocks : b.height < height
    BY <1>2, LoopPrefix
  <1>4. ExecutedOK' /\ ChainOK' /\ NoGaps'
    BY <1>1 DEF TableInv, ExecutedOK, ChainOK, NoGaps, KnownHeights
  <1>5. LoopOK'
    <2>1. \A b \in blocks : b.height \in Heights
      BY DEF TableInv, TypeInv, TypeOK
    <2>2. \A b \in blocks' : b.height < height'
      BY <1>1, <1>3, <2>1 DEF Heights
    <2>3. ~(height' <= latest')
      BY <1>1, <1>2, <1>3 DEF Heights
    <2> QED
      BY <1>1, <1>2, <2>2, <2>3 DEF TableInv, LoopOK, InLoop
  <1>6. GateOK'
    BY <1>1, <1>2, <1>3 DEF GateOK, KnownHeights
  <1> QED
    BY <1>4, <1>5, <1>6 DEF TableInv

\* The first contact with a node, or a contact with one of the recorded chain,
\* starts the loop right after the last stored block.
LEMMA StatusKeeps ==
    ASSUME TableInv, TypeInv', GetSyncStatus
    PROVE  TableInv'
  <1> USE NodesAssumption
  <1>1. /\ UNCHANGED <<up, stored, executed, nodeIndex, blocks, dbHeight, chainHeight, initialized>>
        /\ chainRecord \in {NoHash, EarliestHash[nodeIndex]}
        /\ chainRecord' = EarliestHash[nodeIndex]
        /\ latest' = stored[nodeIndex]
    BY DEF GetSyncStatus, MatchesRecord, CurrentHash, nodeVars, stateVars
  <1>2. nodeIndex \in Slots /\ EarliestHash[nodeIndex] # NoHash
    BY DEF TableInv, TypeInv, TypeOK, NodesTypeOK
  <1>3. ExecutedOK' /\ NoGaps' /\ GateOK'
    BY <1>1 DEF TableInv, ExecutedOK, NoGaps, GateOK, KnownHeights
  <1>4. ChainOK'
    BY <1>1, <1>2 DEF TableInv, ChainOK
  <1>5. LoopOK'
    <2>1. PICK known \in 0 .. MaxHeight : IsKnownHeight(known) /\ height' = known + 1
      BY DEF GetSyncStatus
    <2>2. \A b \in blocks : b.height \in Nat /\ b.height <= known
      BY <2>1 DEF IsKnownHeight, KnownHeights, TableInv, TypeInv, TypeOK, Heights
    <2>3. known = 0 \/ \E b \in blocks : b.height = known
      BY <2>1 DEF IsKnownHeight, KnownHeights
    <2>4. \A b \in blocks : b.height < height'
      BY <2>1, <2>2
    <2>5. height' = 1 \/ \E b \in blocks : b.height = height' - 1
      BY <2>1, <2>3
    <2>6. latest' <= stored[nodeIndex]
      BY <1>1, <1>2 DEF TableInv, TypeInv, TypeOK, NodesTypeOK
    <2> QED
      BY <1>1, <2>4, <2>5, <2>6 DEF LoopOK
  <1> QED
    BY <1>3, <1>4, <1>5 DEF TableInv

\* What the nodes do by themselves keeps the invariant.
LEMMA NodesKeep ==
    ASSUME TableInv, TypeInv', NodesStep
    PROVE  TableInv'
  <1> USE NodesAssumption
  <1>0. /\ UNCHANGED <<nodeIndex, blocks, chainRecord, dbHeight, chainHeight, initialized>>
        /\ UNCHANGED <<pc, height, latest>>
    BY DEF NodesStep, dbVars, stateVars, loopVars
  <1>1. NodesTypeOK
    BY DEF TableInv, TypeInv, TypeOK
  <1>2. ExecutedOK' /\ \A n \in Slots : stored[n] <= stored'[n]
    <2>1. ASSUME NEW m \in Configured, NodeGoesDown(m) \/ NodeComesUp(m)
          PROVE  ExecutedOK' /\ \A n \in Slots : stored[n] <= stored'[n]
      BY <1>1, <2>1 DEF NodeGoesDown, NodeComesUp, TableInv, ExecutedOK, NodesTypeOK
    <2>2. ASSUME NEW m \in Configured, StoreNextBlock(m)
          PROVE  ExecutedOK' /\ \A n \in Slots : stored[n] <= stored'[n]
      <3>1. ASSUME NEW n \in Slots
            PROVE  /\ executed[n] \in Nat /\ stored[n] \in Nat
                   /\ stored'[n] = IF n = m THEN stored[n] + 1 ELSE stored[n]
                   /\ executed'[n] \in {executed[n], stored'[n]}
                   /\ n = m => executed[n] = stored[n]
        BY <1>1, <2>2 DEF StoreNextBlock, NodesTypeOK
      <3> QED
        BY <3>1 DEF TableInv, ExecutedOK
    <2>3. ASSUME NEW m \in Configured, ExecuteBlock(m)
          PROVE  ExecutedOK' /\ \A n \in Slots : stored[n] <= stored'[n]
      <3>1. ASSUME NEW n \in Slots
            PROVE  /\ executed[n] \in Nat /\ stored[n] \in Nat
                   /\ stored'[n] = stored[n]
                   /\ executed'[n] \in {executed[n], stored[n]}
        BY <1>1, <2>3 DEF ExecuteBlock, NodesTypeOK
      <3> QED
        BY <3>1 DEF TableInv, ExecutedOK
    <2> QED
      BY <2>1, <2>2, <2>3 DEF NodesStep, NodeFault, NodeStep
  <1>3. ChainOK' /\ NoGaps' /\ GateOK'
    BY <1>0 DEF TableInv, ChainOK, NoGaps, GateOK, KnownHeights
  <1>4. LoopOK'
    <2>1. stored[nodeIndex] <= stored'[nodeIndex] /\ stored[nodeIndex] \in Nat
          /\ stored'[nodeIndex] \in Nat /\ latest \in Nat
      BY <1>1, <1>2, <1>0 DEF NodesTypeOK, TypeInv, TypeOK, TableInv
    <2> QED
      BY <1>0, <2>1 DEF TableInv, LoopOK
  <1> QED
    BY <1>2, <1>3, <1>4 DEF TableInv

\* Initially the table is empty.
LEMMA TableInit == Init => TableInv
  <1> SUFFICES ASSUME Init
               PROVE  TableInv
    OBVIOUS
  <1>1. TypeInv
    BY TypeInit
  <1>2. ExecutedOK
    BY DEF Init, NodesInit, ExecutedOK
  <1>3. ChainOK /\ LoopOK /\ NoGaps /\ GateOK
    BY DEF Init, ChainOK, LoopOK, NoGaps, GateOK
  <1> QED
    BY <1>1, <1>2, <1>3 DEF TableInv

\* Every step keeps the invariant, and either appends the next block or leaves
\* the table as it is.
LEMMA TableStep ==
    ASSUME EveryBlockServed, TableInv, [Next]_vars
    PROVE  TableInv' /\ [Index!AppendNext]_blocks
  <1>0. TypeInv'
    BY TypeStep DEF TableInv
  <1>1. CASE Start \/ TimerFires \/ SyncStatusFails \/ BlockFails \/ EndLoop \/ TransactionThrows
    <2>1. UNCHANGED <<dbVars, stateVars, nodeVars>> /\ pc' # "loop"
      BY <1>1 DEF Start, TimerFires, SyncStatusFails, BlockFails, EndLoop, TransactionThrows,
                  Fail, Succeed, Rearm
    <2> QED
      BY <1>0, <2>1, QuietStep DEF dbVars
  <1>2. CASE GetSyncStatus
    BY <1>0, <1>2, StatusKeeps DEF GetSyncStatus
  <1>3. CASE CommitBlock
    BY <1>0, <1>3, CommitKeeps, CommitAppends
  <1>4. CASE SkipBlock
    BY <1>0, <1>4, SkipKeeps DEF SkipBlock, dbVars
  <1>5. CASE ProcessDies
    <2>1. UNCHANGED <<dbVars, nodeVars>> /\ pc' # "loop" /\ ~initialized'
      BY <1>5 DEF ProcessDies
    <2>2. ExecutedOK' /\ ChainOK' /\ NoGaps'
      BY <2>1 DEF TableInv, ExecutedOK, ChainOK, NoGaps, KnownHeights, dbVars, nodeVars
    <2> QED
      BY <1>0, <2>1, <2>2 DEF TableInv, LoopOK, GateOK, dbVars
  <1>6. CASE NodesStep
    BY <1>0, <1>6, NodesKeep DEF NodesStep, dbVars
  <1>7. CASE UNCHANGED vars
    <2>1. ExecutedOK' /\ ChainOK' /\ LoopOK' /\ NoGaps' /\ GateOK'
      BY <1>7 DEF vars, nodeVars, dbVars, stateVars, loopVars, TableInv, ExecutedOK, ChainOK,
                  LoopOK, NoGaps, GateOK, KnownHeights
    <2> QED
      BY <1>0, <1>7, <2>1 DEF TableInv, vars, dbVars
  <1> QED
    BY <1>1, <1>2, <1>3, <1>4, <1>5, <1>6, <1>7 DEF Next, ServiceStep

-----------------------------------------------------------------------------
(* The theorems *)

\* When no node was restored from a snapshot, the stored heights have no gap,
\* whatever fails, dies or is skipped.
THEOREM Gapless ==
    ASSUME EveryBlockServed
    PROVE  Spec => []NoGaps
  <1>1. TableInv /\ [Next]_vars => TableInv'
    BY TableStep
  <1>2. TableInv => NoGaps
    BY DEF TableInv
  <1> QED
    BY <1>1, <1>2, TableInit, PTL DEF Spec

\* While checkApiAvaibilityOrFail() lets requests through, every block up to
\* MaxDifference below the head the API reports is stored.
THEOREM Gate ==
    ASSUME EveryBlockServed
    PROVE  Spec => []GateSound
  <1>1. TableInv /\ [Next]_vars => TableInv'
    BY TableStep
  <1>2. ASSUME TableInv
        PROVE  GateSound
    <2> SUFFICES ASSUME Synchronized, NEW h \in Heights, h + MaxDifference <= chainHeight
                 PROVE  h \in KnownHeights
      BY DEF GateSound
    <2>1. /\ h \in Nat /\ MaxDifference \in Nat \ {0}
          /\ dbHeight \in Nat /\ chainHeight \in Nat
          /\ dbHeight + MaxDifference >= chainHeight
      BY <1>2, NodesAssumption, SynchronizerAssumption
         DEF TableInv, TypeInv, TypeOK, Heights, Synchronized
    <2>2. /\ h < dbHeight => h \in KnownHeights
          /\ dbHeight = chainHeight \/ dbHeight \in KnownHeights
      BY <1>2 DEF TableInv, GateOK, Synchronized
    <2> QED
      BY <2>1, <2>2
  <1> QED
    BY <1>1, <1>2, TableInit, PTL DEF Spec

\* The block table is an index of one chain, from its first block, that only
\* ever gains the next block: Synchronizer implements ChainIndex.
THEOREM Refinement ==
    ASSUME EveryBlockServed
    PROVE  Spec => ImplementsChainIndex
  <1>1. Init => Index!Init
    BY DEF Init, Index!Init
  <1>2. TableInv /\ [Next]_vars => TableInv' /\ [Index!AppendNext]_blocks
    BY TableStep
  <1> QED
    BY <1>1, <1>2, TableInit, PTL DEF Spec, ImplementsChainIndex, Index!Spec
=============================================================================
