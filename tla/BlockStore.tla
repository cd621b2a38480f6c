----------------------------- MODULE BlockStore -----------------------------
(***************************************************************************)
(* One block at a time, SyncService.syncBlock() runs in one database       *)
(* transaction that also appends the block's microblocks to a binary file  *)
(* outside the database.  This module composes the transaction with        *)
(* MicroblockStorage and with the faults that can separate the two: an     *)
(* exception at any await, a short write, the end of the process, a power  *)
(* loss, and the operator who deletes the database but not the files.      *)
(*                                                                         *)
(* SQLite is external: a COMMIT is atomic and durable, a ROLLBACK restores *)
(* the last committed state.                                               *)
(***************************************************************************)
EXTENDS MicroblockStorage, Sequences

CONSTANTS
    Chains,          \* the chains the node may serve: height -> its microblocks
    MaxHeight,       \* bound: blocks are numbered 1..MaxHeight
    Previous,        \* Previous[m]: the microblock m extends, or NoMicroblock
    NoMicroblock,    \* previousHash of the first microblock of a virtual blockchain
    MaxFileSize,     \* getMaxMicroblockFileSize(), in cells
    FaultPoints,     \* the points of the transaction where an exception may occur
    ProcessMayDie,   \* the process may end without the machine losing power
    MaySkip,         \* the node may have no data for a height below its head
    MayReset,        \* the operator may delete the database
    MaxFaults        \* bound: number of faults, restarts' causes and deletions

Heights == 1 .. MaxHeight
Points  == {"block", "file", "row", "synced", "closed", "counted"}

ASSUME BlockStoreAssumption ==
    /\ MaxHeight \in Nat
    /\ Chains \subseteq [Heights -> Seq(Microblocks)]
    /\ NoMicroblock \notin Microblocks
    /\ Previous \in [Microblocks -> Microblocks \cup {NoMicroblock}]
    /\ MaxFileSize \in Nat \ {0}
    /\ FaultPoints \subseteq Points
    /\ MaxFaults \in Nat

VARIABLES
    db,        \* the committed database
    tx,        \* what the transaction in progress sees (db outside of one)
    pc,        \* "down", "idle", or the point the transaction has reached
    height,    \* the block being stored
    written,   \* microblocks of it stored so far
    chain,     \* the chain the node serves
    faults     \* faults so far

txVars == <<db, tx, pc, height, written>>
vars   == <<storageVars, txVars, chain, faults>>

\* blocks: BlockEntity; rows: MicroblockEntity (primary key hash);
\* files: MicroblockFileEntity, whose ids are 1, 2, ...
EmptyDb == [blocks |-> {}, rows |-> {}, files |-> <<>>]

KnownHeights(d) == {b.height : b \in d.blocks}
IsKnownHeight(d, h) == /\ h \in KnownHeights(d) \cup {0}
                       /\ \A k \in KnownHeights(d) : k <= h

Init ==
    /\ StorageInit
    /\ db = EmptyDb /\ tx = EmptyDb
    /\ pc = "down" /\ height = 0 /\ written = 0
    /\ chain \in Chains
    /\ faults = 0

-----------------------------------------------------------------------------
(* syncBlock() *)

\* commitBlock(): the block's row, its microblock count still 0.  A height for
\* which the node has no data commits nothing and the loop goes on: the block
\* stored next need not follow the last known one.
StartBlock ==
    /\ pc = "idle"
    /\ \E known \in 0 .. MaxHeight, h \in Heights :
        /\ IsKnownHeight(db, known)
        /\ IF MaySkip THEN h > known ELSE h = known + 1
        /\ height' = h
        /\ tx' = [tx EXCEPT !.blocks = @ \cup {[height |-> h, count |-> 0]}]
    /\ written' = 0
    /\ pc' = "block"
    /\ UNCHANGED <<storageVars, db, chain, faults>>

\* Mutant of IsFull: a file that has just reached its maximum is still written to.
IsOverfull(size) == size > MaxFileSize

\* beginMicroblockUpdate(): the newest file, or a new one when there is none or
\* the newest is full.
IsFull(size) == size >= MaxFileSize
NeedsNewFile(d) == d.files = <<>> \/ IsFull(d.files[Len(d.files)].size)

FilesToWrite(d) ==
    IF NeedsNewFile(d)
    THEN Append(d.files, [minHeight |-> height, maxHeight |-> height, size |-> 0])
    ELSE d.files

BeginMicroblockUpdate ==
    /\ pc = "block"
    /\ LET files == FilesToWrite(tx)
           id    == Len(files)
       IN  /\ id \in FileIds
           /\ tx' = [tx EXCEPT !.files = files]
           /\ BeginUpdate(id, files[id].size)
    /\ pc' = "file"
    /\ UNCHANGED <<db, height, written, chain, faults>>

\* commitMicroblock(): the row first, then the bytes at the same place.
NextMicroblock == chain[height][written + 1]
HasMore == written < Len(chain[height])
PreviousIsStored(m) == Previous[m] = NoMicroblock \/ \E r \in tx.rows : r.hash = Previous[m]

SaveMicroblock ==
    /\ pc = "file"
    /\ HasMore
    /\ PreviousIsStored(NextMicroblock)
    /\ LET m == NextMicroblock
           row == [hash |-> m, file |-> fileId, offset |-> pointer, height |-> height]
       IN  tx' = [tx EXCEPT !.rows = {r \in @ : r.hash # m} \cup {row}]
    /\ pc' = "row"
    /\ UNCHANGED <<storageVars, db, height, written, chain, faults>>

StoreBytes ==
    /\ pc = "row"
    /\ WriteMicroblock(NextMicroblock)
    /\ written' = written + 1
    /\ pc' = "file"
    /\ UNCHANGED <<db, tx, height, chain, faults>>

\* closeMicroblockUpdate(): fileId and pointer are read before they are reset.
SyncUpdate ==
    /\ pc = "file"
    /\ ~HasMore
    /\ SyncFile
    /\ pc' = "synced"
    /\ UNCHANGED <<db, tx, height, written, chain, faults>>

\* Mutant of CloseUpdate: the pointer is read after closeUpdate() has reset it.
CloseUpdateAfterReset ==
    /\ pc = "synced"
    /\ ReleaseHandle
    /\ tx' = [tx EXCEPT !.files[fileId] = [@ EXCEPT !.maxHeight = height,
                                                    !.size = pointer']]
    /\ pc' = "closed"
    /\ UNCHANGED <<db, height, written, chain, faults>>

\* Mutant of CloseUpdate: the last height of the file is not updated.
CloseUpdateNoHeight ==
    /\ pc = "synced"
    /\ ReleaseHandle
    /\ tx' = [tx EXCEPT !.files[fileId].size = pointer]
    /\ pc' = "closed"
    /\ UNCHANGED <<db, height, written, chain, faults>>

CloseUpdate ==
    /\ pc = "synced"
    /\ ReleaseHandle
    /\ tx' = [tx EXCEPT !.files[fileId] = [@ EXCEPT !.maxHeight = height,
                                                    !.size = pointer]]
    /\ pc' = "closed"
    /\ UNCHANGED <<db, height, written, chain, faults>>

\* commitBlockMicroblocksAndFees()
CommitBlockMicroblocks ==
    /\ pc = "closed"
    /\ tx' = [tx EXCEPT !.blocks = {b \in @ : b.height # height}
                                   \cup {[height |-> height, count |-> written]}]
    /\ pc' = "counted"
    /\ UNCHANGED <<storageVars, db, height, written, chain, faults>>

\* synchronize() finds no new block: the next timer is armed and that is all.
NothingToSync ==
    /\ pc = "idle"
    /\ \A h \in Heights : \E k \in KnownHeights(db) : h <= k
    /\ UNCHANGED vars

EndTransaction == pc' = "idle" /\ height' = 0 /\ written' = 0

Commit ==
    /\ pc = "counted"
    /\ db' = tx
    /\ EndTransaction
    /\ UNCHANGED <<storageVars, tx, chain, faults>>

-----------------------------------------------------------------------------
(* Exceptions.  The transaction is rolled back; nobody touches the storage    *)
(* service, whose handle stays as the exception found it.                     *)

\* Mutant of Rollback: the statements ran outside the transaction.
RollbackNothing == db' = tx /\ EndTransaction /\ UNCHANGED <<tx, chain>>

Rollback == tx' = db /\ EndTransaction /\ UNCHANGED <<db, chain>>

\* "attempt to begin a microblock file update before the previous one was closed"
BeginRefused ==
    /\ pc = "block"
    /\ handle
    /\ Rollback
    /\ UNCHANGED <<storageVars, faults>>

BeginPanics ==
    /\ pc = "block"
    /\ LET files == FilesToWrite(tx)
           id    == Len(files)
       IN  id \in FileIds /\ BeginUpdatePanics(id, files[id].size)
    /\ Rollback
    /\ UNCHANGED faults

\* "unable to find previous microblock": its block was skipped.
PreviousMissing ==
    /\ pc = "file"
    /\ HasMore
    /\ ~PreviousIsStored(NextMicroblock)
    /\ Rollback
    /\ UNCHANGED <<storageVars, faults>>

CountFault == faults < MaxFaults /\ faults' = faults + 1

\* The node, SQLite or the file system fails the call in progress.
CallFails ==
    /\ pc \in FaultPoints
    /\ CountFault
    /\ Rollback
    /\ UNCHANGED storageVars

WriteFallsShort ==
    /\ pc = "row"
    /\ pc \in FaultPoints
    /\ CountFault
    /\ \E n \in 1 .. FileCapacity : ShortWrite(NextMicroblock, n)
    /\ Rollback

-----------------------------------------------------------------------------
(* The process, the machine and the operator. *)

Down == tx' = db /\ pc' = "down" /\ height' = 0 /\ written' = 0 /\ UNCHANGED db

ProcessDies ==
    /\ pc # "down"
    /\ ProcessMayDie
    /\ CountFault
    /\ Down
    /\ ServiceExits
    /\ UNCHANGED chain

PowerFails ==
    /\ CountFault
    /\ Down
    /\ LosePower
    /\ UNCHANGED chain

StartProcess ==
    /\ pc = "down"
    /\ pc' = "idle"
    /\ UNCHANGED <<storageVars, db, tx, height, written, chain, faults>>

\* "Was the chain reset? If so, please delete the database and restart."
DeleteDatabase ==
    /\ pc = "down"
    /\ MayReset
    /\ CountFault
    /\ db' = EmptyDb /\ tx' = EmptyDb
    /\ chain' \in Chains
    /\ UNCHANGED <<storageVars, pc, height, written>>

-----------------------------------------------------------------------------

SyncStep ==
    \/ StartBlock
    \/ BeginMicroblockUpdate
    \/ SaveMicroblock
    \/ StoreBytes
    \/ SyncUpdate
    \/ CloseUpdate
    \/ CommitBlockMicroblocks
    \/ Commit
    \/ NothingToSync
    \/ BeginRefused
    \/ BeginPanics
    \/ PreviousMissing

Fault ==
    \/ CallFails
    \/ WriteFallsShort
    \/ ProcessDies
    \/ PowerFails
    \/ DeleteDatabase

Next == SyncStep \/ StartProcess \/ Fault

Spec == Init /\ [][Next]_vars

\* The timer chain of synchronize() never ends and a supervisor restarts the
\* process: a step of the transaction that can be taken is eventually taken.
Fairness == WF_vars(SyncStep) /\ WF_vars(StartProcess)

FairSpec == Spec /\ Fairness

-----------------------------------------------------------------------------
(* Properties *)

BlockRecords == [height : Heights, count : Nat]
MicroblockRecords == [hash : Microblocks, file : FileIds, offset : 0 .. FileCapacity,
                      height : Heights]
FileRecords == [minHeight : Heights, maxHeight : Heights, size : 0 .. FileCapacity]
Databases == [blocks : SUBSET BlockRecords, rows : SUBSET MicroblockRecords,
              files : Seq(FileRecords)]

\* Every variable of the transaction and of the storage service has its type.
TypeOK ==
    /\ StorageTypeOK
    /\ db \in Databases /\ Len(db.files) <= MaxFileId
    /\ tx \in Databases /\ Len(tx.files) <= MaxFileId
    /\ pc \in {"down", "idle"} \cup Points
    /\ height \in 0 .. MaxHeight
    /\ written \in Nat
    /\ chain \in Chains
    /\ faults \in 0 .. MaxFaults

\* A microblock whose row is committed can be read back, byte for byte, in
\* every state the indexer can reach: through rollbacks, short writes, restarts,
\* power losses and the overwriting of what an unfinished update left behind.
IsReadable(r) == ReadMicroblock(r.file, r.offset, Size[r.hash]) = Bytes(r.hash)

CommittedReadable == \A r \in db.rows : IsReadable(r)

\* The row whose bytes are still to be written.
IsPending(r) == pc = "row" /\ r.hash = NextMicroblock

\* The HTTP handlers see the rows of the open transaction.  Whenever they read one,
\* uncommitted, over the leftovers of an earlier attempt, at any point of the update,
\* its bytes are in the file; only those of the microblock in process may not be.
VisibleReadable == \A r \in tx.rows : IsPending(r) \/ IsReadable(r)

\* Even when a file is lost with its directory entry, reading a committed
\* microblock gives its bytes or an error, never the bytes of something else:
\* beginUpdate() refuses to write past the end of a file.
NeverWrongBytes ==
    \A r \in db.rows : ReadMicroblock(r.file, r.offset, Size[r.hash]) \in {Bytes(r.hash), ReadError}

\* The file the next update opens is never shorter than the database says: the
\* "PANIC - file is shorter than expected" of beginUpdate() cannot be reached.
NeverShorterThanExpected ==
    \A f \in DOMAIN db.files : db.files[f].size <= length[f]

\* The heights recorded for a file are those of the microblocks stored in it.
FileHeightsCover ==
    \A r \in db.rows :
        /\ r.file \in DOMAIN db.files
        /\ db.files[r.file].minHeight <= r.height
        /\ r.height <= db.files[r.file].maxHeight

\* A file whose committed size has reached getMaxMicroblockFileSize() is closed for
\* good: whatever was rolled back, lost or left open by an exception since, no update
\* has it open, no row of the transaction is new in it and its record stays.
FullFilesClosed ==
    \A f \in DOMAIN db.files : db.files[f].size >= MaxFileSize =>
        /\ ~(handle /\ fileId = f)
        /\ \A r \in tx.rows : r.file = f => r \in db.rows
        /\ f \in DOMAIN tx.files /\ tx.files[f] = db.files[f]

\* What a client of the indexer can obtain, block by block.
Served ==
    {[height |-> b.height,
      count  |-> b.count,
      microblocks |-> {r.hash : r \in {q \in db.rows : q.height = b.height /\ IsReadable(q)}}]
     : b \in db.blocks}

Archive == INSTANCE BlockArchive WITH archive <- Served

\* The stored blocks behave as an archive that only ever gains whole blocks.
ImplementsArchive == Archive!Spec

\* Once faults stop, every block of the chain is eventually stored for good.
EventuallyIndexed == <>[](KnownHeights(db) = Heights)

\* The same where a power loss may take a file with its directory entry: a file that
\* lost committed bytes is refused for ever, any other one is used again.
IndexedUnlessLost ==
    []<>(\A f \in DOMAIN db.files : db.files[f].size <= length[f]) => EventuallyIndexed
=============================================================================
