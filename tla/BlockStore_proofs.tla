------------------------- MODULE BlockStore_proofs -------------------------
(***************************************************************************)
(* Theorems about BlockStore, for every set of microblocks and chains and  *)
(* every value of the bounds.                                              *)
(***************************************************************************)
EXTENDS BlockStore, SequenceTheorems, TLAPS

-----------------------------------------------------------------------------
(* Type correctness *)

\* Opening a file keeps the types, wherever the pointer is left.
LEMMA OpenFileType ==
    ASSUME StorageTypeOK, NEW f \in FileIds, OpenFile(f), pointer' \in 0 .. FileCapacity
    PROVE  StorageTypeOK'
  BY StorageAssumption DEF StorageTypeOK, OpenFile, FileIds

\* Storing any number of cells of a microblock within the file keeps the types.
LEMMA PutCellsType ==
    ASSUME StorageTypeOK, fileId \in FileIds, NEW m \in Microblocks, NEW n \in Nat,
           pointer + n <= FileCapacity, PutCells(m, n),
           pointer' \in 0 .. FileCapacity, UNCHANGED <<handle, fileId, isNewFile>>
    PROVE  StorageTypeOK'
  <1>1. \A o \in Offsets : o \in pointer .. pointer + n - 1 => <<m, o - pointer + 1>> \in Cells
    BY StorageAssumption DEF StorageTypeOK, Offsets, Cells, Units
  <1>2. content' \in [FileIds -> [Offsets -> Cells]]
    BY <1>1 DEF StorageTypeOK, PutCells
  <1>3. length' \in [FileIds -> 0 .. FileCapacity]
    BY StorageAssumption DEF StorageTypeOK, PutCells, LongestOf
  <1> QED  BY <1>2, <1>3 DEF StorageTypeOK, PutCells

\* fsync keeps the types.
LEMMA SyncFileType ==
    ASSUME StorageTypeOK, fileId \in FileIds, SyncFile
    PROVE  StorageTypeOK'
  BY DEF StorageTypeOK, SyncFile, serviceVars

\* A fresh service object has the types.
LEMMA ForgetServiceType ==
    ASSUME ForgetService
    PROVE  /\ handle' \in BOOLEAN /\ isNewFile' \in BOOLEAN
           /\ fileId' \in 0 .. MaxFileId /\ pointer' \in 0 .. FileCapacity
  <1>1. handle' \in BOOLEAN /\ isNewFile' \in BOOLEAN
    BY Zenon DEF ForgetService
  <1>2. fileId' \in 0 .. MaxFileId /\ pointer' \in 0 .. FileCapacity
    BY StorageAssumption, SMT DEF ForgetService
  <1> QED  BY <1>1, <1>2

\* Closing the file keeps the types.
LEMMA ReleaseHandleType ==
    ASSUME StorageTypeOK, ReleaseHandle
    PROVE  StorageTypeOK'
  <1>1. PersistedEntries \in [FileIds -> {"absent", "cached", "durable"}]
    BY DEF StorageTypeOK, PersistedEntries
  <1>2. entry' \in [FileIds -> {"absent", "cached", "durable"}]
    BY <1>1 DEF StorageTypeOK, ReleaseHandle
  <1> QED  BY <1>2, ForgetServiceType, Zenon DEF StorageTypeOK, ReleaseHandle

\* Whatever a power loss leaves has the types of a file.
LEMMA LosePowerType ==
    ASSUME StorageTypeOK, LosePower
    PROVE  StorageTypeOK'
  <1>1. PICK lost \in SUBSET {f \in FileIds : entry[f] = "cached"},
             n \in SurvivingLengths,
             kept \in SUBSET UNION {{<<f, o>> : o \in Unsynced(f)} : f \in FileIds} :
          /\ entry' = [f \in FileIds |->
                         IF f \in lost \/ entry[f] = "absent" THEN "absent" ELSE "durable"]
          /\ length' = [f \in FileIds |-> IF f \in lost THEN 0 ELSE n[f]]
          /\ content' = [f \in FileIds |-> IF f \in lost THEN [o \in Offsets |-> Blank]
                                           ELSE Remains(f, kept, n[f])]
          /\ disk' = content'
          /\ diskLength' = length'
          /\ ForgetService
    BY DEF LosePower
  <1>2. \A f \in FileIds : Remains(f, kept, n[f]) \in [Offsets -> Cells]
    BY DEF StorageTypeOK, Remains, Cells
  <1>3. [o \in Offsets |-> Blank] \in [Offsets -> Cells]
    BY DEF Cells
  <1>4. content' \in [FileIds -> [Offsets -> Cells]]
    BY <1>1, <1>2, <1>3
  <1>5. length' \in [FileIds -> 0 .. FileCapacity]
    BY <1>1, StorageAssumption DEF SurvivingLengths
  <1>6. entry' \in [FileIds -> {"absent", "cached", "durable"}]
    BY <1>1
  <1> QED  BY <1>1, <1>4, <1>5, <1>6, ForgetServiceType, Zenon DEF StorageTypeOK

\* The file list after beginMicroblockUpdate() is a list of file records that is
\* at most one record longer, the older records being those it had.
LEMMA FilesToWriteType ==
    ASSUME NEW d \in Databases, height \in Heights
    PROVE  /\ FilesToWrite(d) \in Seq(FileRecords)
           /\ FilesToWrite(d) # <<>>
           /\ Len(d.files) <= Len(FilesToWrite(d))
           /\ \A f \in 1 .. Len(d.files) : FilesToWrite(d)[f] = d.files[f]
           /\ \A f \in 1 .. Len(FilesToWrite(d)) :
                f \notin 1 .. Len(d.files) => FilesToWrite(d)[f].size = 0
  <1> DEFINE new == [minHeight |-> height, maxHeight |-> height, size |-> 0]
  <1>1. d.files \in Seq(FileRecords)
    BY DEF Databases
  <1>2. new \in FileRecords
    BY StorageAssumption DEF FileRecords
  <1>3. CASE NeedsNewFile(d)
    <2>1. FilesToWrite(d) = Append(d.files, new)
      BY <1>3 DEF FilesToWrite
    <2>2. /\ Append(d.files, new) \in Seq(FileRecords)
          /\ Len(Append(d.files, new)) = Len(d.files) + 1
          /\ \A f \in 1 .. Len(d.files) : Append(d.files, new)[f] = d.files[f]
          /\ Append(d.files, new)[Len(d.files) + 1] = new
      BY <1>1, <1>2, AppendProperties
    <2> HIDE DEF new
    <2>3. new.size = 0
      BY DEF new
    <2>4. Len(d.files) \in Nat
      BY <1>1
    <2> QED  BY <2>1, <2>2, <2>3, <2>4
  <1>4. CASE ~NeedsNewFile(d)
    BY <1>1, <1>4 DEF FilesToWrite, NeedsNewFile
  <1> QED  BY <1>3, <1>4

\* The microblock to store next is one of the block's.
LEMMA NextMicroblockType ==
    ASSUME chain \in Chains, height \in Heights, written \in Nat, HasMore
    PROVE  NextMicroblock \in Microblocks
  <1>1. chain[height] \in Seq(Microblocks)
    BY BlockStoreAssumption
  <1>2. written + 1 \in 1 .. Len(chain[height])
    BY <1>1 DEF HasMore
  <1> QED  BY <1>1, <1>2 DEF NextMicroblock

\* The control state: which block is being stored, how far it has come, and the
\* file that is open at the points between begin and close.
InWindow == pc \in {"file", "row", "synced"}

PhaseOK ==
    /\ pc \in {"down", "idle"} => tx = db
    /\ pc \in Points => height \in Heights /\ written <= Len(chain[height])
    /\ pc = "row" => HasMore
    /\ pc \in {"synced", "closed", "counted"} => ~HasMore
    /\ handle => fileId \in FileIds /\ entry[fileId] # "absent"
    /\ InWindow => handle /\ tx.files # <<>> /\ fileId = Len(tx.files)

TypeInv == TypeOK /\ PhaseOK

\* The initial state is well typed.
LEMMA TypeInvInit == Init => TypeInv
  <1> SUFFICES ASSUME Init PROVE TypeInv
    OBVIOUS
  <1> DEFINE empty == [f \in FileIds |-> [o \in Offsets |-> Blank]]
  <1>1. StorageTypeOK
    <2>1. handle \in BOOLEAN /\ isNewFile \in BOOLEAN
      BY Zenon DEF Init, StorageInit
    <2>2. /\ fileId \in 0 .. MaxFileId /\ pointer \in 0 .. FileCapacity
          /\ length \in [FileIds -> 0 .. FileCapacity]
          /\ diskLength \in [FileIds -> 0 .. FileCapacity]
      BY StorageAssumption DEF Init, StorageInit
    <2>3. empty \in [FileIds -> [Offsets -> Cells]]
      BY DEF Cells
    <2>4. content \in [FileIds -> [Offsets -> Cells]] /\ disk \in [FileIds -> [Offsets -> Cells]]
      BY <2>3, Zenon DEF Init, StorageInit
    <2>5. entry \in [FileIds -> {"absent", "cached", "durable"}]
      BY DEF Init, StorageInit
    <2> QED  BY <2>1, <2>2, <2>4, <2>5, Zenon DEF StorageTypeOK
  <1>2. EmptyDb \in Databases /\ Len(EmptyDb.files) <= MaxFileId
    BY StorageAssumption DEF EmptyDb, Databases
  <1>3. TypeOK
    BY <1>1, <1>2, BlockStoreAssumption DEF Init, TypeOK
  <1>4. PhaseOK
    BY DEF Init, StorageInit, PhaseOK, InWindow, Points
  <1> QED  BY <1>3, <1>4 DEF TypeInv

\* Every step, of the transaction or a fault, keeps the types.
LEMMA TypeInvStep == TypeInv /\ [Next]_vars => TypeInv'
  <1> SUFFICES ASSUME TypeInv, [Next]_vars PROVE TypeInv'
    OBVIOUS
  <1> USE BlockStoreAssumption
  <1>s. StorageTypeOK /\ TypeOK /\ PhaseOK
    BY DEF TypeInv, TypeOK
  <1>u. UNCHANGED storageVars => /\ StorageTypeOK' /\ UNCHANGED <<handle, fileId, entry>>
    BY <1>s DEF storageVars, serviceVars, fileVars, StorageTypeOK
  <1>h. pc \in Points => height \in Heights
    BY <1>s DEF PhaseOK
  <1>w. pc \in {"file", "row", "synced"} => fileId \in FileIds /\ handle
    BY <1>s DEF PhaseOK, InWindow
  <1>b. /\ 0 \in 0 .. MaxHeight /\ 0 \in Nat
        /\ \A h \in Heights : h \in 0 .. MaxHeight
    BY DEF Heights
  \* A rollback, whatever it leaves of the storage.
  <1>r. ASSUME Rollback, faults' \in 0 .. MaxFaults, StorageTypeOK',
               handle' => fileId' \in FileIds /\ entry'[fileId'] # "absent"
        PROVE  TypeInv'
    <2>1. /\ UNCHANGED <<db, chain>> /\ tx' = db
          /\ pc' = "idle" /\ height' = 0 /\ written' = 0
      BY <1>r DEF Rollback, EndTransaction
    <2>2. TypeOK'
      BY <1>r, <1>s, <1>b, <2>1 DEF TypeOK
    <2>3. PhaseOK'
      BY <1>r, <2>1 DEF PhaseOK, InWindow, Points
    <2> QED  BY <2>2, <2>3 DEF TypeInv
  <1>c. CountFault => faults' \in 0 .. MaxFaults
    BY <1>s DEF CountFault, TypeOK
  <1>f. faults \in 0 .. MaxFaults
    BY <1>s DEF TypeOK
  <1>1. CASE StartBlock
    <2>1. PICK h \in Heights :
             /\ height' = h
             /\ tx' = [tx EXCEPT !.blocks = @ \cup {[height |-> h, count |-> 0]}]
      BY <1>1 DEF StartBlock
    <2>0. [height |-> h, count |-> 0] \in BlockRecords
      BY DEF BlockRecords
    <2>2. tx' \in Databases /\ tx'.files = tx.files
      BY <1>s, <2>0, <2>1 DEF TypeOK, Databases
    <2>3. UNCHANGED <<storageVars, db, chain, faults>> /\ written' = 0 /\ pc' = "block"
      BY <1>1 DEF StartBlock
    <2>4. TypeOK'
      BY <1>s, <1>u, <1>b, <2>1, <2>2, <2>3 DEF TypeOK, Points
    <2>5. chain[height'] \in Seq(Microblocks)
      BY <1>s, <2>1 DEF TypeOK
    <2>6. PhaseOK'
      BY <1>s, <1>u, <2>1, <2>3, <2>5 DEF PhaseOK, InWindow, Points
    <2> QED  BY <2>4, <2>6 DEF TypeInv
  <1>2. CASE BeginMicroblockUpdate
    <2> DEFINE files == FilesToWrite(tx)
               id    == Len(files)
    <2>1. /\ pc = "block" /\ pc' = "file"
          /\ id \in FileIds
          /\ tx' = [tx EXCEPT !.files = files]
          /\ BeginUpdate(id, files[id].size)
          /\ UNCHANGED <<db, height, written, chain, faults>>
      BY <1>2 DEF BeginMicroblockUpdate
    <2>2. files \in Seq(FileRecords) /\ files # <<>>
      BY <1>s, <1>h, <2>1, FilesToWriteType DEF TypeOK, Points
    <2> HIDE DEF files
    <2>3. tx' \in Databases /\ tx'.files = files
      BY <1>s, <2>1, <2>2 DEF TypeOK, Databases
    <2>4. files[id] \in FileRecords
      BY <2>2
    <2>5. OpenFile(id) /\ pointer' \in 0 .. FileCapacity
      BY <2>1, <2>4 DEF BeginUpdate, FileRecords
    <2>6. StorageTypeOK'
      BY <1>s, <2>1, <2>5, OpenFileType
    <2>7. handle' /\ fileId' = id /\ entry'[id] # "absent"
      BY <1>s, <2>1, <2>5 DEF OpenFile, StorageTypeOK
    <2>8. TypeOK'
      BY <1>s, <2>1, <2>3, <2>6 DEF TypeOK, Points, FileIds
    <2>9. PhaseOK'
      BY <1>s, <2>1, <2>2, <2>3, <2>7 DEF PhaseOK, InWindow, Points, FileIds
    <2> QED  BY <2>8, <2>9 DEF TypeInv
  <1>3. CASE SaveMicroblock
    <2> DEFINE row == [hash |-> NextMicroblock, file |-> fileId, offset |-> pointer,
                       height |-> height]
    <2>1. /\ pc = "file" /\ HasMore /\ pc' = "row"
          /\ tx' = [tx EXCEPT !.rows = {r \in @ : r.hash # NextMicroblock} \cup {row}]
          /\ UNCHANGED <<storageVars, db, height, written, chain, faults>>
      BY <1>3 DEF SaveMicroblock
    <2>2. row \in MicroblockRecords
      BY <1>s, <1>h, <1>w, <2>1, NextMicroblockType
      DEF MicroblockRecords, TypeOK, StorageTypeOK, Points
    <2>3. tx' \in Databases /\ tx'.files = tx.files
      BY <1>s, <2>1, <2>2 DEF TypeOK, Databases
    <2>4. TypeOK'
      BY <1>s, <1>u, <2>1, <2>3 DEF TypeOK, Points
    <2>5. HasMore'
      BY <2>1 DEF HasMore
    <2>6. PhaseOK'
      BY <1>s, <1>u, <2>1, <2>3, <2>5 DEF PhaseOK, InWindow, Points
    <2> QED  BY <2>4, <2>6 DEF TypeInv
  <1>4. CASE StoreBytes
    <2> DEFINE n == Size[NextMicroblock]
    <2>1. /\ pc = "row" /\ pc' = "file" /\ written' = written + 1
          /\ handle /\ pointer + n <= FileCapacity
          /\ PutCells(NextMicroblock, n)
          /\ pointer' = pointer + n
          /\ UNCHANGED <<handle, fileId, isNewFile, db, tx, height, chain, faults>>
      BY <1>4 DEF StoreBytes, WriteMicroblock
    <2>2. HasMore /\ height \in Heights /\ chain[height] \in Seq(Microblocks)
      BY <1>s, <2>1 DEF PhaseOK, Points, TypeOK
    <2>3. NextMicroblock \in Microblocks /\ n \in Nat
      BY <1>s, <2>2, NextMicroblockType, StorageAssumption DEF TypeOK
    <2>4. pointer' \in 0 .. FileCapacity
      BY <1>s, <2>1, <2>3, StorageAssumption DEF StorageTypeOK
    <2>5. StorageTypeOK'
      BY <1>s, <1>w, <2>1, <2>3, <2>4, PutCellsType
    <2>6. TypeOK'
      BY <1>s, <2>1, <2>5 DEF TypeOK, Points
    <2>7. written' <= Len(chain'[height'])
      BY <1>s, <2>1, <2>2 DEF HasMore, TypeOK
    <2>8. UNCHANGED entry
      BY <2>1 DEF PutCells
    <2>9. PhaseOK'
      BY <1>s, <2>1, <2>2, <2>7, <2>8 DEF PhaseOK, InWindow, Points
    <2> QED  BY <2>6, <2>9 DEF TypeInv
  <1>5. CASE SyncUpdate
    <2>1. /\ pc = "file" /\ ~HasMore /\ SyncFile /\ pc' = "synced"
          /\ UNCHANGED <<db, tx, height, written, chain, faults>>
      BY <1>5 DEF SyncUpdate
    <2>2. StorageTypeOK'
      BY <1>s, <1>w, <2>1, SyncFileType
    <2>3. TypeOK'
      BY <1>s, <2>1, <2>2 DEF TypeOK, Points
    <2>4. /\ UNCHANGED <<handle, fileId>>
          /\ entry[fileId] # "absent" => entry'[fileId] # "absent"
      BY <1>s, <1>w, <2>1 DEF SyncFile, serviceVars, StorageTypeOK
    <2>5. ~HasMore'
      BY <2>1 DEF HasMore
    <2>6. PhaseOK'
      BY <1>s, <2>1, <2>4, <2>5 DEF PhaseOK, InWindow, Points
    <2> QED  BY <2>3, <2>6 DEF TypeInv
  <1>6. CASE CloseUpdate
    <2> DEFINE closed == [tx.files[fileId] EXCEPT !.maxHeight = height, !.size = pointer]
    <2>1. /\ pc = "synced" /\ ReleaseHandle /\ pc' = "closed"
          /\ tx' = [tx EXCEPT !.files = [@ EXCEPT ![fileId] = closed]]
          /\ UNCHANGED <<db, height, written, chain, faults>>
      BY <1>6 DEF CloseUpdate
    <2>2. /\ tx.files \in Seq(FileRecords) /\ fileId \in 1 .. Len(tx.files)
          /\ height \in Heights /\ ~HasMore
      BY <1>s, <1>w, <2>1 DEF PhaseOK, InWindow, TypeOK, Databases, Points, FileIds
    <2>e. tx.files[fileId] \in FileRecords
      BY <2>2
    <2>3. closed \in FileRecords
      BY <1>s, <2>2, <2>e DEF FileRecords, StorageTypeOK
    <2> HIDE DEF closed
    <2>4. /\ [tx.files EXCEPT ![fileId] = closed] \in Seq(FileRecords)
          /\ Len([tx.files EXCEPT ![fileId] = closed]) = Len(tx.files)
      BY <2>2, <2>3, ExceptSeq
    <2>5. tx' \in Databases /\ Len(tx'.files) = Len(tx.files)
      BY <1>s, <2>1, <2>4 DEF TypeOK, Databases
    <2>6. StorageTypeOK' /\ ~handle'
      BY <1>s, <2>1, ReleaseHandleType DEF ReleaseHandle, ForgetService
    <2>7. TypeOK'
      BY <1>s, <2>1, <2>5, <2>6 DEF TypeOK, Points
    <2>8. ~HasMore'
      BY <2>1, <2>2 DEF HasMore
    <2>9. PhaseOK'
      BY <1>s, <2>1, <2>6, <2>8 DEF PhaseOK, InWindow, Points
    <2> QED  BY <2>7, <2>9 DEF TypeInv
  <1>7. CASE CommitBlockMicroblocks
    <2> DEFINE b == [height |-> height, count |-> written]
    <2>1. /\ pc = "closed" /\ pc' = "counted"
          /\ tx' = [tx EXCEPT !.blocks = {q \in @ : q.height # height} \cup {b}]
          /\ UNCHANGED <<storageVars, db, height, written, chain, faults>>
      BY <1>7 DEF CommitBlockMicroblocks
    <2>2. b \in BlockRecords
      BY <1>s, <1>h, <2>1 DEF BlockRecords, TypeOK, Points
    <2>3. tx' \in Databases /\ tx'.files = tx.files
      BY <1>s, <2>1, <2>2 DEF TypeOK, Databases
    <2>4. TypeOK'
      BY <1>s, <1>u, <2>1, <2>3 DEF TypeOK, Points
    <2>5. HasMore' = HasMore
      BY <2>1 DEF HasMore
    <2>6. PhaseOK'
      BY <1>s, <1>u, <2>1, <2>3, <2>5 DEF PhaseOK, InWindow, Points
    <2> QED  BY <2>4, <2>6 DEF TypeInv
  <1>8. CASE Commit
    <2>1. /\ db' = tx /\ pc' = "idle" /\ height' = 0 /\ written' = 0
          /\ UNCHANGED <<storageVars, tx, chain, faults>>
      BY <1>8 DEF Commit, EndTransaction
    <2>2. TypeOK'
      BY <1>s, <1>u, <1>b, <2>1 DEF TypeOK
    <2>3. PhaseOK'
      BY <1>s, <1>u, <2>1 DEF PhaseOK, InWindow, Points
    <2> QED  BY <2>2, <2>3 DEF TypeInv
  <1>9. CASE BeginRefused
    BY <1>9, <1>r, <1>s, <1>u, <1>f DEF BeginRefused, PhaseOK
  <1>10. CASE BeginPanics
    <2> DEFINE id == Len(FilesToWrite(tx))
    <2>1. /\ id \in FileIds /\ OpenFile(id) /\ UNCHANGED pointer
          /\ Rollback /\ UNCHANGED faults
      BY <1>10 DEF BeginPanics, BeginUpdatePanics
    <2> HIDE DEF id
    <2>2. StorageTypeOK'
      BY <1>s, <2>1, OpenFileType DEF StorageTypeOK
    <2>3. fileId' = id /\ entry'[id] # "absent"
      BY <1>s, <2>1 DEF OpenFile, StorageTypeOK
    <2> QED  BY <1>r, <1>f, <2>1, <2>2, <2>3
  <1>11. CASE PreviousMissing
    BY <1>11, <1>r, <1>s, <1>u, <1>f DEF PreviousMissing, PhaseOK
  <1>12. CASE CallFails
    BY <1>12, <1>r, <1>s, <1>u, <1>c DEF CallFails, PhaseOK
  <1>13. CASE WriteFallsShort
    <2>1. PICK n \in 1 .. FileCapacity : ShortWrite(NextMicroblock, n)
      BY <1>13 DEF WriteFallsShort
    <2>2. pc = "row" /\ CountFault /\ Rollback
      BY <1>13 DEF WriteFallsShort
    <2>3. NextMicroblock \in Microblocks
      BY <1>s, <2>2, NextMicroblockType DEF PhaseOK, Points, TypeOK
    <2>4. /\ handle /\ pointer + n <= FileCapacity /\ PutCells(NextMicroblock, n)
          /\ UNCHANGED <<handle, fileId, isNewFile, pointer>>
      BY <2>1 DEF ShortWrite, serviceVars
    <2>5. n \in Nat
      BY StorageAssumption
    <2>6. StorageTypeOK'
      BY <1>s, <1>w, <2>2, <2>3, <2>4, <2>5, PutCellsType DEF StorageTypeOK
    <2>7. UNCHANGED entry
      BY <2>4 DEF PutCells
    <2> QED  BY <1>r, <1>c, <1>s, <2>2, <2>4, <2>6, <2>7 DEF PhaseOK
  <1>14. ASSUME Down, faults' \in 0 .. MaxFaults, StorageTypeOK', ~handle', UNCHANGED chain
         PROVE  TypeInv'
    <2>1. UNCHANGED db /\ tx' = db /\ pc' = "down" /\ height' = 0 /\ written' = 0
      BY <1>14 DEF Down
    <2>2. TypeOK'
      BY <1>14, <1>s, <1>b, <2>1 DEF TypeOK
    <2>3. PhaseOK'
      BY <1>14, <2>1 DEF PhaseOK, InWindow, Points
    <2> QED  BY <2>2, <2>3 DEF TypeInv
  <1>15. CASE ProcessDies
    <2>1. Down /\ CountFault /\ ServiceExits /\ UNCHANGED chain
      BY <1>15 DEF ProcessDies
    <2>2. ForgetService /\ UNCHANGED fileVars
      BY <2>1 DEF ServiceExits
    <2>3. StorageTypeOK'
      BY <1>s, <2>2, ForgetServiceType, Zenon DEF StorageTypeOK, fileVars
    <2> QED  BY <1>14, <1>c, <2>1, <2>2, <2>3 DEF ForgetService
  <1>16. CASE PowerFails
    <2>1. Down /\ CountFault /\ LosePower /\ UNCHANGED chain
      BY <1>16 DEF PowerFails
    <2>2. StorageTypeOK' /\ ~handle'
      BY <1>s, <2>1, LosePowerType DEF LosePower, ForgetService
    <2> QED  BY <1>14, <1>c, <2>1, <2>2
  <1>17. CASE DeleteDatabase
    <2>1. /\ pc = "down" /\ db' = EmptyDb /\ tx' = EmptyDb /\ chain' \in Chains
          /\ UNCHANGED <<storageVars, pc, height, written>> /\ CountFault
      BY <1>17 DEF DeleteDatabase
    <2>2. EmptyDb \in Databases /\ Len(EmptyDb.files) <= MaxFileId
      BY StorageAssumption DEF EmptyDb, Databases
    <2>3. TypeOK'
      BY <1>s, <1>u, <1>c, <2>1, <2>2 DEF TypeOK
    <2>4. PhaseOK'
      BY <1>s, <1>u, <2>1 DEF PhaseOK, InWindow, Points
    <2> QED  BY <2>3, <2>4 DEF TypeInv
  <1>18. CASE StartProcess
    <2>1. pc = "down" /\ pc' = "idle" /\ UNCHANGED <<storageVars, db, tx, height, written, chain, faults>>
      BY <1>18 DEF StartProcess
    <2>2. TypeOK'
      BY <1>s, <1>u, <2>1 DEF TypeOK
    <2>3. PhaseOK'
      BY <1>s, <1>u, <2>1 DEF PhaseOK, InWindow, Points
    <2> QED  BY <2>2, <2>3 DEF TypeInv
  <1>19. CASE UNCHANGED vars
    <2>1. UNCHANGED <<storageVars, db, tx, pc, height, written, chain, faults>>
      BY <1>19 DEF vars, txVars
    <2>2. TypeOK'
      BY <1>s, <1>u, <2>1 DEF TypeOK
    <2>3. PhaseOK'
      BY <1>s, <1>u, <2>1 DEF PhaseOK, InWindow, Points, HasMore
    <2> QED  BY <2>2, <2>3 DEF TypeInv
  <1> QED
    BY <1>1, <1>2, <1>3, <1>4, <1>5, <1>6, <1>7, <1>8, <1>9, <1>10, <1>11, <1>12,
       <1>13, <1>15, <1>16, <1>17, <1>18, <1>19
    DEF Next, SyncStep, Fault, NothingToSync

\* Every variable always has its type.
THEOREM TypeCorrect == Spec => []TypeOK
  <1>1. TypeInv => TypeOK
    BY DEF TypeInv
  <1> QED  BY <1>1, TypeInvInit, TypeInvStep, PTL DEF Spec

-----------------------------------------------------------------------------
(* Durability *)

\* A synced file keeps its directory entry through a power loss: either because
\* fsync of the file persists it, or because the process that created the file
\* always gets to sync the directory before anyone else opens the file.
EntriesSurvive == FsyncPersistsEntry \/ (~ProcessMayDie /\ ~DirSyncMayFail)

\* The first n cells of file f are on disk as they are read.
Safe(f, n) ==
    /\ n <= diskLength[f]
    /\ n > 0 => entry[f] = "durable"
    /\ \A o \in Offsets : o < n => content[f][o] = disk[f][o]

\* The bytes of row r are in its file, within the first n cells.
Placed(r, n) ==
    /\ r.offset + Size[r.hash] <= n
    /\ \A i \in 1 .. Size[r.hash] : content[r.file][r.offset + i - 1] = <<r.hash, i>>

\* How far the transaction has filled file f.
Extent(f) == IF InWindow /\ f = fileId THEN pointer ELSE tx.files[f].size

LengthOK == \A f \in FileIds : diskLength[f] <= length[f]

EntryOK ==
    \/ FsyncPersistsEntry
    \/ \A f \in FileIds : entry[f] = "cached" => handle /\ fileId = f /\ isNewFile

DbSafe == \A f \in 1 .. Len(db.files) : Safe(f, db.files[f].size)
TxSafe == \A f \in 1 .. Len(tx.files) : Safe(f, tx.files[f].size)

DbRows == \A r \in db.rows : /\ r.file \in 1 .. Len(db.files)
                            /\ Placed(r, db.files[r.file].size)

TxRows == \A r \in tx.rows :
    /\ r.file \in 1 .. Len(tx.files)
    /\ IF IsPending(r) THEN r.file = fileId /\ r.offset = pointer
                       ELSE Placed(r, Extent(r.file))

\* The transaction only adds files and lengthens them.
FilesGrow == /\ Len(db.files) <= Len(tx.files)
             /\ \A f \in 1 .. Len(db.files) : db.files[f].size <= tx.files[f].size

WindowOK ==
    InWindow => tx.files[fileId].size <= pointer /\ pointer <= length[fileId]

SyncedOK ==
    pc = "synced" =>
        /\ pointer <= diskLength[fileId]
        /\ \A o \in Offsets : o < pointer => content[fileId][o] = disk[fileId][o]
        /\ FsyncPersistsEntry => entry[fileId] = "durable"

DurabilityInv ==
    /\ LengthOK /\ EntryOK /\ DbSafe /\ TxSafe /\ DbRows /\ TxRows
    /\ FilesGrow /\ WindowOK /\ SyncedOK

\* A step keeps the first n cells of file f: still safe, and the same bytes.
Keeps(f, n) ==
    /\ Safe(f, n)'
    /\ \A o \in Offsets : o < n => content'[f][o] = content[f][o]

\* Opening a file keeps everything that is safe.
LEMMA OpenFileKeeps ==
    ASSUME StorageTypeOK, NEW g \in FileIds, OpenFile(g)
    PROVE  \A f \in FileIds, n \in 0 .. FileCapacity : Safe(f, n) => Keeps(f, n)
  BY DEF StorageTypeOK, OpenFile, Keeps, Safe

\* Writing keeps what is safe elsewhere and before the pointer.
LEMMA PutCellsKeeps ==
    ASSUME StorageTypeOK, fileId \in FileIds, NEW m \in Microblocks, NEW k \in Nat,
           PutCells(m, k)
    PROVE  \A f \in FileIds, n \in 0 .. FileCapacity :
              Safe(f, n) /\ (f = fileId => n <= pointer) => Keeps(f, n)
  <1> SUFFICES ASSUME NEW f \in FileIds, NEW n \in 0 .. FileCapacity,
                      Safe(f, n), f = fileId => n <= pointer
               PROVE  Keeps(f, n)
    OBVIOUS
  <1>1. UNCHANGED <<entry, disk, diskLength>>
    BY DEF PutCells
  <1>2. \A o \in Offsets : o < n => content'[f][o] = content[f][o]
    BY StorageAssumption DEF StorageTypeOK, PutCells, Offsets
  <1> QED  BY <1>1, <1>2 DEF Keeps, Safe

\* fsync keeps everything that is safe.
LEMMA SyncFileKeeps ==
    ASSUME StorageTypeOK, fileId \in FileIds, LengthOK, SyncFile
    PROVE  \A f \in FileIds, n \in 0 .. FileCapacity : Safe(f, n) => Keeps(f, n)
  <1> SUFFICES ASSUME NEW f \in FileIds, NEW n \in 0 .. FileCapacity, Safe(f, n)
               PROVE  Keeps(f, n)
    OBVIOUS
  <1>1. entry[f] = "durable" => entry'[f] = "durable"
    BY DEF StorageTypeOK, SyncFile
  <1>2. content' = content /\ disk'[f] \in {disk[f], content[f]}
    BY DEF StorageTypeOK, SyncFile
  <1>3. n <= diskLength'[f]
    BY StorageAssumption DEF StorageTypeOK, SyncFile, Safe, LengthOK
  <1> QED  BY <1>1, <1>2, <1>3 DEF Keeps, Safe

\* Closing keeps everything that is safe.
LEMMA ReleaseHandleKeeps ==
    ASSUME StorageTypeOK, ReleaseHandle
    PROVE  \A f \in FileIds, n \in 0 .. FileCapacity : Safe(f, n) => Keeps(f, n)
  <1>1. \A f \in FileIds : entry[f] = "durable" => entry'[f] = "durable"
    BY DEF StorageTypeOK, ReleaseHandle, PersistedEntries
  <1>2. UNCHANGED <<content, length, disk, diskLength>>
    BY DEF ReleaseHandle
  <1> QED  BY <1>1, <1>2 DEF Keeps, Safe

\* A power loss keeps everything that is safe, leaves no entry unpersisted and
\* no length that is not on disk.
LEMMA LosePowerKeeps ==
    ASSUME StorageTypeOK, LengthOK, LosePower
    PROVE  /\ \A f \in FileIds, n \in 0 .. FileCapacity : Safe(f, n) => Keeps(f, n)
           /\ \A f \in FileIds : entry'[f] # "cached"
           /\ LengthOK'
  <1>1. PICK lost \in SUBSET {f \in FileIds : entry[f] = "cached"},
             n \in SurvivingLengths,
             kept \in SUBSET UNION {{<<f, o>> : o \in Unsynced(f)} : f \in FileIds} :
          /\ entry' = [f \in FileIds |->
                         IF f \in lost \/ entry[f] = "absent" THEN "absent" ELSE "durable"]
          /\ length' = [f \in FileIds |-> IF f \in lost THEN 0 ELSE n[f]]
          /\ content' = [f \in FileIds |-> IF f \in lost THEN [o \in Offsets |-> Blank]
                                           ELSE Remains(f, kept, n[f])]
          /\ disk' = content'
          /\ diskLength' = length'
          /\ ForgetService
    BY DEF LosePower
  <1>2. ASSUME NEW f \in FileIds, NEW k \in 0 .. FileCapacity, Safe(f, k)
        PROVE  Keeps(f, k)
    <2>1. CASE k = 0
      <3>1. 0 <= diskLength'[f]
        BY <1>1, StorageAssumption DEF SurvivingLengths
      <3> QED  BY <1>1, <2>1, <3>1 DEF Keeps, Safe, Offsets
    <2>2. CASE k # 0
      <3>1. entry[f] = "durable" /\ f \notin lost /\ entry'[f] = "durable"
        BY <1>1, <1>2, <2>2, StorageAssumption DEF Safe, StorageTypeOK
      <3>2. /\ n[f] \in 0 .. FileCapacity /\ diskLength[f] <= n[f]
            /\ diskLength'[f] = n[f]
        BY <1>1, <3>1 DEF SurvivingLengths
      <3>3. k <= n[f]
        BY <1>2, <3>2, StorageAssumption DEF Safe, StorageTypeOK
      <3>4. content'[f] = Remains(f, kept, n[f])
        BY <1>1, <3>1
      <3>5. \A o \in Offsets : o < k => content'[f][o] = content[f][o]
        BY <1>2, <3>2, <3>3, <3>4, StorageAssumption DEF Remains, Safe, Offsets
      <3>6. disk' = content'
        BY <1>1
      <3> QED  BY <3>1, <3>2, <3>3, <3>5, <3>6 DEF Keeps, Safe
    <2> QED  BY <2>1, <2>2
  <1>3. \A f \in FileIds : entry'[f] # "cached"
    BY <1>1
  <1>4. \A f \in FileIds : length'[f] \in 0 .. FileCapacity
    BY <1>1, StorageAssumption DEF SurvivingLengths
  <1>5. LengthOK'
    BY <1>1, <1>4 DEF LengthOK
  <1> QED  BY <1>2, <1>3, <1>5

\* A row stays where it is as long as the cells below n do.
LEMMA PlacedKept ==
    ASSUME NEW r \in MicroblockRecords, NEW n \in 0 .. FileCapacity, Placed(r, n),
           \A o \in Offsets : o < n => content'[r.file][o] = content[r.file][o]
    PROVE  Placed(r, n)'
  <1>1. Size[r.hash] \in Nat \ {0} /\ r.offset \in Nat
    BY StorageAssumption DEF MicroblockRecords
  <1>2. ASSUME NEW i \in 1 .. Size[r.hash]
        PROVE  content'[r.file][r.offset + i - 1] = <<r.hash, i>>
    <2>1. r.offset + i - 1 \in Offsets /\ r.offset + i - 1 < n
      BY <1>1, StorageAssumption DEF Placed, Offsets
    <2> QED  BY <2>1 DEF Placed
  <1> QED  BY <1>2 DEF Placed

\* The records of a file list.
LEMMA FileRecordType ==
    ASSUME NEW fs \in Seq(FileRecords), NEW f \in 1 .. Len(fs)
    PROVE  fs[f] \in FileRecords /\ fs[f].size \in 0 .. FileCapacity
  <1>1. fs[f] \in FileRecords
    OBVIOUS
  <1> QED  BY <1>1 DEF FileRecords

\* What every step that ends the transaction without committing it establishes,
\* given what it does to the files.
LEMMA RolledBack ==
    ASSUME TypeInv, DurabilityInv, UNCHANGED db, tx' = db, pc' \in {"idle", "down"},
           LengthOK', EntryOK',
           \A f \in 1 .. Len(db.files) : Keeps(f, db.files[f].size)
    PROVE  DurabilityInv'
  <1>f. db \in Databases /\ db.files \in Seq(FileRecords)
    BY DEF TypeInv, TypeOK, Databases
  <1>t. \A f \in 1 .. Len(db.files) : db.files[f].size \in 0 .. FileCapacity
    BY <1>f, FileRecordType
  <1>1. DbSafe'
    BY DEF DbSafe, Keeps, Safe
  <1>2. ASSUME NEW r \in db.rows
        PROVE  r.file \in 1 .. Len(db.files) /\ Placed(r, db.files[r.file].size)'
    <2>1. r.file \in 1 .. Len(db.files) /\ Placed(r, db.files[r.file].size)
      BY <1>2 DEF DurabilityInv, DbRows
    <2> DEFINE n == db.files[r.file].size
    <2>2. r \in MicroblockRecords /\ n \in 0 .. FileCapacity
      BY <1>f, <1>t, <1>2, <2>1 DEF Databases
    <2>3. \A o \in Offsets : o < n => content'[r.file][o] = content[r.file][o]
      BY <2>1 DEF Keeps
    <2>4. n' = n
      OBVIOUS
    <2> QED  BY <2>1, <2>2, <2>3, <2>4, PlacedKept DEF Placed
  <1>3. DbRows'
    BY <1>2 DEF DbRows
  <1>4. TxSafe'
    BY <1>1 DEF DbSafe, TxSafe, Safe
  <1>5. ~InWindow' /\ pc' # "row" /\ pc' # "synced"
    BY DEF InWindow
  <1>6. TxRows'
    BY <1>3, <1>5 DEF DbRows, TxRows, IsPending, Extent
  <1>7. FilesGrow'
    BY <1>f, <1>t DEF FilesGrow
  <1> QED  BY <1>1, <1>3, <1>4, <1>5, <1>6, <1>7 DEF DurabilityInv, WindowOK, SyncedOK

\* Initially there is nothing to lose.
LEMMA DurabilityInit == Init => DurabilityInv
  <1> SUFFICES ASSUME Init PROVE DurabilityInv
    OBVIOUS
  <1>1. /\ db.files = <<>> /\ tx.files = <<>> /\ db.rows = {} /\ tx.rows = {}
        /\ pc = "down" /\ length = [f \in FileIds |-> 0] /\ diskLength = length
        /\ entry = [f \in FileIds |-> "absent"]
    BY DEF Init, StorageInit, EmptyDb
  <1>2. LengthOK /\ EntryOK
    BY <1>1 DEF LengthOK, EntryOK
  <1> QED
    BY <1>1, <1>2
    DEF DurabilityInv, DbSafe, TxSafe, DbRows, TxRows, FilesGrow, WindowOK, SyncedOK, InWindow

\* Every step keeps what is committed within the durable prefix of its file.
LEMMA DurabilityStep ==
    ASSUME EntriesSurvive
    PROVE  TypeInv /\ TypeInv' /\ DurabilityInv /\ [Next]_vars => DurabilityInv'
  <1> SUFFICES ASSUME TypeInv, TypeInv', DurabilityInv, [Next]_vars PROVE DurabilityInv'
    OBVIOUS
  <1>t. StorageTypeOK /\ TypeOK /\ PhaseOK /\ TypeOK' /\ PhaseOK'
    BY DEF TypeInv, TypeOK
  <1>d. /\ LengthOK /\ EntryOK /\ DbSafe /\ TxSafe /\ DbRows /\ TxRows
        /\ FilesGrow /\ WindowOK /\ SyncedOK
    BY DEF DurabilityInv
  <1>f. /\ db.files \in Seq(FileRecords) /\ Len(db.files) <= MaxFileId /\ Len(db.files) \in Nat
        /\ tx.files \in Seq(FileRecords) /\ Len(tx.files) <= MaxFileId /\ Len(tx.files) \in Nat
    BY <1>t DEF TypeOK, Databases
  <1>n. /\ \A f \in 1 .. Len(db.files) :
             f \in FileIds /\ db.files[f] \in FileRecords /\ db.files[f].size \in 0 .. FileCapacity
        /\ \A f \in 1 .. Len(tx.files) :
             f \in FileIds /\ tx.files[f] \in FileRecords /\ tx.files[f].size \in 0 .. FileCapacity
    BY <1>f, FileRecordType, StorageAssumption DEF FileIds
  <1>p. pointer \in 0 .. FileCapacity
    BY <1>t DEF StorageTypeOK
  <1>r. db.rows \subseteq MicroblockRecords /\ tx.rows \subseteq MicroblockRecords
    BY <1>t DEF TypeOK, Databases
  <1>w. InWindow => /\ fileId \in FileIds /\ handle /\ fileId \in 1 .. Len(tx.files)
                    /\ tx.files[fileId].size <= pointer /\ pointer <= length[fileId]
    <2> SUFFICES ASSUME InWindow
                 PROVE  /\ fileId \in FileIds /\ handle /\ fileId \in 1 .. Len(tx.files)
                        /\ tx.files[fileId].size <= pointer /\ pointer <= length[fileId]
      OBVIOUS
    <2>1. handle /\ fileId \in FileIds /\ fileId = Len(tx.files)
      BY <1>t DEF PhaseOK
    <2>2. fileId \in 1 .. Len(tx.files)
      BY <1>f, <2>1 DEF FileIds
    <2> QED  BY <1>d, <2>1, <2>2 DEF WindowOK
  \* The committed part of every file lies below the pointer of the open one.
  <1>b. InWindow => \A f \in 1 .. Len(db.files) : f = fileId => db.files[f].size <= pointer
    BY <1>d, <1>n, <1>w, <1>p DEF FilesGrow
  <1>e. \A f \in 1 .. Len(tx.files) : Extent(f) \in 0 .. FileCapacity
    BY <1>n, <1>p DEF Extent
  \* Rows below what a step keeps stay in place.
  <1>k. ASSUME NEW r \in MicroblockRecords, NEW n \in 0 .. FileCapacity, Placed(r, n),
               \A o \in Offsets : o < n => content'[r.file][o] = content[r.file][o]
        PROVE  Placed(r, n)'
    BY <1>k, PlacedKept
  \* A step that leaves the database and what is safe of its files.
  <1>q. ASSUME UNCHANGED db,
               \A f \in 1 .. Len(db.files) : Keeps(f, db.files[f].size)
        PROVE  DbSafe' /\ DbRows'
    <2>1. DbSafe'
      BY <1>q DEF DbSafe, Keeps, Safe
    <2>2. ASSUME NEW r \in db.rows
          PROVE  r.file \in 1 .. Len(db.files) /\ Placed(r, db.files[r.file].size)'
      <3>1. r.file \in 1 .. Len(db.files) /\ Placed(r, db.files[r.file].size)
        BY <1>d, <2>2 DEF DbRows
      <3>2. \A o \in Offsets : o < db.files[r.file].size => content'[r.file][o] = content[r.file][o]
        BY <1>q, <3>1 DEF Keeps
      <3> QED  BY <1>k, <1>n, <1>q, <1>r, <2>2, <3>1, <3>2 DEF Placed
    <2>3. DbRows'
      BY <1>q, <2>2 DEF DbRows
    <2> QED  BY <2>1, <2>3
  <1>v. UNCHANGED storageVars => UNCHANGED <<handle, fileId, isNewFile, pointer, entry, content,
                                             length, disk, diskLength>>
    BY DEF storageVars, serviceVars, fileVars
  <1>s. UNCHANGED storageVars => LengthOK' /\ EntryOK'
    BY <1>d, <1>v DEF LengthOK, EntryOK
  <1>a. UNCHANGED <<storageVars, db>> =>
          \A f \in 1 .. Len(db.files) : Keeps(f, db.files[f].size)
    BY <1>d, <1>v DEF DbSafe, Safe, Keeps
  <1>rb. Rollback => UNCHANGED db /\ tx' = db /\ pc' \in {"idle", "down"}
    BY DEF Rollback, EndTransaction
  \* The steps of the transaction that leave the files alone.
  <1>i. ASSUME UNCHANGED <<storageVars, db, height, written, chain>>, UNCHANGED tx.files,
               TxRows', SyncedOK', InWindow' => InWindow
        PROVE  DurabilityInv'
    <2>1. LengthOK' /\ EntryOK' /\ DbSafe' /\ DbRows'
      BY <1>i, <1>s, <1>a, <1>q
    <2>2. TxSafe' /\ FilesGrow' /\ WindowOK'
      BY <1>i, <1>v, <1>d DEF TxSafe, Safe, FilesGrow, WindowOK
    <2> QED  BY <1>i, <2>1, <2>2 DEF DurabilityInv
  <1>1. CASE StartBlock
    <2>1. /\ pc = "idle" /\ pc' = "block" /\ UNCHANGED <<storageVars, db, chain>>
          /\ tx'.files = tx.files /\ tx'.rows = tx.rows
      BY <1>1, <1>t DEF StartBlock, TypeOK, Databases
    <2>2. LengthOK' /\ EntryOK' /\ DbSafe' /\ DbRows'
      BY <2>1, <1>s, <1>a, <1>q
    <2>3. TxSafe' /\ FilesGrow' /\ WindowOK' /\ SyncedOK'
      BY <2>1, <1>v, <1>d DEF TxSafe, Safe, FilesGrow, WindowOK, SyncedOK, InWindow
    <2>4. TxRows'
      BY <2>1, <1>v, <1>d DEF TxRows, IsPending, Extent, InWindow, Placed
    <2> QED  BY <2>2, <2>3, <2>4 DEF DurabilityInv
  <1>2. CASE BeginMicroblockUpdate
    <2> DEFINE files == FilesToWrite(tx)
               id    == Len(files)
    <2>1. /\ pc = "block" /\ pc' = "file" /\ id \in FileIds
          /\ tx' = [tx EXCEPT !.files = files]
          /\ ~handle /\ files[id].size <= length[id] /\ OpenFile(id)
          /\ pointer' = files[id].size
          /\ UNCHANGED db
      BY <1>2 DEF BeginMicroblockUpdate, BeginUpdate
    <2>2. /\ files \in Seq(FileRecords) /\ files # <<>>
          /\ Len(tx.files) <= id
          /\ \A f \in 1 .. Len(tx.files) : files[f] = tx.files[f]
          /\ \A f \in 1 .. id : f \notin 1 .. Len(tx.files) => files[f].size = 0
      BY <1>t, <2>1, FilesToWriteType DEF TypeOK, PhaseOK, Points
    <2> HIDE DEF files
    <2>3. tx'.files = files /\ tx'.rows = tx.rows
      BY <1>t, <2>1 DEF TypeOK, Databases
    <2>4. \A f \in FileIds, n \in 0 .. FileCapacity : Safe(f, n) => Keeps(f, n)
      BY <1>t, <2>1, OpenFileKeeps
    <2>5. DbSafe' /\ DbRows'
      BY <1>d, <1>n, <1>q, <2>1, <2>4 DEF DbSafe
    <2>6. UNCHANGED <<content, length, disk, diskLength>> /\ handle' /\ fileId' = id
      BY <2>1 DEF OpenFile
    <2>7. LengthOK'
      BY <1>d, <2>6 DEF LengthOK
    <2>8. EntryOK'
      BY <1>d, <1>t, <2>1 DEF EntryOK, OpenFile, StorageTypeOK
    <2>9. TxSafe'
      <3>1. \A f \in 1 .. id : f \in FileIds /\ diskLength'[f] \in Nat
        BY <1>t, <2>1, StorageAssumption DEF TypeOK, StorageTypeOK, FileIds
      <3>2. ASSUME NEW f \in 1 .. id PROVE Safe(f, tx.files[f].size)'
        <4>1. CASE f \in 1 .. Len(tx.files)
          <5>1. Safe(f, tx.files[f].size) /\ tx'.files[f] = tx.files[f]
            BY <1>d, <2>2, <2>3, <4>1 DEF TxSafe
          <5> QED  BY <1>n, <2>4, <4>1, <5>1 DEF Keeps, Safe
        <4>2. CASE f \notin 1 .. Len(tx.files)
          <5>1. tx'.files[f].size = 0
            BY <2>2, <2>3, <3>2, <4>2
          <5> QED  BY <3>1, <3>2, <5>1 DEF Safe, Offsets
        <4> QED  BY <4>1, <4>2
      <3> QED  BY <3>2, <2>3 DEF TxSafe
    <2>10. FilesGrow'
      BY <1>d, <1>f, <2>1, <2>2, <2>3 DEF FilesGrow
    <2>11. TxRows'
      <3>1. ASSUME NEW q \in tx.rows
            PROVE  q.file \in 1 .. id /\ Placed(q, tx.files[q.file].size)
                   /\ q.file \in 1 .. Len(tx.files)
        BY <1>d, <1>f, <2>1, <2>2, <3>1 DEF TxRows, IsPending, Extent, InWindow
      <3>2. ASSUME NEW q \in tx.rows
            PROVE  Extent(q.file)' = tx.files[q.file].size
        BY <2>1, <2>2, <2>3, <2>6, <3>1, <3>2 DEF Extent
      <3>3. ASSUME NEW q \in tx.rows
            PROVE  Placed(q, Extent(q.file))'
        BY <2>6, <3>1, <3>2, <3>3 DEF Placed
      <3>4. tx'.rows = tx.rows /\ Len(tx'.files) = id /\ pc' # "row"
        BY <2>1, <2>3
      <3> HIDE DEF id
      <3> QED  BY <3>1, <3>3, <3>4 DEF TxRows, IsPending
    <2>12. WindowOK' /\ SyncedOK'
      <3>1. pointer' \in Nat
        BY <1>t, StorageAssumption DEF TypeOK, StorageTypeOK
      <3> QED  BY <2>1, <2>3, <2>6, <3>1 DEF WindowOK, SyncedOK
    <2> QED  BY <2>5, <2>7, <2>8, <2>9, <2>10, <2>11, <2>12 DEF DurabilityInv
  <1>3. CASE SaveMicroblock
    <2> DEFINE row == [hash |-> NextMicroblock, file |-> fileId, offset |-> pointer,
                       height |-> height]
    <2>1. /\ pc = "file" /\ pc' = "row"
          /\ tx' = [tx EXCEPT !.rows = {q \in @ : q.hash # NextMicroblock} \cup {row}]
          /\ UNCHANGED <<storageVars, db, height, written, chain>>
      BY <1>3 DEF SaveMicroblock
    <2>2. /\ tx'.files = tx.files
          /\ tx'.rows = {q \in tx.rows : q.hash # NextMicroblock} \cup {row}
      BY <1>t, <2>1 DEF TypeOK, Databases
    <2>3. NextMicroblock' = NextMicroblock /\ InWindow /\ InWindow'
      BY <2>1 DEF NextMicroblock, InWindow
    <2>4. row.hash = NextMicroblock /\ row.file = fileId /\ row.offset = pointer
      OBVIOUS
    <2> HIDE DEF row
    <2>5. ASSUME NEW q \in tx'.rows
          PROVE  /\ q.file \in 1 .. Len(tx'.files)
                 /\ IF IsPending(q)' THEN q.file = fileId' /\ q.offset = pointer'
                                     ELSE Placed(q, Extent(q.file))'
      <3>1. CASE q = row
        BY <1>v, <1>w, <2>1, <2>2, <2>3, <2>4, <3>1 DEF IsPending
      <3>2. CASE q # row
        <4>1. q \in tx.rows /\ q.hash # NextMicroblock
          BY <2>2, <2>5, <3>2
        <4>2. q.file \in 1 .. Len(tx.files) /\ Placed(q, Extent(q.file))
          BY <1>d, <2>1, <4>1 DEF TxRows, IsPending
        <4>3. ~IsPending(q)'
          BY <2>3, <4>1 DEF IsPending
        <4> QED  BY <1>v, <2>1, <2>2, <2>3, <4>2, <4>3 DEF Placed, Extent
      <3> QED  BY <3>1, <3>2
    <2>6. TxRows'
      BY <2>5 DEF TxRows
    <2> QED  BY <1>i, <2>1, <2>2, <2>3, <2>6 DEF SyncedOK
  <1>4. CASE StoreBytes
    <2> DEFINE m == NextMicroblock
               k == Size[m]
    <2>1. /\ pc = "row" /\ pc' = "file" /\ pointer + k <= FileCapacity
          /\ PutCells(m, k) /\ pointer' = pointer + k
          /\ UNCHANGED <<handle, fileId, isNewFile, db, tx>>
      BY <1>4 DEF StoreBytes, WriteMicroblock
    <2>2. InWindow /\ InWindow' /\ fileId \in FileIds
      BY <1>w, <2>1 DEF InWindow
    <2>3. m \in Microblocks /\ k \in Nat \ {0}
      BY <1>t, <2>1, NextMicroblockType, StorageAssumption DEF TypeOK, PhaseOK, Points
    <2> HIDE DEF m, k
    <2>4. \A f \in FileIds, n \in 0 .. FileCapacity :
             Safe(f, n) /\ (f = fileId => n <= pointer) => Keeps(f, n)
      BY <1>t, <2>1, <2>2, <2>3, PutCellsKeeps
    <2>5. DbSafe' /\ DbRows'
      BY <1>b, <1>d, <1>n, <1>q, <2>1, <2>2, <2>4 DEF DbSafe
    <2>6. TxSafe' /\ FilesGrow'
      BY <1>d, <1>n, <1>w, <2>1, <2>2, <2>4 DEF TxSafe, Keeps, Safe, FilesGrow
    <2>7. UNCHANGED <<entry, disk, diskLength>>
      BY <2>1 DEF PutCells
    <2>8. length' = [length EXCEPT ![fileId] = LongestOf(length[fileId], pointer + k)]
      BY <2>1 DEF PutCells
    <2>9. \A f \in FileIds : length[f] <= length'[f]
      BY <1>t, <1>p, <2>2, <2>3, <2>8 DEF StorageTypeOK, LongestOf
    <2>10. LengthOK'
      BY <1>t, <1>d, <2>7, <2>9, StorageAssumption DEF LengthOK, TypeOK, StorageTypeOK
    <2>11. EntryOK'
      BY <1>d, <2>1, <2>7 DEF EntryOK
    <2>12. pointer' <= length'[fileId]
      BY <1>t, <1>p, <2>1, <2>2, <2>3, <2>8 DEF StorageTypeOK, LongestOf
    <2>13. WindowOK' /\ SyncedOK'
      BY <1>n, <1>w, <1>p, <2>1, <2>2, <2>3, <2>12 DEF WindowOK, SyncedOK
    <2>14. /\ \A f \in FileIds, o \in Offsets :
                 f # fileId \/ o < pointer => content'[f][o] = content[f][o]
           /\ \A i \in 1 .. k : content'[fileId][pointer + i - 1] = <<m, i>>
      <3>1. content' = [content EXCEPT ![fileId] =
                          [o \in Offsets |-> IF o \in pointer .. pointer + k - 1
                                             THEN <<m, o - pointer + 1>>
                                             ELSE content[fileId][o]]]
        BY <2>1 DEF PutCells
      <3>2. ASSUME NEW i \in 1 .. k PROVE content'[fileId][pointer + i - 1] = <<m, i>>
        <4>1. /\ pointer + i - 1 \in Offsets
              /\ pointer + i - 1 \in pointer .. pointer + k - 1
              /\ pointer + i - 1 - pointer + 1 = i
          BY <1>p, <2>1, <2>3, StorageAssumption DEF Offsets
        <4> QED  BY <1>t, <2>2, <3>1, <4>1 DEF StorageTypeOK
      <3>3. \A f \in FileIds, o \in Offsets :
               f # fileId \/ o < pointer => content'[f][o] = content[f][o]
        BY <1>t, <1>p, <2>2, <3>1 DEF StorageTypeOK, Offsets
      <3> QED  BY <3>2, <3>3
    <2>15. ASSUME NEW q \in tx.rows
           PROVE  q.file \in 1 .. Len(tx.files) /\ Placed(q, Extent(q.file))'
      <3>1. q \in MicroblockRecords /\ q.file \in 1 .. Len(tx.files) /\ q.file \in FileIds
        BY <1>d, <1>n, <1>r, <2>15 DEF TxRows
      <3>2. CASE IsPending(q)
        <4>1. q.file = fileId /\ q.offset = pointer /\ q.hash = m
          BY <1>d, <2>15, <3>2 DEF TxRows, IsPending, m
        <4>2. Extent(q.file)' = pointer + k
          BY <2>1, <2>2, <4>1 DEF Extent
        <4> QED  BY <1>p, <2>3, <2>14, <3>1, <4>1, <4>2 DEF Placed, k
      <3>3. CASE ~IsPending(q)
        <4> DEFINE n == Extent(q.file)
        <4>1. Placed(q, n) /\ n \in 0 .. FileCapacity
          BY <1>d, <1>e, <2>15, <3>1, <3>3 DEF TxRows
        <4>2. q.file = fileId => n = pointer
          BY <2>2 DEF Extent
        <4>3. \A o \in Offsets : o < n => content'[q.file][o] = content[q.file][o]
          BY <2>14, <3>1, <4>2
        <4>4. n <= Extent(q.file)'
          <5>1. CASE q.file = fileId
            BY <1>p, <2>1, <2>2, <2>3, <5>1 DEF Extent
          <5>2. CASE q.file # fileId
            BY <1>n, <2>1, <3>1, <5>2 DEF Extent
          <5> QED  BY <5>1, <5>2
        <4>5. /\ \A i \in 1 .. Size[q.hash] :
                    content'[q.file][q.offset + i - 1] = <<q.hash, i>>
              /\ q.offset + Size[q.hash] <= n
          <5> HIDE DEF n
          <5> SUFFICES ASSUME NEW i \in 1 .. Size[q.hash]
                       PROVE  content'[q.file][q.offset + i - 1] = <<q.hash, i>>
            BY <4>1 DEF Placed
          <5>1. q.offset \in Nat /\ Size[q.hash] \in Nat
            BY <3>1, StorageAssumption DEF MicroblockRecords
          <5>2. q.offset + i - 1 \in Offsets /\ q.offset + i - 1 < n
            BY <4>1, <5>1, StorageAssumption DEF Placed, Offsets
          <5> QED  BY <4>1, <4>3, <5>2 DEF Placed
        <4>6. /\ q.offset \in Nat /\ Size[q.hash] \in Nat /\ n \in Nat
              /\ Extent(q.file)' \in Nat
          <5>1. Extent(q.file)' \in Nat
            BY <1>n, <1>p, <2>1, <2>3, <3>1 DEF Extent
          <5> QED  BY <3>1, <4>1, <5>1, StorageAssumption DEF MicroblockRecords
        <4>7. q.offset + Size[q.hash] <= Extent(q.file)'
          BY <4>4, <4>5, <4>6
        <4> QED  BY <3>1, <4>5, <4>7 DEF Placed
      <3> QED  BY <3>1, <3>2, <3>3
    <2>16. TxRows'
      BY <2>1, <2>15 DEF TxRows, IsPending
    <2> QED  BY <2>5, <2>6, <2>10, <2>11, <2>13, <2>16 DEF DurabilityInv
  <1>5. CASE SyncUpdate
    <2>1. pc = "file" /\ pc' = "synced" /\ SyncFile /\ UNCHANGED <<db, tx>>
      BY <1>5 DEF SyncUpdate
    <2>2. InWindow /\ fileId \in FileIds
      BY <1>w, <2>1 DEF InWindow
    <2>3. \A f \in FileIds, n \in 0 .. FileCapacity : Safe(f, n) => Keeps(f, n)
      BY <1>t, <1>d, <2>1, <2>2, SyncFileKeeps
    <2>4. DbSafe' /\ DbRows'
      BY <1>d, <1>n, <1>q, <2>1, <2>3 DEF DbSafe
    <2>5. TxSafe' /\ FilesGrow'
      BY <1>d, <1>n, <2>1, <2>3 DEF TxSafe, Keeps, Safe, FilesGrow
    <2>6. UNCHANGED <<handle, fileId, isNewFile, pointer, content, length>>
      BY <2>1 DEF SyncFile, serviceVars
    <2>7. /\ diskLength' = [diskLength EXCEPT ![fileId] = length[fileId]]
          /\ disk' = [disk EXCEPT ![fileId] = content[fileId]]
          /\ FsyncPersistsEntry => entry' = [entry EXCEPT ![fileId] = "durable"]
          /\ ~FsyncPersistsEntry => entry' = entry
      BY <2>1 DEF SyncFile
    <2>8. LengthOK'
      BY <1>d, <1>t, <2>2, <2>6, <2>7 DEF LengthOK, StorageTypeOK
    <2>9. EntryOK'
      BY <1>d, <2>6, <2>7 DEF EntryOK
    <2>10. TxRows'
      BY <1>d, <2>1, <2>6 DEF TxRows, IsPending, Extent, InWindow, Placed
    <2>11. WindowOK'
      BY <1>w, <2>1, <2>2, <2>6 DEF WindowOK
    <2>12. SyncedOK'
      BY <1>t, <1>w, <2>2, <2>6, <2>7 DEF SyncedOK, StorageTypeOK
    <2> QED  BY <2>4, <2>5, <2>8, <2>9, <2>10, <2>11, <2>12 DEF DurabilityInv
  <1>6. CASE CloseUpdate
    <2> DEFINE closed == [tx.files[fileId] EXCEPT !.maxHeight = height, !.size = pointer]
    <2>1. /\ pc = "synced" /\ ReleaseHandle /\ pc' = "closed"
          /\ tx' = [tx EXCEPT !.files = [@ EXCEPT ![fileId] = closed]]
          /\ UNCHANGED db
      BY <1>6 DEF CloseUpdate
    <2>2. InWindow /\ fileId \in FileIds /\ fileId \in 1 .. Len(tx.files)
      BY <1>w, <2>1 DEF InWindow
    <2>3. closed.size = pointer
      BY <1>n, <2>2 DEF FileRecords
    <2> HIDE DEF closed
    <2>4. /\ tx'.rows = tx.rows
          /\ tx'.files = [tx.files EXCEPT ![fileId] = closed]
      BY <1>t, <2>1 DEF TypeOK, Databases
    <2>5. /\ Len(tx'.files) = Len(tx.files)
          /\ tx'.files[fileId].size = pointer
          /\ \A f \in 1 .. Len(tx.files) : f # fileId => tx'.files[f] = tx.files[f]
      BY <1>f, <2>2, <2>3, <2>4
    <2>6. \A f \in FileIds, n \in 0 .. FileCapacity : Safe(f, n) => Keeps(f, n)
      BY <1>t, <2>1, ReleaseHandleKeeps
    <2>7. DbSafe' /\ DbRows'
      BY <1>d, <1>n, <1>q, <2>1, <2>6 DEF DbSafe
    <2>8. UNCHANGED <<content, length, disk, diskLength>>
      BY <2>1 DEF ReleaseHandle
    \* From here on the directory entry of the file is durable.
    <2>9. entry'[fileId] = "durable"
      <3>1. entry[fileId] \in {"cached", "durable"}
        BY <1>t, <1>w, <2>2 DEF PhaseOK, StorageTypeOK
      <3>2. CASE entry[fileId] = "durable"
        BY <2>1, <2>2, <3>2 DEF ReleaseHandle, PersistedEntries
      <3>3. CASE entry[fileId] = "cached"
        <4>1. ~FsyncPersistsEntry
          BY <1>d, <2>1, <3>3 DEF SyncedOK
        <4>2. isNewFile /\ ~DirSyncMayFail
          BY <1>d, <2>2, <3>3, <4>1 DEF EntryOK, EntriesSurvive
        <4> QED  BY <2>1, <2>2, <3>3, <4>2 DEF ReleaseHandle, PersistedEntries
      <3> QED  BY <3>1, <3>2, <3>3
    <2>10. TxSafe'
      <3>1. ASSUME NEW f \in 1 .. Len(tx.files) PROVE Safe(f, tx.files[f].size)'
        <4>1. CASE f = fileId
          BY <1>d, <2>1, <2>5, <2>8, <2>9, <4>1 DEF SyncedOK, Safe
        <4>2. CASE f # fileId
          <5>1. Safe(f, tx.files[f].size) /\ tx'.files[f] = tx.files[f]
            BY <1>d, <2>5, <4>2 DEF TxSafe
          <5> QED  BY <1>n, <2>6, <5>1 DEF Keeps, Safe
        <4> QED  BY <4>1, <4>2
      <3> QED  BY <2>5, <3>1 DEF TxSafe
    <2>11. LengthOK'
      BY <1>d, <2>8 DEF LengthOK
    <2>12. EntryOK'
      <3>1. CASE FsyncPersistsEntry
        BY <3>1 DEF EntryOK
      <3>2. CASE ~FsyncPersistsEntry
        <4>1. ~DirSyncMayFail
          BY <3>2 DEF EntriesSurvive
        <4>2. \A f \in FileIds : entry[f] = "cached" => isNewFile
          BY <1>d, <3>2 DEF EntryOK
        <4>3. \A f \in FileIds : entry'[f] # "cached"
          BY <2>1, <4>1, <4>2 DEF ReleaseHandle, PersistedEntries
        <4> QED  BY <4>3 DEF EntryOK
      <3> QED  BY <3>1, <3>2
    <2>13. FilesGrow'
      <3>1. \A f \in 1 .. Len(db.files) : f \in 1 .. Len(tx.files)
        BY <1>d, <1>f DEF FilesGrow
      <3> QED  BY <1>b, <1>d, <2>1, <2>2, <2>5, <3>1 DEF FilesGrow
    <2>14. TxRows'
      <3>1. ASSUME NEW q \in tx.rows
            PROVE  q.file \in 1 .. Len(tx.files) /\ Placed(q, Extent(q.file))'
        <4>1. q.file \in 1 .. Len(tx.files) /\ Placed(q, Extent(q.file))
          BY <1>d, <2>1, <3>1 DEF TxRows, IsPending
        <4>2. Extent(q.file)' = Extent(q.file)
          BY <2>1, <2>2, <2>5, <4>1 DEF Extent, InWindow
        <4> QED  BY <2>8, <4>1, <4>2 DEF Placed
      <3> QED  BY <2>1, <2>4, <2>5, <3>1 DEF TxRows, IsPending
    <2>15. WindowOK' /\ SyncedOK'
      BY <2>1 DEF WindowOK, SyncedOK, InWindow
    <2> QED  BY <2>7, <2>10, <2>11, <2>12, <2>13, <2>14, <2>15 DEF DurabilityInv
  <1>7. CASE CommitBlockMicroblocks
    <2>1. /\ pc = "closed" /\ pc' = "counted"
          /\ tx'.files = tx.files /\ tx'.rows = tx.rows
          /\ UNCHANGED <<storageVars, db, height, written, chain>>
      BY <1>7, <1>t DEF CommitBlockMicroblocks, TypeOK, Databases
    <2>2. TxRows'
      BY <2>1, <1>v, <1>d DEF TxRows, IsPending, Extent, InWindow, Placed
    <2> QED  BY <1>i, <2>1, <2>2 DEF InWindow, SyncedOK
  <1>8. CASE Commit
    <2>1. /\ pc = "counted" /\ pc' = "idle" /\ db' = tx /\ UNCHANGED <<storageVars, tx>>
      BY <1>8 DEF Commit, EndTransaction
    <2>2. LengthOK' /\ EntryOK'
      BY <1>s, <2>1
    <2>3. DbSafe' /\ TxSafe'
      BY <1>d, <1>v, <2>1 DEF DbSafe, TxSafe, Safe
    <2>4. \A q \in tx.rows : q.file \in 1 .. Len(tx.files) /\ Placed(q, tx.files[q.file].size)
      BY <1>d, <2>1 DEF TxRows, IsPending, Extent, InWindow
    <2>5. DbRows' /\ TxRows'
      BY <1>v, <2>1, <2>4 DEF DbRows, TxRows, IsPending, Extent, InWindow, Placed
    <2>6. FilesGrow' /\ WindowOK' /\ SyncedOK'
      BY <1>f, <1>n, <2>1 DEF FilesGrow, WindowOK, SyncedOK, InWindow
    <2> QED  BY <2>2, <2>3, <2>5, <2>6 DEF DurabilityInv
  <1>9. CASE BeginRefused \/ PreviousMissing \/ CallFails
    <2>1. Rollback /\ UNCHANGED storageVars
      BY <1>9 DEF BeginRefused, PreviousMissing, CallFails
    <2> QED  BY <1>rb, <1>s, <1>a, <2>1, RolledBack
  <1>10. CASE BeginPanics
    <2> DEFINE id == Len(FilesToWrite(tx))
    <2>1. id \in FileIds /\ ~handle /\ OpenFile(id) /\ Rollback
      BY <1>10 DEF BeginPanics, BeginUpdatePanics
    <2> HIDE DEF id
    <2>2. \A f \in FileIds, n \in 0 .. FileCapacity : Safe(f, n) => Keeps(f, n)
      BY <1>t, <2>1, OpenFileKeeps
    <2>3. LengthOK'
      BY <1>d, <2>1 DEF LengthOK, OpenFile
    <2>4. EntryOK'
      BY <1>d, <1>t, <2>1 DEF EntryOK, OpenFile, StorageTypeOK
    <2> QED  BY <1>d, <1>n, <1>rb, <2>1, <2>2, <2>3, <2>4, RolledBack DEF DbSafe
  <1>13. CASE WriteFallsShort
    <2>1. PICK k \in 1 .. FileCapacity : ShortWrite(NextMicroblock, k)
      BY <1>13 DEF WriteFallsShort
    <2>2. pc = "row" /\ Rollback
      BY <1>13 DEF WriteFallsShort
    <2>3. InWindow /\ fileId \in FileIds /\ NextMicroblock \in Microblocks /\ k \in Nat
      BY <1>t, <1>w, <2>2, NextMicroblockType, StorageAssumption
      DEF TypeOK, PhaseOK, Points, InWindow
    <2>4. /\ PutCells(NextMicroblock, k)
          /\ UNCHANGED <<handle, fileId, isNewFile, pointer>>
      BY <2>1 DEF ShortWrite, serviceVars
    <2>5. \A f \in FileIds, n \in 0 .. FileCapacity :
             Safe(f, n) /\ (f = fileId => n <= pointer) => Keeps(f, n)
      BY <1>t, <2>3, <2>4, PutCellsKeeps
    <2>6. /\ UNCHANGED <<entry, disk, diskLength>>
          /\ length' = [length EXCEPT ![fileId] = LongestOf(length[fileId], pointer + k)]
      BY <2>4 DEF PutCells
    <2>7. \A f \in FileIds : length[f] <= length'[f]
      BY <1>t, <1>p, <2>3, <2>6 DEF StorageTypeOK, LongestOf
    <2>8. LengthOK'
      BY <1>t, <1>d, <2>6, <2>7, StorageAssumption DEF LengthOK, TypeOK, StorageTypeOK
    <2>9. EntryOK'
      BY <1>d, <2>4, <2>6 DEF EntryOK
    <2> QED  BY <1>b, <1>d, <1>n, <1>rb, <2>2, <2>3, <2>5, <2>8, <2>9, RolledBack DEF DbSafe
  <1>15. CASE ProcessDies
    <2>1. ProcessMayDie /\ Down /\ ServiceExits
      BY <1>15 DEF ProcessDies
    <2>2. UNCHANGED db /\ tx' = db /\ pc' \in {"idle", "down"}
      BY <2>1 DEF Down
    <2>3. UNCHANGED <<entry, content, length, disk, diskLength>>
      BY <2>1 DEF ServiceExits, fileVars
    <2>4. LengthOK' /\ \A f \in 1 .. Len(db.files) : Keeps(f, db.files[f].size)
      BY <1>d, <2>2, <2>3 DEF LengthOK, DbSafe, Safe, Keeps
    <2>5. EntryOK'
      BY <2>1 DEF EntriesSurvive, EntryOK
    <2> QED  BY <2>2, <2>4, <2>5, RolledBack
  <1>16. CASE PowerFails
    <2>1. Down /\ LosePower
      BY <1>16 DEF PowerFails
    <2>2. UNCHANGED db /\ tx' = db /\ pc' \in {"idle", "down"}
      BY <2>1 DEF Down
    <2>3. /\ \A f \in FileIds, n \in 0 .. FileCapacity : Safe(f, n) => Keeps(f, n)
          /\ \A f \in FileIds : entry'[f] # "cached"
          /\ LengthOK'
      BY <1>t, <1>d, <2>1, LosePowerKeeps
    <2>4. EntryOK'
      BY <2>3 DEF EntryOK
    <2> QED  BY <1>d, <1>n, <2>2, <2>3, <2>4, RolledBack DEF DbSafe
  <1>17. CASE DeleteDatabase
    <2>1. /\ pc' = "down" /\ db' = EmptyDb /\ tx' = EmptyDb /\ UNCHANGED storageVars
      BY <1>17 DEF DeleteDatabase
    <2>2. LengthOK' /\ EntryOK'
      BY <1>s, <2>1
    <2>3. db'.files = <<>> /\ tx'.files = <<>> /\ db'.rows = {} /\ tx'.rows = {}
      BY <2>1 DEF EmptyDb
    <2> QED
      BY <2>1, <2>2, <2>3
      DEF DurabilityInv, DbSafe, TxSafe, DbRows, TxRows, FilesGrow, WindowOK, SyncedOK, InWindow
  <1>18. CASE StartProcess
    <2>1. pc = "down" /\ pc' = "idle" /\ UNCHANGED <<storageVars, db, tx, height, written, chain>>
      BY <1>18 DEF StartProcess
    <2>2. TxRows'
      BY <2>1, <1>v, <1>d DEF TxRows, IsPending, Extent, InWindow, Placed
    <2> QED  BY <1>i, <2>1, <2>2 DEF InWindow, SyncedOK
  <1>19. CASE UNCHANGED vars
    <2>1. UNCHANGED <<storageVars, db, tx, pc, height, written, chain>>
      BY <1>19 DEF vars, txVars
    <2>2. TxRows' /\ SyncedOK'
      BY <2>1, <1>v, <1>d
      DEF TxRows, SyncedOK, IsPending, Extent, InWindow, Placed, NextMicroblock
    <2> QED  BY <1>i, <2>1, <2>2 DEF InWindow
  <1> QED
    BY <1>1, <1>2, <1>3, <1>4, <1>5, <1>6, <1>7, <1>8, <1>9, <1>10, <1>13, <1>15, <1>16,
       <1>17, <1>18, <1>19
    DEF Next, SyncStep, Fault, NothingToSync

\* The invariant says what is wanted: committed microblocks are readable and no
\* file is shorter than its record.
LEMMA DurabilityImplies ==
    TypeInv /\ DurabilityInv => CommittedReadable /\ NeverShorterThanExpected
  <1> SUFFICES ASSUME TypeInv, DurabilityInv
               PROVE  CommittedReadable /\ NeverShorterThanExpected
    OBVIOUS
  <1>1. /\ StorageTypeOK /\ db.files \in Seq(FileRecords) /\ Len(db.files) <= MaxFileId
        /\ db.rows \subseteq MicroblockRecords
    BY DEF TypeInv, TypeOK, Databases
  <1>2. ASSUME NEW f \in 1 .. Len(db.files)
        PROVE  /\ f \in FileIds /\ Safe(f, db.files[f].size)
               /\ db.files[f].size <= length[f] /\ db.files[f].size \in 0 .. FileCapacity
    <2>1. f \in FileIds /\ db.files[f].size \in 0 .. FileCapacity
      BY <1>1, FileRecordType, StorageAssumption DEF FileIds
    <2>2. Safe(f, db.files[f].size) /\ diskLength[f] <= length[f]
      BY <2>1 DEF DurabilityInv, DbSafe, LengthOK
    <2> QED  BY <1>1, <2>1, <2>2, StorageAssumption DEF Safe, StorageTypeOK
  <1>3. NeverShorterThanExpected
    BY <1>1, <1>2 DEF NeverShorterThanExpected
  <1>4. ASSUME NEW r \in db.rows
        PROVE  IsReadable(r)
    <2> DEFINE n == db.files[r.file].size
    <2>1. r.file \in 1 .. Len(db.files) /\ Placed(r, n)
      BY DEF DurabilityInv, DbRows
    <2>2. /\ Size[r.hash] \in Nat \ {0} /\ r.offset \in Nat
      BY <1>1, StorageAssumption DEF MicroblockRecords
    <2>3. /\ Safe(r.file, n) /\ n <= length[r.file] /\ n \in 0 .. FileCapacity
          /\ length[r.file] \in 0 .. FileCapacity
      BY <1>1, <1>2, <2>1 DEF StorageTypeOK
    <2> HIDE DEF n
    <2>4. n > 0
      BY <2>1, <2>2, <2>3 DEF Placed
    <2>5. entry[r.file] # "absent"
      BY <2>3, <2>4 DEF Safe
    <2>6. r.offset + Size[r.hash] <= length[r.file]
      BY <2>1, <2>2, <2>3 DEF Placed
    <2>7. \A i \in 1 .. Size[r.hash] : content[r.file][r.offset + i - 1] = <<r.hash, i>>
      BY <2>1 DEF Placed
    <2> QED  BY <2>5, <2>6, <2>7 DEF IsReadable, ReadMicroblock, Bytes
  <1> QED  BY <1>3, <1>4 DEF CommittedReadable

\* It also says that the rows of the open transaction can be read: below the pointer
\* of the open file, or below the size recorded for a file.
LEMMA VisibleImplied ==
    TypeInv /\ DurabilityInv => VisibleReadable
  <1> SUFFICES ASSUME TypeInv, DurabilityInv, NEW r \in tx.rows, ~IsPending(r)
               PROVE  IsReadable(r)
    BY DEF VisibleReadable
  <1>1. /\ StorageTypeOK /\ tx.files \in Seq(FileRecords) /\ Len(tx.files) <= MaxFileId
        /\ tx.rows \subseteq MicroblockRecords
    BY DEF TypeInv, TypeOK, Databases
  <1>2. r.file \in 1 .. Len(tx.files) /\ Placed(r, Extent(r.file))
    BY DEF DurabilityInv, TxRows
  <1>3. r.file \in FileIds /\ tx.files[r.file].size \in 0 .. FileCapacity
    BY <1>1, <1>2, FileRecordType, StorageAssumption DEF FileIds
  <1>4. Size[r.hash] \in Nat \ {0} /\ r.offset \in Nat
    BY <1>1, StorageAssumption DEF MicroblockRecords
  <1>5. length[r.file] \in 0 .. FileCapacity /\ pointer \in 0 .. FileCapacity
    BY <1>1, <1>3 DEF StorageTypeOK
  <1>6. entry[r.file] # "absent" /\ r.offset + Size[r.hash] <= length[r.file]
    <2>1. CASE InWindow /\ r.file = fileId
      <3>1. pointer <= length[r.file] /\ Extent(r.file) = pointer
        BY <2>1 DEF DurabilityInv, WindowOK, Extent
      <3>2. entry[r.file] # "absent"
        BY <2>1 DEF TypeInv, PhaseOK
      <3> QED  BY <1>2, <1>4, <1>5, <3>1, <3>2 DEF Placed
    <2>2. CASE ~(InWindow /\ r.file = fileId)
      <3> DEFINE n == tx.files[r.file].size
      <3>1. Safe(r.file, n) /\ Extent(r.file) = n
        BY <1>2, <2>2 DEF DurabilityInv, TxSafe, Extent
      <3>2. diskLength[r.file] <= length[r.file] /\ diskLength[r.file] \in 0 .. FileCapacity
        BY <1>1, <1>3 DEF DurabilityInv, LengthOK, StorageTypeOK
      <3>3. n \in 0 .. FileCapacity
        BY <1>3
      <3> HIDE DEF n
      <3>4. r.offset + Size[r.hash] <= n
        BY <1>2, <3>1 DEF Placed
      <3>5. n > 0 /\ n <= diskLength[r.file]
        BY <1>4, <3>1, <3>3, <3>4 DEF Safe
      <3> QED  BY <1>4, <1>5, <3>1, <3>2, <3>3, <3>4, <3>5 DEF Safe
    <2> QED  BY <2>1, <2>2
  <1>7. \A i \in 1 .. Size[r.hash] : content[r.file][r.offset + i - 1] = <<r.hash, i>>
    BY <1>2 DEF Placed
  <1> QED  BY <1>6, <1>7 DEF IsReadable, ReadMicroblock, Bytes

\* Every committed microblock can be read back in every reachable state, provided
\* a synced file keeps its directory entry.
THEOREM Durability ==
    ASSUME EntriesSurvive
    PROVE  Spec => []CommittedReadable
  <1>1. Init => TypeInv /\ DurabilityInv
    BY TypeInvInit, DurabilityInit
  <1>2. TypeInv /\ DurabilityInv /\ [Next]_vars => TypeInv' /\ DurabilityInv'
    BY TypeInvStep, DurabilityStep
  <1>3. TypeInv /\ DurabilityInv => CommittedReadable
    BY DurabilityImplies
  <1> QED  BY <1>1, <1>2, <1>3, PTL DEF Spec

\* Under the same condition a handler that reads a row of the open transaction gets its
\* bytes, unless they are just being written.
THEOREM ReadersSafe ==
    ASSUME EntriesSurvive
    PROVE  Spec => []VisibleReadable
  <1>1. Init => TypeInv /\ DurabilityInv
    BY TypeInvInit, DurabilityInit
  <1>2. TypeInv /\ DurabilityInv /\ [Next]_vars => TypeInv' /\ DurabilityInv'
    BY TypeInvStep, DurabilityStep
  <1>3. TypeInv /\ DurabilityInv => VisibleReadable
    BY VisibleImplied
  <1> QED  BY <1>1, <1>2, <1>3, PTL DEF Spec

\* Under the same condition beginUpdate() never panics.
THEOREM NoPanic ==
    ASSUME EntriesSurvive
    PROVE  Spec => []NeverShorterThanExpected
  <1>1. Init => TypeInv /\ DurabilityInv
    BY TypeInvInit, DurabilityInit
  <1>2. TypeInv /\ DurabilityInv /\ [Next]_vars => TypeInv' /\ DurabilityInv'
    BY TypeInvStep, DurabilityStep
  <1>3. TypeInv /\ DurabilityInv => NeverShorterThanExpected
    BY DurabilityImplies
  <1> QED  BY <1>1, <1>2, <1>3, PTL DEF Spec

-----------------------------------------------------------------------------
(***************************************************************************)
(* Two theorems that assume nothing of the file system: the heights        *)
(* recorded for a file cover the microblocks in it, and a file that was    *)
(* lost gives errors, never the bytes of something else.                   *)
(***************************************************************************)

(* The heights of the files *)

\* Each file covers the heights from its first to its last block, which is stored.
HeightsOK(d) ==
    \A f \in 1 .. Len(d.files) : /\ d.files[f].minHeight <= d.files[f].maxHeight
                                 /\ d.files[f].maxHeight \in KnownHeights(d)

\* Row r lies within the heights of its file.
Covered(fs, r) == /\ r.file \in 1 .. Len(fs)
                  /\ fs[r.file].minHeight <= r.height
                  /\ r.height <= fs[r.file].maxHeight

\* Row r belongs to the block in process, whose height its file has yet to learn.
Fresh(r) == InWindow /\ r.file = fileId /\ r.height = height

\* The block in process is the newest of the transaction.
Newest == pc \in Points => /\ height \in KnownHeights(tx)
                           /\ \A k \in KnownHeights(tx) : k <= height

HeightsInv ==
    /\ HeightsOK(db) /\ HeightsOK(tx) /\ Newest
    /\ \A r \in db.rows : Covered(db.files, r)
    /\ \A r \in tx.rows : Covered(tx.files, r) \/ Fresh(r)

\* The heights in the database are heights of blocks.
LEMMA KnownHeightsType ==
    ASSUME NEW d \in Databases
    PROVE  KnownHeights(d) \subseteq Heights
  BY DEF Databases, BlockRecords, KnownHeights

\* A file record beginMicroblockUpdate() adds covers the block in process.
LEMMA FilesToWriteHeights ==
    ASSUME NEW d \in Databases, height \in Heights
    PROVE  \A f \in 1 .. Len(FilesToWrite(d)) :
             f \notin 1 .. Len(d.files) =>
               /\ FilesToWrite(d)[f].minHeight = height
               /\ FilesToWrite(d)[f].maxHeight = height
  <1> DEFINE new == [minHeight |-> height, maxHeight |-> height, size |-> 0]
  <1>1. d.files \in Seq(FileRecords)
    BY DEF Databases
  <1>2. new \in FileRecords
    BY StorageAssumption DEF FileRecords
  <1>3. CASE NeedsNewFile(d)
    <2>1. FilesToWrite(d) = Append(d.files, new)
      BY <1>3 DEF FilesToWrite
    <2>2. /\ Len(Append(d.files, new)) = Len(d.files) + 1
          /\ Append(d.files, new)[Len(d.files) + 1] = new
      BY <1>1, <1>2, AppendProperties
    <2>3. new.minHeight = height /\ new.maxHeight = height
      OBVIOUS
    <2> HIDE DEF new
    <2>4. Len(d.files) \in Nat
      BY <1>1
    <2> QED  BY <2>1, <2>2, <2>3, <2>4
  <1>4. CASE ~NeedsNewFile(d)
    BY <1>4 DEF FilesToWrite
  <1> QED  BY <1>3, <1>4

\* The invariant depends on nothing but the tables, the point of the transaction
\* and the file in use; a step that ends the transaction restores it.
LEMMA HeightsRestored ==
    ASSUME HeightsInv, UNCHANGED db, tx' = db, pc' \in {"idle", "down"}
    PROVE  HeightsInv'
  BY DEF HeightsInv, HeightsOK, Newest, Covered, Points, KnownHeights

\* Initially there are no files.
LEMMA HeightsInit == Init => HeightsInv
  BY DEF Init, EmptyDb, HeightsInv, HeightsOK, Newest, Points

\* Every step keeps the heights of the files right.
LEMMA HeightsStep == TypeInv /\ TypeInv' /\ HeightsInv /\ [Next]_vars => HeightsInv'
  <1> SUFFICES ASSUME TypeInv, TypeInv', HeightsInv, [Next]_vars PROVE HeightsInv'
    OBVIOUS
  <1>t. TypeOK /\ PhaseOK /\ TypeOK'
    BY DEF TypeInv
  <1>d. /\ db \in Databases /\ tx \in Databases /\ tx' \in Databases
        /\ tx.files \in Seq(FileRecords) /\ Len(tx.files) \in Nat
        /\ db.files \in Seq(FileRecords) /\ Len(db.files) \in Nat
        /\ tx.rows \subseteq MicroblockRecords /\ height \in 0 .. MaxHeight /\ height' \in 0 .. MaxHeight
    BY <1>t DEF TypeOK, Databases
  <1>h. /\ HeightsOK(db) /\ HeightsOK(tx) /\ Newest
        /\ \A r \in db.rows : Covered(db.files, r)
        /\ \A r \in tx.rows : Covered(tx.files, r) \/ Fresh(r)
    BY DEF HeightsInv
  <1>k. KnownHeights(tx) \subseteq Heights
    BY <1>d, KnownHeightsType
  <1>f. \A f \in 1 .. Len(tx.files) :
           /\ tx.files[f].minHeight \in Heights /\ tx.files[f].maxHeight \in Heights
    <2>1. \A f \in 1 .. Len(tx.files) : tx.files[f] \in FileRecords
      BY <1>d
    <2> QED  BY <2>1 DEF FileRecords
  <1>m. MaxHeight \in Nat
    BY BlockStoreAssumption
  \* The committed tables are not touched but by a commit and by the operator.
  <1>q. UNCHANGED db => HeightsOK(db)' /\ \A r \in db'.rows : Covered(db'.files, r)
    BY <1>h DEF HeightsOK, KnownHeights
  <1>v. UNCHANGED storageVars => UNCHANGED fileId
    BY DEF storageVars, serviceVars
  <1>1. CASE StartBlock
    <2>1. PICK known \in 0 .. MaxHeight, h \in Heights :
             /\ IsKnownHeight(db, known) /\ h > known
             /\ height' = h
             /\ tx' = [tx EXCEPT !.blocks = @ \cup {[height |-> h, count |-> 0]}]
      <3>1. PICK known \in 0 .. MaxHeight, h \in Heights :
               /\ IsKnownHeight(db, known)
               /\ IF MaySkip THEN h > known ELSE h = known + 1
               /\ height' = h
               /\ tx' = [tx EXCEPT !.blocks = @ \cup {[height |-> h, count |-> 0]}]
        BY <1>1 DEF StartBlock
      <3>2. h > known
        BY <1>m, <3>1 DEF Heights
      <3> QED  BY <3>1, <3>2
    <2>2. /\ pc = "idle" /\ pc' = "block" /\ UNCHANGED <<storageVars, db>> /\ tx = db
      BY <1>1, <1>t DEF StartBlock, PhaseOK
    <2>3. /\ tx'.files = tx.files /\ tx'.rows = tx.rows
          /\ tx'.blocks = tx.blocks \cup {[height |-> h, count |-> 0]}
      BY <1>d, <2>1 DEF Databases
    <2>4. KnownHeights(tx)' = KnownHeights(tx) \cup {h}
      <3>1. \A b : b \in tx'.blocks <=> b \in tx.blocks \/ b = [height |-> h, count |-> 0]
        BY <2>3
      <3>2. [height |-> h, count |-> 0].height = h
        OBVIOUS
      <3> QED  BY <3>1, <3>2 DEF KnownHeights
    <2>5. \A k \in KnownHeights(tx) : k <= h
      BY <1>k, <1>m, <2>1, <2>2 DEF IsKnownHeight, Heights
    <2>6. Newest'
      <3>1. \A k \in KnownHeights(tx)' : k <= h
        BY <1>m, <2>4, <2>5 DEF Heights
      <3> QED  BY <2>1, <2>4, <3>1 DEF Newest
    <2>7. HeightsOK(tx)'
      BY <1>h, <2>3, <2>4 DEF HeightsOK
    <2>8. \A r \in tx.rows : Covered(tx.files, r)
      BY <1>h, <2>2
    <2> QED  BY <1>q, <2>2, <2>3, <2>6, <2>7, <2>8 DEF HeightsInv
  <1>2. CASE BeginMicroblockUpdate
    <2> DEFINE files == FilesToWrite(tx)
    <2>1. /\ pc = "block" /\ pc' = "file" /\ tx' = [tx EXCEPT !.files = files]
          /\ UNCHANGED <<db, height>>
      BY <1>2 DEF BeginMicroblockUpdate
    <2>2. /\ tx'.files = files /\ tx'.rows = tx.rows /\ tx'.blocks = tx.blocks
      BY <1>d, <2>1 DEF Databases
    <2>3. height \in Heights
      BY <1>t, <2>1 DEF PhaseOK, Points
    <2>4. /\ Len(tx.files) <= Len(files) /\ Len(files) \in Nat
          /\ \A f \in 1 .. Len(tx.files) : files[f] = tx.files[f]
      BY <1>d, <2>3, FilesToWriteType
    <2>5. \A f \in 1 .. Len(files) :
             f \notin 1 .. Len(tx.files) => /\ files[f].minHeight = height
                                            /\ files[f].maxHeight = height
      BY <1>d, <2>3, FilesToWriteHeights
    <2> HIDE DEF files
    <2>6. KnownHeights(tx)' = KnownHeights(tx)
      BY <2>2 DEF KnownHeights
    <2>7. Newest'
      BY <1>h, <2>1, <2>6 DEF Newest, Points
    <2>8. height \in KnownHeights(tx) /\ height <= height
      BY <1>h, <2>1, <2>3, BlockStoreAssumption DEF Newest, Points, Heights
    <2>9. HeightsOK(tx)'
      BY <1>h, <2>2, <2>4, <2>5, <2>6, <2>8 DEF HeightsOK
    <2>10. \A r \in tx.rows : Covered(tx.files, r)
      BY <1>h, <2>1 DEF Fresh, InWindow
    <2>11. \A r \in tx.rows : Covered(files, r)
      BY <1>d, <2>4, <2>10 DEF Covered
    <2> QED  BY <1>q, <2>1, <2>2, <2>7, <2>9, <2>11 DEF HeightsInv
  <1>3. CASE SaveMicroblock
    <2> DEFINE row == [hash |-> NextMicroblock, file |-> fileId, offset |-> pointer,
                       height |-> height]
    <2>1. /\ pc = "file" /\ pc' = "row" /\ UNCHANGED <<storageVars, db, height>>
          /\ tx' = [tx EXCEPT !.rows = {r \in @ : r.hash # NextMicroblock} \cup {row}]
      BY <1>3 DEF SaveMicroblock
    <2>2. /\ tx'.files = tx.files /\ tx'.blocks = tx.blocks
          /\ tx'.rows \subseteq tx.rows \cup {row}
      BY <1>d, <2>1 DEF Databases
    <2>3. row.file = fileId /\ row.height = height
      OBVIOUS
    <2> HIDE DEF row
    <2>4. KnownHeights(tx)' = KnownHeights(tx)
      BY <2>2 DEF KnownHeights
    <2>5. Newest' /\ HeightsOK(tx)'
      BY <1>h, <2>1, <2>2, <2>4 DEF Newest, Points, HeightsOK
    <2>6. InWindow /\ InWindow' /\ UNCHANGED <<fileId, height>>
      BY <1>v, <2>1 DEF InWindow
    <2>7. ASSUME NEW r \in tx'.rows PROVE Covered(tx'.files, r) \/ Fresh(r)'
      <3>1. CASE r = row
        BY <2>3, <2>6, <3>1 DEF Fresh
      <3>2. CASE r # row
        <4>1. r \in tx.rows
          BY <2>2, <2>7, <3>2
        <4> QED  BY <1>h, <2>2, <2>6, <4>1 DEF Fresh
      <3> QED  BY <3>1, <3>2
    <2> QED  BY <1>q, <2>1, <2>5, <2>7 DEF HeightsInv
  <1>4. CASE StoreBytes \/ SyncUpdate
    <2>1. /\ InWindow /\ InWindow' /\ UNCHANGED <<fileId, db, tx, height>>
      BY <1>4 DEF StoreBytes, WriteMicroblock, SyncUpdate, SyncFile, serviceVars, InWindow
    <2>2. Newest'
      BY <1>h, <2>1 DEF Newest, InWindow, Points, KnownHeights
    <2>3. HeightsOK(tx)'
      BY <1>h, <2>1 DEF HeightsOK, KnownHeights
    <2>4. \A r \in tx.rows : Fresh(r) => Fresh(r)'
      BY <2>1 DEF Fresh
    <2> QED  BY <1>h, <1>q, <2>1, <2>2, <2>3, <2>4 DEF HeightsInv
  <1>6. CASE CloseUpdate
    <2> DEFINE closed == [tx.files[fileId] EXCEPT !.maxHeight = height, !.size = pointer]
    <2>1. /\ pc = "synced" /\ pc' = "closed" /\ UNCHANGED <<db, height>>
          /\ tx' = [tx EXCEPT !.files = [@ EXCEPT ![fileId] = closed]]
      BY <1>6 DEF CloseUpdate
    <2>2. fileId \in 1 .. Len(tx.files) /\ height \in Heights
      BY <1>t, <1>d, <2>1 DEF PhaseOK, InWindow, Points, FileIds
    <2>3. /\ tx'.rows = tx.rows /\ tx'.blocks = tx.blocks
          /\ tx'.files = [tx.files EXCEPT ![fileId] = closed]
      BY <1>d, <2>1 DEF Databases
    <2>e. tx.files[fileId] \in FileRecords
      BY <1>d, <2>2
    <2>4. closed.minHeight = tx.files[fileId].minHeight /\ closed.maxHeight = height
      BY <2>e DEF FileRecords
    <2> HIDE DEF closed
    <2>5. /\ Len(tx'.files) = Len(tx.files)
          /\ tx'.files[fileId].minHeight = tx.files[fileId].minHeight
          /\ tx'.files[fileId].maxHeight = height
          /\ \A f \in 1 .. Len(tx.files) : f # fileId => tx'.files[f] = tx.files[f]
      BY <1>d, <2>2, <2>3, <2>4
    <2>6. KnownHeights(tx)' = KnownHeights(tx)
      BY <2>3 DEF KnownHeights
    <2>7. Newest' /\ height \in KnownHeights(tx)
      BY <1>h, <2>1, <2>6 DEF Newest, Points
    \* The block in process is not older than the last one in the file.
    <2>8. /\ tx.files[fileId].minHeight <= tx.files[fileId].maxHeight
          /\ tx.files[fileId].maxHeight <= height
      BY <1>h, <2>1, <2>2 DEF HeightsOK, Newest, Points
    <2>9. /\ tx.files[fileId].minHeight \in Int /\ tx.files[fileId].maxHeight \in Int
          /\ height \in Int /\ \A r \in tx.rows : r.height \in Int
      BY <1>d, <1>f, <2>2, BlockStoreAssumption DEF Heights, MicroblockRecords
    <2>10. HeightsOK(tx)'
      BY <1>h, <2>5, <2>6, <2>7, <2>8, <2>9 DEF HeightsOK
    <2>11. ASSUME NEW r \in tx.rows PROVE Covered(tx'.files, r)
      <3>1. CASE Fresh(r)
        BY <2>2, <2>5, <2>8, <2>9, <3>1 DEF Fresh, Covered
      <3>2. CASE Covered(tx.files, r) /\ r.file = fileId
        BY <2>2, <2>5, <2>8, <2>9, <2>11, <3>2 DEF Covered
      <3>3. CASE Covered(tx.files, r) /\ r.file # fileId
        BY <2>5, <3>3 DEF Covered
      <3> QED  BY <1>h, <2>11, <3>1, <3>2, <3>3
    <2> QED  BY <1>q, <2>1, <2>3, <2>7, <2>10, <2>11 DEF HeightsInv
  <1>7. CASE CommitBlockMicroblocks
    <2> DEFINE b == [height |-> height, count |-> written]
    <2>1. /\ pc = "closed" /\ pc' = "counted" /\ UNCHANGED <<db, height>>
          /\ tx' = [tx EXCEPT !.blocks = {q \in @ : q.height # height} \cup {b}]
      BY <1>7 DEF CommitBlockMicroblocks
    <2>2. /\ tx'.files = tx.files /\ tx'.rows = tx.rows
          /\ tx'.blocks = {q \in tx.blocks : q.height # height} \cup {b}
      BY <1>d, <2>1 DEF Databases
    <2>3. height \in KnownHeights(tx)
      BY <1>h, <2>1 DEF Newest, Points
    <2>b. b.height = height
      OBVIOUS
    <2> HIDE DEF b
    <2>4. KnownHeights(tx)' = KnownHeights(tx)
      BY <2>2, <2>3, <2>b DEF KnownHeights
    <2>5. Newest' /\ HeightsOK(tx)'
      BY <1>h, <2>1, <2>2, <2>4 DEF Newest, Points, HeightsOK
    <2>6. \A r \in tx.rows : Covered(tx.files, r)
      BY <1>h, <2>1 DEF Fresh, InWindow
    <2> QED  BY <1>q, <2>1, <2>2, <2>5, <2>6 DEF HeightsInv
  <1>8. CASE Commit
    <2>1. /\ pc = "counted" /\ pc' = "idle" /\ db' = tx /\ UNCHANGED tx
      BY <1>8 DEF Commit, EndTransaction
    <2>2. \A r \in tx.rows : Covered(tx.files, r)
      BY <1>h, <2>1 DEF Fresh, InWindow
    <2> QED  BY <1>h, <2>1, <2>2 DEF HeightsInv, HeightsOK, Newest, Points, KnownHeights
  <1>9. CASE BeginRefused \/ BeginPanics \/ PreviousMissing \/ CallFails \/ WriteFallsShort
    <2>1. UNCHANGED db /\ tx' = db /\ pc' = "idle"
      BY <1>9 DEF BeginRefused, BeginPanics, PreviousMissing, CallFails, WriteFallsShort,
                  Rollback, EndTransaction
    <2> QED  BY <2>1, HeightsRestored
  <1>10. CASE ProcessDies \/ PowerFails
    <2>1. UNCHANGED db /\ tx' = db /\ pc' = "down"
      BY <1>10 DEF ProcessDies, PowerFails, Down
    <2> QED  BY <2>1, HeightsRestored
  <1>11. CASE DeleteDatabase
    <2>1. db' = EmptyDb /\ tx' = EmptyDb /\ pc' = "down"
      BY <1>11 DEF DeleteDatabase
    <2> QED  BY <2>1 DEF EmptyDb, HeightsInv, HeightsOK, Newest, Points
  <1>12. CASE StartProcess
    <2>1. pc = "down" /\ pc' = "idle" /\ UNCHANGED <<db, tx>> /\ tx = db
      BY <1>12, <1>t DEF StartProcess, PhaseOK
    <2> QED  BY <2>1, HeightsRestored
  <1>13. CASE UNCHANGED vars
    <2>1. UNCHANGED <<db, tx, pc, height, fileId>>
      BY <1>13 DEF vars, txVars, storageVars, serviceVars
    <2> QED  BY <1>h, <2>1 DEF HeightsInv, HeightsOK, Newest, KnownHeights, Covered, Fresh, InWindow
  <1> QED
    BY <1>1, <1>2, <1>3, <1>4, <1>6, <1>7, <1>8, <1>9, <1>10, <1>11, <1>12, <1>13
    DEF Next, SyncStep, Fault, NothingToSync

\* The heights recorded for a file are those of the microblocks stored in it, through
\* rollbacks, restarts and any loss.
THEOREM FileHeights == Spec => []FileHeightsCover
  <1>1. Init => TypeInv /\ HeightsInv
    BY TypeInvInit, HeightsInit
  <1>2. TypeInv /\ HeightsInv /\ [Next]_vars => TypeInv' /\ HeightsInv'
    BY TypeInvStep, HeightsStep
  <1>3. TypeInv /\ HeightsInv => FileHeightsCover
    <2>1. TypeInv => db.files \in Seq(FileRecords)
      BY DEF TypeInv, TypeOK, Databases
    <2> QED  BY <2>1 DEF HeightsInv, Covered, FileHeightsCover
  <1> QED  BY <1>1, <1>2, <1>3, PTL DEF Spec

-----------------------------------------------------------------------------
(* Full files *)

Full(d, f) == f \in 1 .. Len(d.files) /\ d.files[f].size >= MaxFileSize

\* The full files of d are not open, nor touched by e.
Closed(d, e) ==
    \A f \in 1 .. Len(d.files) : Full(d, f) =>
        /\ ~(handle /\ fileId = f)
        /\ \A r \in e.rows : r.file = f => r \in d.rows
        /\ f \in 1 .. Len(e.files) /\ e.files[f] = d.files[f]

\* What the transaction has done so far: it has not chosen its file before it begins
\* the update, and has closed it once it has recorded its size.
FullInv ==
    /\ pc = "block" => tx.files = db.files
    /\ pc \in {"closed", "counted"} => ~handle
    /\ Closed(db, tx)

\* The file the transaction writes to is a new one, or not full.
LEMMA ChosenNotFull ==
    ASSUME NEW d \in Databases, height \in Heights
    PROVE  ~Full(d, Len(FilesToWrite(d)))
  <1>1. d.files \in Seq(FileRecords) /\ Len(d.files) \in Nat
    BY DEF Databases
  <1>2. CASE NeedsNewFile(d)
    <2> DEFINE new == [minHeight |-> height, maxHeight |-> height, size |-> 0]
    <2>1. new \in FileRecords
      BY StorageAssumption DEF FileRecords
    <2>2. FilesToWrite(d) = Append(d.files, new)
      BY <1>2 DEF FilesToWrite
    <2> HIDE DEF new
    <2>3. Len(FilesToWrite(d)) = Len(d.files) + 1
      BY <1>1, <2>1, <2>2, AppendProperties
    <2> QED  BY <1>1, <2>3 DEF Full
  <1>3. CASE ~NeedsNewFile(d)
    BY <1>3 DEF FilesToWrite, NeedsNewFile, IsFull, Full
  <1> QED  BY <1>2, <1>3

\* A step that ends the transaction leaves its full files closed.
LEMMA FullRestored ==
    ASSUME FullInv, UNCHANGED db, tx' = db, pc' \in {"idle", "down"},
           handle' => UNCHANGED <<handle, fileId>> \/ ~Full(db, fileId')
    PROVE  FullInv'
  <1>1. \A f \in 1 .. Len(db.files) : Full(db, f)' <=> Full(db, f)
    BY DEF Full
  <1>2. Closed(db, tx)
    BY DEF FullInv
  <1>3. Closed(db, tx)'
    BY <1>1, <1>2 DEF Closed
  <1> QED  BY <1>3 DEF FullInv

LEMMA FullInit == Init => FullInv
  BY DEF Init, EmptyDb, FullInv, Closed

\* Every step keeps the full files closed.
LEMMA FullStep == TypeInv /\ FullInv /\ [Next]_vars => FullInv'
  <1> SUFFICES ASSUME TypeInv, FullInv, [Next]_vars PROVE FullInv'
    OBVIOUS
  <1>t. TypeOK /\ PhaseOK
    BY DEF TypeInv
  <1>d. /\ db \in Databases /\ tx \in Databases
        /\ tx.files \in Seq(FileRecords) /\ Len(tx.files) \in Nat
        /\ db.files \in Seq(FileRecords) /\ Len(db.files) \in Nat
    BY <1>t DEF TypeOK, Databases
  <1>c. Closed(db, tx) /\ (pc = "block" => tx.files = db.files)
    BY DEF FullInv
  <1>q. UNCHANGED db => \A f : Full(db, f)' <=> Full(db, f)
    BY DEF Full
  <1>v. UNCHANGED storageVars => UNCHANGED <<handle, fileId>>
    BY DEF storageVars, serviceVars
  <1>1. CASE StartBlock
    <2>1. /\ pc = "idle" /\ pc' = "block" /\ UNCHANGED <<handle, fileId, db>> /\ tx = db
      BY <1>1, <1>t, <1>v DEF StartBlock, PhaseOK
    <2>2. tx'.files = tx.files /\ tx'.rows = tx.rows
      BY <1>1, <1>d DEF StartBlock, Databases
    <2> QED  BY <1>c, <1>q, <2>1, <2>2 DEF FullInv, Closed
  <1>2. CASE BeginMicroblockUpdate
    <2> DEFINE files == FilesToWrite(tx)
    <2>1. /\ pc = "block" /\ pc' = "file" /\ tx' = [tx EXCEPT !.files = files] /\ UNCHANGED db
          /\ fileId' = Len(files)
      BY <1>2 DEF BeginMicroblockUpdate, BeginUpdate, OpenFile
    <2>2. height \in Heights
      BY <1>t, <2>1 DEF PhaseOK, Points
    <2>3. /\ tx'.files = files /\ tx'.rows = tx.rows
      BY <1>d, <2>1 DEF Databases
    <2>4. /\ Len(tx.files) <= Len(files) /\ Len(files) \in Nat
          /\ \A f \in 1 .. Len(tx.files) : files[f] = tx.files[f]
      BY <1>d, <2>2, FilesToWriteType
    <2>5. ~Full(db, fileId')
      BY <1>c, <1>d, <2>1, <2>2, ChosenNotFull DEF Full
    <2> HIDE DEF files
    <2>6. tx.files = db.files
      BY <1>c, <2>1
    <2>7. ASSUME NEW f \in 1 .. Len(db.files), Full(db, f)
          PROVE  /\ ~(handle' /\ fileId' = f)
                 /\ \A r \in tx'.rows : r.file = f => r \in db.rows
                 /\ f \in 1 .. Len(tx'.files) /\ tx'.files[f] = db.files[f]
      <3>1. f \in 1 .. Len(files) /\ files[f] = db.files[f]
        BY <1>d, <2>4, <2>6
      <3>2. \A r \in tx.rows : r.file = f => r \in db.rows
        BY <1>c, <2>7 DEF Closed
      <3> QED  BY <2>3, <2>5, <2>7, <3>1, <3>2
    <2> QED  BY <1>q, <2>1, <2>7 DEF FullInv, Closed
  <1>3. CASE SaveMicroblock
    <2> DEFINE row == [hash |-> NextMicroblock, file |-> fileId, offset |-> pointer, height |-> height]
    <2>1. /\ pc = "file" /\ pc' = "row" /\ UNCHANGED <<db, handle, fileId>>
          /\ tx' = [tx EXCEPT !.rows = {r \in @ : r.hash # NextMicroblock} \cup {row}]
      BY <1>3, <1>v DEF SaveMicroblock
    <2>2. handle /\ row.file = fileId
      BY <1>t, <2>1 DEF PhaseOK, InWindow
    <2> HIDE DEF row
    <2>3. /\ tx'.files = tx.files
          /\ \A r \in tx'.rows : r \in tx.rows \/ r = row
      BY <1>d, <2>1 DEF Databases
    <2> QED  BY <1>c, <1>q, <2>1, <2>2, <2>3 DEF FullInv, Closed
  <1>4. CASE StoreBytes \/ SyncUpdate
    <2>1. /\ pc \in {"file", "row"} /\ pc' \in {"file", "synced"} /\ UNCHANGED <<handle, fileId, db, tx>>
      BY <1>4 DEF StoreBytes, WriteMicroblock, SyncUpdate, SyncFile, serviceVars
    <2> QED  BY <1>c, <1>q, <2>1 DEF FullInv, Closed
  <1>6. CASE CloseUpdate
    <2> DEFINE closed == [tx.files[fileId] EXCEPT !.maxHeight = height, !.size = pointer]
    <2>1. /\ pc = "synced" /\ pc' = "closed" /\ UNCHANGED db /\ ~handle'
          /\ tx' = [tx EXCEPT !.files = [@ EXCEPT ![fileId] = closed]]
      BY <1>6 DEF CloseUpdate, ReleaseHandle, ForgetService
    <2>2. handle
      BY <1>t, <2>1 DEF PhaseOK, InWindow
    <2>3. tx'.rows = tx.rows /\ tx'.files = [tx.files EXCEPT ![fileId] = closed]
      BY <1>d, <2>1 DEF Databases
    <2> HIDE DEF closed
    <2>4. /\ Len(tx'.files) = Len(tx.files)
          /\ \A f \in 1 .. Len(tx.files) : f # fileId => tx'.files[f] = tx.files[f]
      BY <1>d, <2>3
    <2> QED  BY <1>c, <1>q, <2>1, <2>2, <2>3, <2>4 DEF FullInv, Closed
  <1>7. CASE CommitBlockMicroblocks
    <2>1. /\ pc = "closed" /\ pc' = "counted" /\ UNCHANGED <<db, handle, fileId>>
      BY <1>7, <1>v DEF CommitBlockMicroblocks
    <2>2. tx'.files = tx.files /\ tx'.rows = tx.rows
      BY <1>7, <1>d DEF CommitBlockMicroblocks, Databases
    <2>3. ~handle
      BY <2>1 DEF FullInv
    <2> QED  BY <1>c, <1>q, <2>1, <2>2, <2>3 DEF FullInv, Closed
  <1>8. CASE Commit
    <2>1. /\ pc = "counted" /\ pc' = "idle" /\ db' = tx /\ tx' = tx /\ UNCHANGED <<handle, fileId>>
      BY <1>8, <1>v DEF Commit, EndTransaction
    <2>2. ~handle
      BY <2>1 DEF FullInv
    <2> QED  BY <2>1, <2>2 DEF FullInv, Closed
  <1>9. CASE BeginRefused \/ PreviousMissing \/ CallFails \/ WriteFallsShort
    <2>1. UNCHANGED <<db, handle, fileId>> /\ tx' = db /\ pc' = "idle"
      BY <1>9, <1>v DEF BeginRefused, PreviousMissing, CallFails, WriteFallsShort, ShortWrite,
                        serviceVars, Rollback, EndTransaction
    <2> QED  BY <2>1, FullRestored
  <1>10. CASE BeginPanics
    <2>1. /\ pc = "block" /\ UNCHANGED db /\ tx' = db /\ pc' = "idle"
          /\ fileId' = Len(FilesToWrite(tx))
      BY <1>10 DEF BeginPanics, BeginUpdatePanics, OpenFile, Rollback, EndTransaction
    <2>2. height \in Heights
      BY <1>t, <2>1 DEF PhaseOK, Points
    <2>3. ~Full(db, fileId')
      BY <1>c, <1>d, <2>1, <2>2, ChosenNotFull DEF Full
    <2> QED  BY <2>1, <2>3, FullRestored
  <1>11. CASE ProcessDies \/ PowerFails
    <2>1. UNCHANGED db /\ tx' = db /\ pc' = "down" /\ ~handle'
      BY <1>11 DEF ProcessDies, PowerFails, Down, ServiceExits, LosePower, ForgetService
    <2> QED  BY <2>1, FullRestored
  <1>12. CASE DeleteDatabase
    <2>1. db' = EmptyDb /\ tx' = EmptyDb /\ pc' = "down"
      BY <1>12 DEF DeleteDatabase
    <2> QED  BY <2>1 DEF EmptyDb, FullInv, Closed
  <1>13. CASE StartProcess
    <2>1. pc = "down" /\ pc' = "idle" /\ UNCHANGED <<db, tx, handle, fileId>> /\ tx = db
      BY <1>13, <1>t, <1>v DEF StartProcess, PhaseOK
    <2> QED  BY <2>1, FullRestored
  <1>14. CASE UNCHANGED vars
    <2>1. UNCHANGED <<db, tx, pc, handle, fileId>>
      BY <1>14 DEF vars, txVars, storageVars, serviceVars
    <2> QED  BY <1>c, <1>q, <2>1 DEF FullInv, Closed
  <1> QED
    BY <1>1, <1>2, <1>3, <1>4, <1>6, <1>7, <1>8, <1>9, <1>10, <1>11, <1>12, <1>13, <1>14
    DEF Next, SyncStep, Fault, NothingToSync

\* A file whose committed size has reached the maximum is never written to again: no
\* exception that leaves a file open, restart or loss makes an update choose it.
THEOREM FullFiles == Spec => []FullFilesClosed
  <1>1. Init => TypeInv /\ FullInv
    BY TypeInvInit, FullInit
  <1>2. TypeInv /\ FullInv /\ [Next]_vars => TypeInv' /\ FullInv'
    BY TypeInvStep, FullStep
  <1>3. TypeInv /\ FullInv => FullFilesClosed
    <2>1. TypeInv => db.files \in Seq(FileRecords) /\ tx.files \in Seq(FileRecords)
      BY DEF TypeInv, TypeOK, Databases
    <2> QED  BY <2>1 DEF FullInv, Closed, Full, FullFilesClosed
  <1> QED  BY <1>1, <1>2, <1>3, PTL DEF Spec

-----------------------------------------------------------------------------
(* Lost files *)

\* The first n cells of file f are on disk as they are read.
OnDisk(f, n) ==
    /\ n <= diskLength[f]
    /\ \A o \in Offsets : o < n => content[f][o] = disk[f][o]

\* File f is empty, because a power loss took it, or its first n cells are on disk.
EmptyOr(f, n) == length[f] = 0 \/ OnDisk(f, n)

\* Row r lies within the first n cells of its file, and its bytes are there unless the
\* file is lost.
At(r, n) ==
    /\ r.offset + Size[r.hash] <= n
    /\ \/ length[r.file] = 0
       \/ \A i \in 1 .. Size[r.hash] : content[r.file][r.offset + i - 1] = <<r.hash, i>>

DbFiles == \A f \in 1 .. Len(db.files) : EmptyOr(f, db.files[f].size)
TxFiles == \A f \in 1 .. Len(tx.files) : EmptyOr(f, tx.files[f].size)

DbAt == \A r \in db.rows : r.file \in 1 .. Len(db.files) /\ At(r, db.files[r.file].size)

TxAt == \A r \in tx.rows :
    /\ r.file \in 1 .. Len(tx.files)
    /\ IF IsPending(r) THEN r.file = fileId /\ r.offset = pointer
                       ELSE At(r, Extent(r.file))

WrittenOut == pc = "synced" => OnDisk(fileId, pointer)

LossInv ==
    /\ LengthOK /\ DbFiles /\ TxFiles /\ DbAt /\ TxAt
    /\ FilesGrow /\ WindowOK /\ WrittenOut

\* A step loses file f, or keeps its first n cells.
LosesOrKeeps(f, n) ==
    \/ n = 0
    \/ length'[f] = 0
    \/ /\ length[f] # 0
       /\ OnDisk(f, n)'
       /\ \A o \in Offsets : o < n => content'[f][o] = content[f][o]

\* A step that leaves bytes and lengths alone keeps every file.
LEMMA SameFilesKeep ==
    ASSUME UNCHANGED <<content, length, disk, diskLength>>
    PROVE  \A f \in FileIds, n \in 0 .. FileCapacity : EmptyOr(f, n) => LosesOrKeeps(f, n)
  BY DEF EmptyOr, LosesOrKeeps, OnDisk

\* A file that was lost has no offset but 0 at which it can be written.
LEMMA WritingKeeps ==
    ASSUME StorageTypeOK, fileId \in FileIds, pointer <= length[fileId],
           NEW m \in Microblocks, NEW k \in Nat, PutCells(m, k)
    PROVE  \A f \in FileIds, n \in 0 .. FileCapacity :
              EmptyOr(f, n) /\ (f = fileId => n <= pointer) => LosesOrKeeps(f, n)
  <1> SUFFICES ASSUME NEW f \in FileIds, NEW n \in 0 .. FileCapacity,
                      EmptyOr(f, n), f = fileId => n <= pointer
               PROVE  LosesOrKeeps(f, n)
    OBVIOUS
  <1>1. UNCHANGED <<disk, diskLength>>
    BY DEF PutCells
  <1>2. \A o \in Offsets : o < n => content'[f][o] = content[f][o]
    BY StorageAssumption DEF StorageTypeOK, PutCells, Offsets
  <1>3. length[f] = 0 => n = 0 \/ length'[f] = 0
    BY StorageAssumption DEF StorageTypeOK, PutCells
  <1> QED  BY <1>1, <1>2, <1>3 DEF LosesOrKeeps, EmptyOr, OnDisk

\* fsync keeps every file.
LEMMA SyncingKeeps ==
    ASSUME StorageTypeOK, fileId \in FileIds, LengthOK, SyncFile
    PROVE  \A f \in FileIds, n \in 0 .. FileCapacity : EmptyOr(f, n) => LosesOrKeeps(f, n)
  <1> SUFFICES ASSUME NEW f \in FileIds, NEW n \in 0 .. FileCapacity, EmptyOr(f, n)
               PROVE  LosesOrKeeps(f, n)
    OBVIOUS
  <1>1. content' = content /\ length' = length /\ disk'[f] \in {disk[f], content[f]}
    BY DEF StorageTypeOK, SyncFile
  <1>2. n <= diskLength[f] => n <= diskLength'[f]
    BY StorageAssumption DEF StorageTypeOK, SyncFile, LengthOK
  <1> QED  BY <1>1, <1>2 DEF LosesOrKeeps, EmptyOr, OnDisk

\* A power loss takes a file as a whole or keeps what was on disk.
LEMMA PowerLossKeeps ==
    ASSUME StorageTypeOK, LengthOK, LosePower
    PROVE  \A f \in FileIds, k \in 0 .. FileCapacity : EmptyOr(f, k) => LosesOrKeeps(f, k)
  <1> SUFFICES ASSUME NEW f \in FileIds, NEW k \in 0 .. FileCapacity, EmptyOr(f, k)
               PROVE  LosesOrKeeps(f, k)
    OBVIOUS
  <1>1. PICK lost \in SUBSET {g \in FileIds : entry[g] = "cached"},
             n \in SurvivingLengths,
             kept \in SUBSET UNION {{<<g, o>> : o \in Unsynced(g)} : g \in FileIds} :
          /\ entry' = [g \in FileIds |->
                         IF g \in lost \/ entry[g] = "absent" THEN "absent" ELSE "durable"]
          /\ length' = [g \in FileIds |-> IF g \in lost THEN 0 ELSE n[g]]
          /\ content' = [g \in FileIds |-> IF g \in lost THEN [o \in Offsets |-> Blank]
                                           ELSE Remains(g, kept, n[g])]
          /\ disk' = content'
          /\ diskLength' = length'
          /\ ForgetService
    BY DEF LosePower
  <1>2. n[f] \in 0 .. FileCapacity /\ diskLength[f] <= n[f] /\ n[f] <= length[f]
    BY DEF SurvivingLengths
  <1>3. CASE f \in lost
    BY <1>1, <1>3 DEF LosesOrKeeps
  <1>4. CASE f \notin lost /\ length[f] = 0
    <2>1. n[f] = 0
      BY <1>2, <1>4, StorageAssumption
    <2> QED  BY <1>1, <1>4, <2>1 DEF LosesOrKeeps
  <1>5. CASE f \notin lost /\ length[f] # 0
    <2>1. OnDisk(f, k)
      BY <1>5 DEF EmptyOr
    <2>2. k <= n[f]
      BY <1>2, <2>1, StorageAssumption DEF OnDisk, StorageTypeOK
    <2>3. content'[f] = Remains(f, kept, n[f]) /\ diskLength'[f] = n[f]
      BY <1>1, <1>5
    <2>4. \A o \in Offsets : o < k => content'[f][o] = content[f][o]
      BY <1>2, <2>1, <2>2, <2>3, StorageAssumption DEF Remains, OnDisk, Offsets
    <2> QED  BY <1>1, <1>5, <2>2, <2>3, <2>4 DEF LosesOrKeeps, OnDisk
  <1> QED  BY <1>3, <1>4, <1>5

\* A row stays where it is, or its file is lost.
LEMMA AtKept ==
    ASSUME NEW r \in MicroblockRecords, NEW n \in 0 .. FileCapacity, At(r, n),
           LosesOrKeeps(r.file, n)
    PROVE  At(r, n)'
  <1>1. Size[r.hash] \in Nat \ {0} /\ r.offset \in Nat
    BY StorageAssumption DEF MicroblockRecords
  <1>2. n # 0
    BY <1>1, StorageAssumption DEF At
  <1>3. CASE length'[r.file] = 0
    BY <1>3 DEF At
  <1>4. CASE length'[r.file] # 0
    <2>1. /\ length[r.file] # 0
          /\ \A o \in Offsets : o < n => content'[r.file][o] = content[r.file][o]
      BY <1>2, <1>4 DEF LosesOrKeeps
    <2>2. ASSUME NEW i \in 1 .. Size[r.hash]
          PROVE  content'[r.file][r.offset + i - 1] = <<r.hash, i>>
      <3>1. r.offset + i - 1 \in Offsets /\ r.offset + i - 1 < n
        BY <1>1, StorageAssumption DEF At, Offsets
      <3> QED  BY <2>1, <3>1 DEF At
    <2> QED  BY <2>2 DEF At
  <1> QED  BY <1>3, <1>4

\* Initially there is nothing to lose.
LEMMA LossInit == Init => LossInv
  <1> SUFFICES ASSUME Init PROVE LossInv
    OBVIOUS
  <1>1. /\ db.files = <<>> /\ tx.files = <<>> /\ db.rows = {} /\ tx.rows = {}
        /\ pc = "down" /\ length = [f \in FileIds |-> 0] /\ diskLength = length
    BY DEF Init, StorageInit, EmptyDb
  <1>2. LengthOK
    BY <1>1 DEF LengthOK
  <1> QED
    BY <1>1, <1>2
    DEF LossInv, DbFiles, TxFiles, DbAt, TxAt, FilesGrow, WindowOK, WrittenOut, InWindow

\* Every step keeps what is committed where it is, or loses its file as a whole.
LEMMA LossStep == TypeInv /\ TypeInv' /\ LossInv /\ [Next]_vars => LossInv'
  <1> SUFFICES ASSUME TypeInv, TypeInv', LossInv, [Next]_vars PROVE LossInv'
    OBVIOUS
  <1>t. StorageTypeOK /\ TypeOK /\ PhaseOK /\ StorageTypeOK' /\ TypeOK' /\ PhaseOK'
    BY DEF TypeInv, TypeOK
  <1>d. /\ LengthOK /\ DbFiles /\ TxFiles /\ DbAt /\ TxAt
        /\ FilesGrow /\ WindowOK /\ WrittenOut
    BY DEF LossInv
  <1>f. /\ db.files \in Seq(FileRecords) /\ Len(db.files) <= MaxFileId /\ Len(db.files) \in Nat
        /\ tx.files \in Seq(FileRecords) /\ Len(tx.files) <= MaxFileId /\ Len(tx.files) \in Nat
    BY <1>t DEF TypeOK, Databases
  <1>n. /\ \A f \in 1 .. Len(db.files) :
             f \in FileIds /\ db.files[f] \in FileRecords /\ db.files[f].size \in 0 .. FileCapacity
        /\ \A f \in 1 .. Len(tx.files) :
             f \in FileIds /\ tx.files[f] \in FileRecords /\ tx.files[f].size \in 0 .. FileCapacity
    BY <1>f, FileRecordType, StorageAssumption DEF FileIds
  <1>p. pointer \in 0 .. FileCapacity
    BY <1>t DEF StorageTypeOK
  <1>r. db.rows \subseteq MicroblockRecords /\ tx.rows \subseteq MicroblockRecords
    BY <1>t DEF TypeOK, Databases
  <1>w. InWindow => /\ fileId \in FileIds /\ fileId \in 1 .. Len(tx.files)
                    /\ tx.files[fileId].size <= pointer /\ pointer <= length[fileId]
    <2> SUFFICES ASSUME InWindow
                 PROVE  /\ fileId \in FileIds /\ fileId \in 1 .. Len(tx.files)
                        /\ tx.files[fileId].size <= pointer /\ pointer <= length[fileId]
      OBVIOUS
    <2>1. fileId \in FileIds /\ fileId = Len(tx.files)
      BY <1>t DEF PhaseOK
    <2>2. fileId \in 1 .. Len(tx.files)
      BY <1>f, <2>1 DEF FileIds
    <2> QED  BY <1>d, <2>1, <2>2 DEF WindowOK
  <1>b. InWindow => \A f \in 1 .. Len(db.files) : f = fileId => db.files[f].size <= pointer
    BY <1>d, <1>n, <1>w, <1>p DEF FilesGrow
  <1>e. \A f \in 1 .. Len(tx.files) : Extent(f) \in 0 .. FileCapacity
    BY <1>n, <1>p DEF Extent
  \* What is lost or kept is still empty or on disk.
  <1>h. ASSUME NEW f \in FileIds, NEW n \in 0 .. FileCapacity, LosesOrKeeps(f, n)
        PROVE  EmptyOr(f, n)'
    <2>1. diskLength'[f] \in 0 .. FileCapacity
      BY <1>t DEF StorageTypeOK
    <2>2. CASE n = 0
      BY <2>1, <2>2, StorageAssumption DEF EmptyOr, OnDisk, Offsets
    <2> QED  BY <1>h, <2>2 DEF LosesOrKeeps, EmptyOr
  \* A step that leaves the database and loses or keeps its files.
  <1>q. ASSUME UNCHANGED db,
               \A f \in 1 .. Len(db.files) : LosesOrKeeps(f, db.files[f].size)
        PROVE  DbFiles' /\ DbAt'
    <2>1. \A f \in 1 .. Len(db.files) : EmptyOr(f, db.files[f].size)'
      <3>1. ASSUME NEW f \in 1 .. Len(db.files), NEW n \in 0 .. FileCapacity,
                   n = db.files[f].size
            PROVE  EmptyOr(f, n)'
        BY <1>h, <1>n, <1>q, <3>1
      <3> QED  BY <1>n, <1>q, <3>1 DEF EmptyOr, OnDisk
    <2>2. ASSUME NEW r \in db.rows
          PROVE  r.file \in 1 .. Len(db.files) /\ At(r, db.files[r.file].size)'
      <3>1. r.file \in 1 .. Len(db.files) /\ At(r, db.files[r.file].size)
        BY <1>d, <2>2 DEF DbAt
      <3>2. LosesOrKeeps(r.file, db.files[r.file].size)
        BY <1>q, <3>1
      <3>3. ASSUME NEW n \in 0 .. FileCapacity, n = db.files[r.file].size PROVE At(r, n)'
        BY <1>r, <2>2, <3>1, <3>2, <3>3, AtKept
      <3> QED  BY <1>n, <1>q, <3>1, <3>3 DEF At
    <2> QED  BY <1>q, <2>1, <2>2 DEF DbFiles, DbAt
  \* A step that ends the transaction without committing it.
  <1>rb. ASSUME UNCHANGED db, tx' = db, pc' \in {"idle", "down"}, LengthOK',
                \A f \in 1 .. Len(db.files) : LosesOrKeeps(f, db.files[f].size)
         PROVE  LossInv'
    <2>1. DbFiles' /\ DbAt'
      BY <1>rb, <1>q
    <2>2. ~InWindow' /\ pc' # "row" /\ pc' # "synced"
      BY <1>rb DEF InWindow
    <2>3. TxFiles' /\ TxAt'
      BY <1>rb, <2>1, <2>2 DEF DbFiles, TxFiles, DbAt, TxAt, EmptyOr, OnDisk, IsPending, Extent
    <2>4. FilesGrow'
      BY <1>rb, <1>f, <1>n DEF FilesGrow
    <2> QED  BY <1>rb, <2>1, <2>2, <2>3, <2>4 DEF LossInv, WindowOK, WrittenOut
  <1>rr. Rollback \/ Down => UNCHANGED db /\ tx' = db /\ pc' \in {"idle", "down"}
    BY DEF Rollback, EndTransaction, Down
  <1>v. UNCHANGED storageVars => UNCHANGED <<fileId, pointer, content, length, disk, diskLength>>
    BY DEF storageVars, serviceVars, fileVars
  \* A step that leaves bytes and lengths alone.
  <1>a. ASSUME UNCHANGED <<content, length, disk, diskLength>>
        PROVE  /\ LengthOK'
               /\ \A f \in 1 .. Len(db.files) : LosesOrKeeps(f, db.files[f].size)
    <2>1. LengthOK'
      BY <1>a, <1>d DEF LengthOK
    <2> QED  BY <1>a, <1>d, <1>n, <2>1, SameFilesKeep DEF DbFiles
  \* A step of the transaction that leaves the storage and the list of files alone.
  <1>i. ASSUME UNCHANGED <<storageVars, db>>, UNCHANGED tx.files,
               TxAt', WrittenOut', InWindow' => InWindow
        PROVE  LossInv'
    <2>1. LengthOK' /\ DbFiles' /\ DbAt'
      BY <1>i, <1>v, <1>a, <1>q
    <2>2. TxFiles' /\ FilesGrow' /\ WindowOK'
      BY <1>i, <1>v, <1>d DEF TxFiles, EmptyOr, OnDisk, FilesGrow, WindowOK
    <2> QED  BY <1>i, <2>1, <2>2 DEF LossInv
  <1>1. CASE StartBlock
    <2>1. /\ pc = "idle" /\ pc' = "block" /\ UNCHANGED <<storageVars, db>>
          /\ tx'.files = tx.files /\ tx'.rows = tx.rows
      BY <1>1, <1>t DEF StartBlock, TypeOK, Databases
    <2>2. TxAt'
      BY <2>1, <1>v, <1>d DEF TxAt, IsPending, Extent, InWindow, At
    <2> QED  BY <1>i, <2>1, <2>2 DEF InWindow, WrittenOut
  <1>2. CASE BeginMicroblockUpdate
    <2> DEFINE files == FilesToWrite(tx)
               id    == Len(files)
    <2>1. /\ pc = "block" /\ pc' = "file" /\ id \in FileIds
          /\ tx' = [tx EXCEPT !.files = files]
          /\ files[id].size <= length[id] /\ OpenFile(id)
          /\ pointer' = files[id].size
          /\ UNCHANGED db
      BY <1>2 DEF BeginMicroblockUpdate, BeginUpdate
    <2>2. /\ files \in Seq(FileRecords) /\ files # <<>>
          /\ Len(tx.files) <= id
          /\ \A f \in 1 .. Len(tx.files) : files[f] = tx.files[f]
          /\ \A f \in 1 .. id : f \notin 1 .. Len(tx.files) => files[f].size = 0
      BY <1>t, <2>1, FilesToWriteType DEF TypeOK, PhaseOK, Points
    <2> HIDE DEF files
    <2>3. tx'.files = files /\ tx'.rows = tx.rows
      BY <1>t, <2>1 DEF TypeOK, Databases
    <2>4. UNCHANGED <<content, length, disk, diskLength>> /\ fileId' = id
      BY <2>1 DEF OpenFile
    <2>5. LengthOK' /\ DbFiles' /\ DbAt'
      BY <1>a, <1>q, <2>1, <2>4
    <2>6. TxFiles'
      <3>1. \A f \in 1 .. id : f \in FileIds /\ diskLength[f] \in 0 .. FileCapacity
        BY <1>t, <2>1, StorageAssumption DEF StorageTypeOK, FileIds
      <3>2. ASSUME NEW f \in 1 .. id PROVE EmptyOr(f, files[f].size)
        <4>1. CASE f \in 1 .. Len(tx.files)
          BY <1>d, <2>2, <4>1 DEF TxFiles
        <4>2. CASE f \notin 1 .. Len(tx.files)
          <5>1. files[f].size = 0 /\ 0 <= diskLength[f]
            BY <2>2, <3>1, <3>2, <4>2, StorageAssumption
          <5> QED  BY <5>1 DEF EmptyOr, OnDisk, Offsets
        <4> QED  BY <4>1, <4>2
      <3> QED  BY <2>3, <2>4, <3>2 DEF TxFiles, EmptyOr, OnDisk
    <2>7. FilesGrow'
      BY <1>d, <1>f, <2>1, <2>2, <2>3 DEF FilesGrow
    <2>8. TxAt'
      <3>1. ASSUME NEW q \in tx.rows
            PROVE  q.file \in 1 .. id /\ At(q, tx.files[q.file].size)
                   /\ q.file \in 1 .. Len(tx.files)
        BY <1>d, <1>f, <2>1, <2>2, <3>1 DEF TxAt, IsPending, Extent, InWindow
      <3>2. ASSUME NEW q \in tx.rows
            PROVE  Extent(q.file)' = tx.files[q.file].size
        BY <2>1, <2>2, <2>3, <2>4, <3>1, <3>2 DEF Extent
      <3>3. ASSUME NEW q \in tx.rows
            PROVE  At(q, Extent(q.file))'
        BY <2>4, <3>1, <3>2, <3>3 DEF At
      <3>4. tx'.rows = tx.rows /\ Len(tx'.files) = id /\ pc' # "row"
        BY <2>1, <2>3
      <3> HIDE DEF id
      <3> QED  BY <3>1, <3>3, <3>4 DEF TxAt, IsPending
    <2>9. WindowOK' /\ WrittenOut'
      <3>1. pointer' \in Nat
        BY <1>t, StorageAssumption DEF StorageTypeOK
      <3> QED  BY <2>1, <2>3, <2>4, <3>1 DEF WindowOK, WrittenOut
    <2> QED  BY <2>5, <2>6, <2>7, <2>8, <2>9 DEF LossInv
  <1>3. CASE SaveMicroblock
    <2> DEFINE row == [hash |-> NextMicroblock, file |-> fileId, offset |-> pointer,
                       height |-> height]
    <2>1. /\ pc = "file" /\ pc' = "row"
          /\ tx' = [tx EXCEPT !.rows = {q \in @ : q.hash # NextMicroblock} \cup {row}]
          /\ UNCHANGED <<storageVars, db, height, written, chain>>
      BY <1>3 DEF SaveMicroblock
    <2>2. /\ tx'.files = tx.files
          /\ tx'.rows = {q \in tx.rows : q.hash # NextMicroblock} \cup {row}
      BY <1>t, <2>1 DEF TypeOK, Databases
    <2>3. NextMicroblock' = NextMicroblock /\ InWindow /\ InWindow'
      BY <2>1 DEF NextMicroblock, InWindow
    <2>4. row.hash = NextMicroblock /\ row.file = fileId /\ row.offset = pointer
      OBVIOUS
    <2> HIDE DEF row
    <2>5. ASSUME NEW q \in tx'.rows
          PROVE  /\ q.file \in 1 .. Len(tx'.files)
                 /\ IF IsPending(q)' THEN q.file = fileId' /\ q.offset = pointer'
                                     ELSE At(q, Extent(q.file))'
      <3>1. CASE q = row
        BY <1>v, <1>w, <2>1, <2>2, <2>3, <2>4, <3>1 DEF IsPending
      <3>2. CASE q # row
        <4>1. q \in tx.rows /\ q.hash # NextMicroblock
          BY <2>2, <2>5, <3>2
        <4>2. q.file \in 1 .. Len(tx.files) /\ At(q, Extent(q.file))
          BY <1>d, <2>1, <4>1 DEF TxAt, IsPending
        <4>3. ~IsPending(q)'
          BY <2>3, <4>1 DEF IsPending
        <4> QED  BY <1>v, <2>1, <2>2, <2>3, <4>2, <4>3 DEF At, Extent
      <3> QED  BY <3>1, <3>2
    <2>6. TxAt'
      BY <2>5 DEF TxAt
    <2> QED  BY <1>i, <2>1, <2>2, <2>3, <2>6 DEF WrittenOut
  <1>4. CASE StoreBytes
    <2> DEFINE m == NextMicroblock
               k == Size[m]
    <2>1. /\ pc = "row" /\ pc' = "file" /\ pointer + k <= FileCapacity
          /\ PutCells(m, k) /\ pointer' = pointer + k
          /\ UNCHANGED <<fileId, db, tx>>
      BY <1>4 DEF StoreBytes, WriteMicroblock
    <2>2. InWindow /\ InWindow' /\ fileId \in FileIds /\ pointer <= length[fileId]
      BY <1>w, <2>1 DEF InWindow
    <2>3. m \in Microblocks /\ k \in Nat \ {0}
      BY <1>t, <2>1, NextMicroblockType, StorageAssumption DEF TypeOK, PhaseOK, Points
    <2> HIDE DEF m, k
    <2>4. \A f \in FileIds, n \in 0 .. FileCapacity :
             EmptyOr(f, n) /\ (f = fileId => n <= pointer) => LosesOrKeeps(f, n)
      BY <1>t, <2>1, <2>2, <2>3, WritingKeeps
    <2>5. DbFiles' /\ DbAt'
      BY <1>b, <1>d, <1>n, <1>q, <2>1, <2>2, <2>4 DEF DbFiles
    <2>6. TxFiles'
      <3>1. ASSUME NEW f \in 1 .. Len(tx.files), NEW n \in 0 .. FileCapacity,
                   n = tx.files[f].size
            PROVE  EmptyOr(f, n)'
        <4>1. EmptyOr(f, n) /\ (f = fileId => n <= pointer) /\ f \in FileIds
          BY <1>d, <1>n, <1>w, <2>2, <3>1 DEF TxFiles
        <4> QED  BY <1>h, <2>4, <4>1
      <3> QED  BY <1>n, <2>1, <3>1 DEF TxFiles, EmptyOr, OnDisk
    <2>7. UNCHANGED <<disk, diskLength>>
      BY <2>1 DEF PutCells
    <2>8. length' = [length EXCEPT ![fileId] = LongestOf(length[fileId], pointer + k)]
      BY <2>1 DEF PutCells
    <2>9. /\ \A f \in FileIds : length[f] <= length'[f]
          /\ pointer' <= length'[fileId]
      BY <1>t, <1>p, <2>1, <2>2, <2>3, <2>8 DEF StorageTypeOK, LongestOf
    <2>10. LengthOK' /\ FilesGrow'
      BY <1>t, <1>d, <2>1, <2>7, <2>9, StorageAssumption DEF LengthOK, StorageTypeOK, FilesGrow
    <2>11. WindowOK' /\ WrittenOut'
      BY <1>n, <1>w, <1>p, <2>1, <2>2, <2>3, <2>9 DEF WindowOK, WrittenOut
    <2>12. \A i \in 1 .. k : content'[fileId][pointer + i - 1] = <<m, i>>
      <3>1. content' = [content EXCEPT ![fileId] =
                          [o \in Offsets |-> IF o \in pointer .. pointer + k - 1
                                             THEN <<m, o - pointer + 1>>
                                             ELSE content[fileId][o]]]
        BY <2>1 DEF PutCells
      <3> SUFFICES ASSUME NEW i \in 1 .. k
                   PROVE  content'[fileId][pointer + i - 1] = <<m, i>>
        OBVIOUS
      <3>2. /\ pointer + i - 1 \in Offsets
            /\ pointer + i - 1 \in pointer .. pointer + k - 1
            /\ pointer + i - 1 - pointer + 1 = i
        BY <1>p, <2>1, <2>3, StorageAssumption DEF Offsets
      <3> QED  BY <1>t, <2>2, <3>1, <3>2 DEF StorageTypeOK
    <2>13. ASSUME NEW q \in tx.rows
           PROVE  q.file \in 1 .. Len(tx.files) /\ At(q, Extent(q.file))'
      <3>1. q \in MicroblockRecords /\ q.file \in 1 .. Len(tx.files) /\ q.file \in FileIds
        BY <1>d, <1>n, <1>r, <2>13 DEF TxAt
      <3>2. CASE IsPending(q)
        <4>1. q.file = fileId /\ q.offset = pointer /\ q.hash = m
          BY <1>d, <2>13, <3>2 DEF TxAt, IsPending, m
        <4>2. Extent(q.file)' = pointer + k
          BY <2>1, <2>2, <4>1 DEF Extent
        <4> QED  BY <1>p, <2>3, <2>12, <3>1, <4>1, <4>2 DEF At, k
      <3>3. CASE ~IsPending(q)
        <4> DEFINE n == Extent(q.file)
        <4>1. At(q, n) /\ n \in 0 .. FileCapacity
          BY <1>d, <1>e, <2>13, <3>1, <3>3 DEF TxAt
        <4>2. q.file = fileId => n = pointer
          BY <2>2 DEF Extent
        <4>3. q.file # fileId => n = tx.files[q.file].size
          BY DEF Extent
        \* What the transaction has written in the open file lies below the pointer.
        <4>4. \/ length'[q.file] = 0
              \/ /\ length[q.file] # 0
                 /\ \A o \in Offsets : o < n => content'[q.file][o] = content[q.file][o]
          <5>1. CASE q.file = fileId
            <6>1. n # 0
              BY <3>1, <4>1, StorageAssumption DEF At, MicroblockRecords
            <6>2. length[q.file] # 0
              BY <1>t, <2>2, <3>1, <4>1, <4>2, <5>1, <6>1, StorageAssumption DEF StorageTypeOK
            <6>3. \A o \in Offsets : o < pointer => content'[fileId][o] = content[fileId][o]
              BY <1>t, <1>p, <2>1, <2>2 DEF PutCells, StorageTypeOK, Offsets
            <6> QED  BY <4>2, <5>1, <6>2, <6>3
          <5>2. CASE q.file # fileId
            BY <1>t, <2>1, <3>1, <5>2 DEF PutCells, StorageTypeOK
          <5> QED  BY <5>1, <5>2
        <4>5. n <= Extent(q.file)' /\ Extent(q.file)' \in Nat
          <5>1. CASE q.file = fileId
            BY <1>p, <2>1, <2>2, <2>3, <5>1 DEF Extent
          <5>2. CASE q.file # fileId
            BY <1>n, <2>1, <3>1, <5>2 DEF Extent
          <5> QED  BY <5>1, <5>2
        <4>6. q.offset \in Nat /\ Size[q.hash] \in Nat /\ n \in Nat
          BY <3>1, <4>1, StorageAssumption DEF MicroblockRecords
        <4> HIDE DEF n
        <4>7. q.offset + Size[q.hash] <= Extent(q.file)'
          BY <4>1, <4>5, <4>6 DEF At
        <4>8. \/ length'[q.file] = 0
              \/ \A i \in 1 .. Size[q.hash] :
                    content'[q.file][q.offset + i - 1] = <<q.hash, i>>
          <5> SUFFICES ASSUME length'[q.file] # 0, NEW i \in 1 .. Size[q.hash]
                       PROVE  content'[q.file][q.offset + i - 1] = <<q.hash, i>>
            OBVIOUS
          <5>1. q.offset + i - 1 \in Offsets /\ q.offset + i - 1 < n
            BY <4>1, <4>6, StorageAssumption DEF At, Offsets
          <5> QED  BY <4>1, <4>4, <5>1 DEF At
        <4> QED  BY <3>1, <4>7, <4>8 DEF At
      <3> QED  BY <3>1, <3>2, <3>3
    <2>14. TxAt'
      BY <2>1, <2>13 DEF TxAt, IsPending
    <2> QED  BY <2>5, <2>6, <2>10, <2>11, <2>14 DEF LossInv
  <1>5. CASE SyncUpdate
    <2>1. pc = "file" /\ pc' = "synced" /\ SyncFile /\ UNCHANGED <<db, tx>>
      BY <1>5 DEF SyncUpdate
    <2>2. InWindow /\ fileId \in FileIds /\ pointer <= length[fileId]
      BY <1>w, <2>1 DEF InWindow
    <2>3. \A f \in FileIds, n \in 0 .. FileCapacity : EmptyOr(f, n) => LosesOrKeeps(f, n)
      BY <1>t, <1>d, <2>1, <2>2, SyncingKeeps
    <2>4. DbFiles' /\ DbAt'
      BY <1>d, <1>n, <1>q, <2>1, <2>3 DEF DbFiles
    <2>5. TxFiles'
      <3>1. ASSUME NEW f \in 1 .. Len(tx.files), NEW n \in 0 .. FileCapacity,
                   n = tx.files[f].size
            PROVE  EmptyOr(f, n)'
        BY <1>d, <1>h, <1>n, <2>3, <3>1 DEF TxFiles
      <3> QED  BY <1>n, <2>1, <3>1 DEF TxFiles, EmptyOr, OnDisk
    <2>6. UNCHANGED <<fileId, pointer, content, length>>
      BY <2>1 DEF SyncFile, serviceVars
    <2>7. /\ diskLength' = [diskLength EXCEPT ![fileId] = length[fileId]]
          /\ disk' = [disk EXCEPT ![fileId] = content[fileId]]
      BY <2>1 DEF SyncFile
    <2>8. LengthOK'
      BY <1>d, <1>t, <2>2, <2>6, <2>7 DEF LengthOK, StorageTypeOK
    <2>9. TxAt' /\ FilesGrow'
      BY <1>d, <2>1, <2>6 DEF TxAt, IsPending, Extent, InWindow, At, FilesGrow
    <2>10. WindowOK'
      BY <1>w, <2>1, <2>2, <2>6 DEF WindowOK
    <2>11. WrittenOut'
      BY <1>t, <2>2, <2>6, <2>7 DEF WrittenOut, OnDisk, StorageTypeOK
    <2> QED  BY <2>4, <2>5, <2>8, <2>9, <2>10, <2>11 DEF LossInv
  <1>6. CASE CloseUpdate
    <2> DEFINE closed == [tx.files[fileId] EXCEPT !.maxHeight = height, !.size = pointer]
    <2>1. /\ pc = "synced" /\ ReleaseHandle /\ pc' = "closed"
          /\ tx' = [tx EXCEPT !.files = [@ EXCEPT ![fileId] = closed]]
          /\ UNCHANGED db
      BY <1>6 DEF CloseUpdate
    <2>2. InWindow /\ fileId \in FileIds /\ fileId \in 1 .. Len(tx.files)
      BY <1>w, <2>1 DEF InWindow
    <2>3. closed.size = pointer
      BY <1>n, <2>2 DEF FileRecords
    <2> HIDE DEF closed
    <2>4. /\ tx'.rows = tx.rows
          /\ tx'.files = [tx.files EXCEPT ![fileId] = closed]
      BY <1>t, <2>1 DEF TypeOK, Databases
    <2>5. /\ Len(tx'.files) = Len(tx.files)
          /\ tx'.files[fileId].size = pointer
          /\ \A f \in 1 .. Len(tx.files) : f # fileId => tx'.files[f] = tx.files[f]
      BY <1>f, <2>2, <2>3, <2>4
    <2>6. UNCHANGED <<content, length, disk, diskLength>>
      BY <2>1 DEF ReleaseHandle
    <2>7. LengthOK' /\ DbFiles' /\ DbAt'
      BY <1>a, <1>q, <2>1, <2>6
    <2>8. TxFiles'
      <3>1. ASSUME NEW f \in 1 .. Len(tx.files) PROVE EmptyOr(f, tx'.files[f].size)
        <4>1. CASE f = fileId
          BY <1>d, <2>1, <2>5, <4>1 DEF WrittenOut, EmptyOr
        <4>2. CASE f # fileId
          BY <1>d, <2>5, <4>2 DEF TxFiles
        <4> QED  BY <4>1, <4>2
      <3> QED  BY <2>5, <2>6, <3>1 DEF TxFiles, EmptyOr, OnDisk
    <2>9. FilesGrow'
      <3>1. \A f \in 1 .. Len(db.files) : f \in 1 .. Len(tx.files)
        BY <1>d, <1>f DEF FilesGrow
      <3> QED  BY <1>b, <1>d, <2>1, <2>2, <2>5, <3>1 DEF FilesGrow
    <2>10. TxAt'
      <3>1. ASSUME NEW q \in tx.rows
            PROVE  q.file \in 1 .. Len(tx.files) /\ At(q, Extent(q.file))'
        <4>1. q.file \in 1 .. Len(tx.files) /\ At(q, Extent(q.file))
          BY <1>d, <2>1, <3>1 DEF TxAt, IsPending
        <4>2. Extent(q.file)' = Extent(q.file)
          BY <2>1, <2>2, <2>5, <4>1 DEF Extent, InWindow
        <4> QED  BY <2>6, <4>1, <4>2 DEF At
      <3> QED  BY <2>1, <2>4, <2>5, <3>1 DEF TxAt, IsPending
    <2> QED  BY <2>1, <2>7, <2>8, <2>9, <2>10 DEF LossInv, WindowOK, WrittenOut, InWindow
  <1>7. CASE CommitBlockMicroblocks
    <2>1. /\ pc = "closed" /\ pc' = "counted"
          /\ tx'.files = tx.files /\ tx'.rows = tx.rows
          /\ UNCHANGED <<storageVars, db>>
      BY <1>7, <1>t DEF CommitBlockMicroblocks, TypeOK, Databases
    <2>2. TxAt'
      BY <2>1, <1>v, <1>d DEF TxAt, IsPending, Extent, InWindow, At
    <2> QED  BY <1>i, <2>1, <2>2 DEF InWindow, WrittenOut
  <1>8. CASE Commit
    <2>1. /\ pc = "counted" /\ pc' = "idle" /\ db' = tx /\ UNCHANGED <<storageVars, tx>>
      BY <1>8 DEF Commit, EndTransaction
    <2>2. LengthOK'
      BY <1>a, <1>v, <2>1
    <2>3. DbFiles' /\ TxFiles'
      BY <1>d, <1>v, <2>1 DEF DbFiles, TxFiles, EmptyOr, OnDisk
    <2>4. \A q \in tx.rows : q.file \in 1 .. Len(tx.files) /\ At(q, tx.files[q.file].size)
      BY <1>d, <2>1 DEF TxAt, IsPending, Extent, InWindow
    <2>5. DbAt' /\ TxAt'
      BY <1>v, <2>1, <2>4 DEF DbAt, TxAt, IsPending, Extent, InWindow, At
    <2>6. FilesGrow' /\ WindowOK' /\ WrittenOut'
      BY <1>f, <1>n, <2>1 DEF FilesGrow, WindowOK, WrittenOut, InWindow
    <2> QED  BY <2>2, <2>3, <2>5, <2>6 DEF LossInv
  <1>9. CASE BeginRefused \/ PreviousMissing \/ CallFails
    <2>1. Rollback /\ UNCHANGED storageVars
      BY <1>9 DEF BeginRefused, PreviousMissing, CallFails
    <2> QED  BY <1>rb, <1>rr, <1>v, <1>a, <2>1
  <1>10. CASE BeginPanics
    <2>1. Rollback /\ UNCHANGED <<content, length, disk, diskLength>>
      BY <1>10 DEF BeginPanics, BeginUpdatePanics, OpenFile
    <2> QED  BY <1>rb, <1>rr, <1>a, <2>1
  <1>13. CASE WriteFallsShort
    <2>1. PICK k \in 1 .. FileCapacity : ShortWrite(NextMicroblock, k)
      BY <1>13 DEF WriteFallsShort
    <2>2. pc = "row" /\ Rollback
      BY <1>13 DEF WriteFallsShort
    <2>3. /\ InWindow /\ fileId \in FileIds /\ pointer <= length[fileId]
          /\ NextMicroblock \in Microblocks /\ k \in Nat
      BY <1>t, <1>w, <2>2, NextMicroblockType, StorageAssumption
      DEF TypeOK, PhaseOK, Points, InWindow
    <2>4. PutCells(NextMicroblock, k)
      BY <2>1 DEF ShortWrite
    <2>5. \A f \in FileIds, n \in 0 .. FileCapacity :
             EmptyOr(f, n) /\ (f = fileId => n <= pointer) => LosesOrKeeps(f, n)
      BY <1>t, <2>3, <2>4, WritingKeeps
    <2>6. /\ UNCHANGED diskLength
          /\ length' = [length EXCEPT ![fileId] = LongestOf(length[fileId], pointer + k)]
      BY <2>4 DEF PutCells
    <2>7. \A f \in FileIds : length[f] <= length'[f]
      BY <1>t, <1>p, <2>3, <2>6 DEF StorageTypeOK, LongestOf
    <2>8. LengthOK'
      BY <1>t, <1>d, <2>6, <2>7, StorageAssumption DEF LengthOK, StorageTypeOK
    <2>9. \A f \in 1 .. Len(db.files) : LosesOrKeeps(f, db.files[f].size)
      BY <1>b, <1>d, <1>n, <2>3, <2>5 DEF DbFiles
    <2> QED  BY <1>rb, <1>rr, <2>2, <2>8, <2>9
  <1>15. CASE ProcessDies
    <2>1. Down /\ UNCHANGED <<content, length, disk, diskLength>>
      BY <1>15 DEF ProcessDies, ServiceExits, fileVars
    <2> QED  BY <1>rb, <1>rr, <1>a, <2>1
  <1>16. CASE PowerFails
    <2>1. Down /\ LosePower
      BY <1>16 DEF PowerFails
    <2>2. LengthOK'
      BY <1>t, <1>d, <2>1, LosePowerKeeps
    <2>3. \A f \in 1 .. Len(db.files) : LosesOrKeeps(f, db.files[f].size)
      BY <1>t, <1>d, <1>n, <2>1, PowerLossKeeps DEF DbFiles
    <2> QED  BY <1>rb, <1>rr, <2>1, <2>2, <2>3
  <1>17. CASE DeleteDatabase
    <2>1. /\ pc' = "down" /\ db' = EmptyDb /\ tx' = EmptyDb /\ UNCHANGED storageVars
      BY <1>17 DEF DeleteDatabase
    <2>2. LengthOK'
      BY <1>a, <1>v, <2>1
    <2>3. db'.files = <<>> /\ tx'.files = <<>> /\ db'.rows = {} /\ tx'.rows = {}
      BY <2>1 DEF EmptyDb
    <2> QED
      BY <2>1, <2>2, <2>3
      DEF LossInv, DbFiles, TxFiles, DbAt, TxAt, FilesGrow, WindowOK, WrittenOut, InWindow
  <1>18. CASE StartProcess
    <2>1. pc = "down" /\ pc' = "idle" /\ UNCHANGED <<storageVars, db, tx>>
      BY <1>18 DEF StartProcess
    <2>2. TxAt'
      BY <2>1, <1>v, <1>d DEF TxAt, IsPending, Extent, InWindow, At
    <2> QED  BY <1>i, <2>1, <2>2 DEF InWindow, WrittenOut
  <1>19. CASE UNCHANGED vars
    <2>1. UNCHANGED <<storageVars, db, tx, pc, height, written, chain>>
      BY <1>19 DEF vars, txVars
    <2>2. TxAt' /\ WrittenOut'
      BY <2>1, <1>v, <1>d
      DEF TxAt, WrittenOut, OnDisk, IsPending, Extent, InWindow, At, NextMicroblock
    <2> QED  BY <1>i, <2>1, <2>2 DEF InWindow
  <1> QED
    BY <1>1, <1>2, <1>3, <1>4, <1>5, <1>6, <1>7, <1>8, <1>9, <1>10, <1>13, <1>15, <1>16,
       <1>17, <1>18, <1>19
    DEF Next, SyncStep, Fault, NothingToSync

\* Whatever a power loss takes, reading a committed microblock gives its bytes or an
\* error: nothing is ever written over a file shorter than its record.
THEOREM BytesOrError == Spec => []NeverWrongBytes
  <1>1. Init => TypeInv /\ LossInv
    BY TypeInvInit, LossInit
  <1>2. TypeInv /\ LossInv /\ [Next]_vars => TypeInv' /\ LossInv'
    BY TypeInvStep, LossStep
  <1>3. TypeInv /\ LossInv => NeverWrongBytes
    <2> SUFFICES ASSUME TypeInv, LossInv, NEW r \in db.rows
                 PROVE  ReadMicroblock(r.file, r.offset, Size[r.hash]) \in {Bytes(r.hash), ReadError}
      BY DEF NeverWrongBytes
    <2>1. r.file \in 1 .. Len(db.files) /\ At(r, db.files[r.file].size)
      BY DEF LossInv, DbAt
    <2>2. r.offset \in Nat /\ Size[r.hash] \in Nat \ {0}
      BY StorageAssumption DEF TypeInv, TypeOK, Databases, MicroblockRecords
    <2>3. CASE length[r.file] = 0
      BY <2>2, <2>3 DEF ReadMicroblock
    <2>4. CASE length[r.file] # 0
      <3>1. \A i \in 1 .. Size[r.hash] : content[r.file][r.offset + i - 1] = <<r.hash, i>>
        BY <2>1, <2>4 DEF At
      <3> QED  BY <3>1 DEF ReadMicroblock, Bytes
    <2> QED  BY <2>3, <2>4
  <1> QED  BY <1>1, <1>2, <1>3, PTL DEF Spec

-----------------------------------------------------------------------------
(***************************************************************************)
(* BlockStore implements BlockArchive: what clients can obtain grows by    *)
(* one whole block at a time, whatever fails between two commits.          *)
(***************************************************************************)

\* A microblock belongs to one block: its hash is the key of its row.
NoMicroblockTwice ==
    \A c \in Chains : \A h, k \in Heights :
        h # k => \A i \in 1 .. Len(c[h]), j \in 1 .. Len(c[k]) : c[h][i] # c[k][j]

\* The microblocks of a block the transaction has a row of.
Begun == IF pc = "row" THEN written + 1 ELSE written
BegunHashes == {chain[height][i] : i \in 1 .. Begun}

RowsOf(d, h) == {r \in d.rows : r.height = h}

\* Each committed row is one of a stored block and a microblock of it.
RowsInBlocks == \A r \in db.rows : /\ r.height \in KnownHeights(db)
                                  /\ \E i \in 1 .. Len(chain[r.height]) : r.hash = chain[r.height][i]

\* The transaction adds a block above the stored ones and touches no other.
BlocksAbove ==
    /\ \A k \in KnownHeights(db) : k < height
    /\ MaySkip \/ height = 1 \/ height - 1 \in KnownHeights(db)
    /\ {b \in tx.blocks : b.height # height} = db.blocks
    /\ pc = "counted" => {b \in tx.blocks : b.height = height}
                           = {[height |-> height, count |-> written]}

\* Its rows are those of the stored blocks and of what it has done of the new one.
RowsAbove ==
    /\ {r \in tx.rows : r.height # height} = db.rows
    /\ {r.hash : r \in RowsOf(tx, height)} = BegunHashes

ArchiveInv == RowsInBlocks /\ (pc \in Points => BlocksAbove /\ RowsAbove)

\* Outside of a transaction only the committed rows matter.
LEMMA ArchiveRestored ==
    ASSUME ArchiveInv, UNCHANGED <<db, chain>>, pc' \in {"idle", "down"}
    PROVE  ArchiveInv'
  BY DEF ArchiveInv, RowsInBlocks, KnownHeights, Points

\* Initially nothing is stored.
LEMMA ArchiveInit == Init => ArchiveInv
  BY DEF Init, EmptyDb, ArchiveInv, RowsInBlocks, Points

\* A step inside the transaction that leaves the rows and how many are begun.
LEMMA SameRows ==
    ASSUME ArchiveInv, UNCHANGED <<db, chain, height>>, tx'.rows = tx.rows,
           Begun' = Begun, pc \in Points
    PROVE  RowsInBlocks' /\ RowsAbove'
  <1>1. RowsInBlocks'
    BY DEF ArchiveInv, RowsInBlocks, KnownHeights
  <1>2. BegunHashes' = BegunHashes /\ RowsOf(tx, height)' = RowsOf(tx, height)
    BY DEF BegunHashes, RowsOf
  <1> QED  BY <1>1, <1>2 DEF ArchiveInv, RowsAbove

\* A step inside the transaction that leaves the blocks.
LEMMA SameBlocks ==
    ASSUME ArchiveInv, UNCHANGED <<db, height>>, tx'.blocks = tx.blocks,
           pc \in Points, pc' # "counted"
    PROVE  BlocksAbove'
  BY DEF ArchiveInv, BlocksAbove, KnownHeights

\* Every step keeps the tables of the transaction above those committed.
LEMMA ArchiveInvStep ==
    ASSUME NoMicroblockTwice
    PROVE  TypeInv /\ TypeInv' /\ ArchiveInv /\ [Next]_vars => ArchiveInv'
  <1> SUFFICES ASSUME TypeInv, TypeInv', ArchiveInv, [Next]_vars PROVE ArchiveInv'
    OBVIOUS
  <1>t. TypeOK /\ PhaseOK /\ TypeOK' /\ PhaseOK'
    BY DEF TypeInv
  <1>m. MaxHeight \in Nat
    BY BlockStoreAssumption
  <1>d. /\ db \in Databases /\ tx \in Databases /\ written \in Nat
        /\ chain \in Chains /\ height \in 0 .. MaxHeight
        /\ db.rows \subseteq MicroblockRecords /\ db.blocks \subseteq BlockRecords
    BY <1>t DEF TypeOK, Databases
  <1>k. KnownHeights(db) \subseteq Heights
    BY <1>d DEF KnownHeights, BlockRecords
  <1>1. CASE StartBlock
    <2>1. PICK known \in 0 .. MaxHeight, h \in Heights :
             /\ IsKnownHeight(db, known)
             /\ IF MaySkip THEN h > known ELSE h = known + 1
             /\ height' = h
             /\ tx' = [tx EXCEPT !.blocks = @ \cup {[height |-> h, count |-> 0]}]
      BY <1>1 DEF StartBlock
    <2>2. /\ pc' = "block" /\ written' = 0 /\ UNCHANGED <<db, chain>> /\ tx = db
      BY <1>1, <1>t DEF StartBlock, PhaseOK
    <2>3. /\ tx'.rows = db.rows
          /\ \A b : b \in tx'.blocks <=> b \in db.blocks \/ b = [height |-> h, count |-> 0]
      BY <1>d, <2>1, <2>2 DEF Databases
    <2>4. \A k \in KnownHeights(db) : k < h
      BY <1>k, <1>m, <2>1 DEF IsKnownHeight, Heights
    <2>5. MaySkip \/ h = 1 \/ h - 1 \in KnownHeights(db)
      BY <1>m, <2>1 DEF IsKnownHeight, Heights
    <2>6. h \notin KnownHeights(db)
      BY <1>m, <2>4 DEF Heights
    <2>7. BlocksAbove'
      <3>1. [height |-> h, count |-> 0].height = h
        OBVIOUS
      <3>2. \A b \in db.blocks : b.height # h
        BY <2>6 DEF KnownHeights
      <3>3. {b \in tx'.blocks : b.height # h} = db.blocks
        BY <2>3, <3>1, <3>2
      <3> QED  BY <2>1, <2>2, <2>4, <2>5, <3>3 DEF BlocksAbove, KnownHeights
    <2>8. RowsInBlocks'
      BY <2>2 DEF ArchiveInv, RowsInBlocks, KnownHeights
    <2>9. \A r \in db.rows : r.height # h
      BY <2>6 DEF ArchiveInv, RowsInBlocks
    <2>10. RowsAbove'
      <3>1. BegunHashes' = {}
        BY <2>2 DEF BegunHashes, Begun
      <3>2. RowsOf(tx, height)' = {}
        BY <2>1, <2>3, <2>9 DEF RowsOf
      <3>3. {r \in tx'.rows : r.height # h} = db.rows
        BY <2>3, <2>9
      <3> QED  BY <2>1, <2>2, <3>1, <3>2, <3>3 DEF RowsAbove
    <2> QED  BY <2>7, <2>8, <2>10 DEF ArchiveInv
  <1>2. CASE BeginMicroblockUpdate
    <2>1. /\ pc = "block" /\ pc' = "file" /\ UNCHANGED <<db, chain, height, written>>
          /\ tx'.rows = tx.rows /\ tx'.blocks = tx.blocks
      BY <1>2, <1>d DEF BeginMicroblockUpdate, Databases
    <2> QED  BY <2>1, SameRows, SameBlocks DEF ArchiveInv, Begun, Points
  <1>3. CASE SaveMicroblock
    <2> DEFINE m   == NextMicroblock
               row == [hash |-> m, file |-> fileId, offset |-> pointer, height |-> height]
    <2>1. /\ pc = "file" /\ pc' = "row" /\ HasMore /\ UNCHANGED <<db, chain, height, written>>
          /\ tx' = [tx EXCEPT !.rows = {r \in @ : r.hash # m} \cup {row}]
      BY <1>3 DEF SaveMicroblock
    <2>2. /\ tx'.blocks = tx.blocks
          /\ tx'.rows = {r \in tx.rows : r.hash # m} \cup {row}
      BY <1>d, <2>1 DEF Databases
    <2>3. row.hash = m /\ row.height = height
      OBVIOUS
    <2>4. m = chain[height][written + 1]
      BY DEF NextMicroblock
    <2>5. height \in Heights /\ written + 1 \in 1 .. Len(chain[height])
      <3>1. height \in Heights
        BY <1>t, <2>1 DEF PhaseOK, Points
      <3>2. chain[height] \in Seq(Microblocks)
        BY <1>d, <3>1, BlockStoreAssumption
      <3> QED  BY <1>d, <2>1, <3>1, <3>2 DEF HasMore
    <2> HIDE DEF m, row
    <2>6. BlocksAbove'
      BY <2>1, <2>2, SameBlocks DEF Points
    <2>7. RowsInBlocks' /\ RowsAbove
      BY <2>1 DEF ArchiveInv, RowsInBlocks, KnownHeights, Points
    \* No other block has this microblock, so no committed row is replaced.
    <2>8. \A r \in db.rows : r.hash # m
      <3>1. ASSUME NEW r \in db.rows PROVE r.hash # m
        <4>1. PICK i \in 1 .. Len(chain[r.height]) : r.hash = chain[r.height][i]
          BY <3>1 DEF ArchiveInv, RowsInBlocks
        <4>2. r.height \in Heights /\ r.height # height
          BY <1>d, <2>7, <3>1 DEF RowsAbove, MicroblockRecords
        <4> QED  BY <1>d, <2>4, <2>5, <4>1, <4>2 DEF NoMicroblockTwice
      <3> QED  BY <3>1
    <2>9. {r \in tx'.rows : r.height # height} = db.rows
      BY <2>2, <2>3, <2>7, <2>8 DEF RowsAbove
    <2>10. BegunHashes' = BegunHashes \cup {m}
      <3>1. Begun = written /\ Begun' = written + 1
        BY <2>1 DEF Begun
      <3>2. 1 .. written + 1 = 1 .. written \cup {written + 1}
        BY <1>d
      <3> QED  BY <2>1, <2>4, <3>1, <3>2 DEF BegunHashes
    <2>11. {r.hash : r \in RowsOf(tx, height)'} = {r.hash : r \in RowsOf(tx, height)} \cup {m}
      <3>1. \A r : r \in RowsOf(tx, height)'
                     <=> (r \in RowsOf(tx, height) /\ r.hash # m) \/ r = row
        BY <2>1, <2>2, <2>3 DEF RowsOf
      <3> QED  BY <2>3, <3>1
    <2>12. RowsAbove'
      BY <2>1, <2>7, <2>9, <2>10, <2>11 DEF RowsAbove
    <2> QED  BY <2>6, <2>7, <2>12 DEF ArchiveInv
  <1>4. CASE StoreBytes
    <2>1. /\ pc = "row" /\ pc' = "file" /\ UNCHANGED <<db, tx, chain, height>>
          /\ written' = written + 1
      BY <1>4 DEF StoreBytes
    <2> QED  BY <2>1, SameRows, SameBlocks DEF ArchiveInv, Begun, Points
  <1>5. CASE SyncUpdate
    <2>1. /\ pc = "file" /\ pc' = "synced" /\ UNCHANGED <<db, tx, chain, height, written>>
      BY <1>5 DEF SyncUpdate
    <2> QED  BY <2>1, SameRows, SameBlocks DEF ArchiveInv, Begun, Points
  <1>6. CASE CloseUpdate
    <2>1. /\ pc = "synced" /\ pc' = "closed" /\ UNCHANGED <<db, chain, height, written>>
          /\ tx'.rows = tx.rows /\ tx'.blocks = tx.blocks
      BY <1>6, <1>d DEF CloseUpdate, Databases
    <2> QED  BY <2>1, SameRows, SameBlocks DEF ArchiveInv, Begun, Points
  <1>7. CASE CommitBlockMicroblocks
    <2> DEFINE b == [height |-> height, count |-> written]
    <2>1. /\ pc = "closed" /\ pc' = "counted" /\ UNCHANGED <<db, chain, height, written>>
          /\ tx' = [tx EXCEPT !.blocks = {q \in @ : q.height # height} \cup {b}]
      BY <1>7 DEF CommitBlockMicroblocks
    <2>2. /\ tx'.rows = tx.rows
          /\ tx'.blocks = {q \in tx.blocks : q.height # height} \cup {b}
      BY <1>d, <2>1 DEF Databases
    <2>3. RowsInBlocks' /\ RowsAbove'
      BY <2>1, <2>2, SameRows DEF Begun, Points
    <2>4. b.height = height
      OBVIOUS
    <2>5. /\ {q \in tx'.blocks : q.height # height} = {q \in tx.blocks : q.height # height}
          /\ {q \in tx'.blocks : q.height = height} = {b}
      <3> HIDE DEF b
      <3> QED  BY <2>2, <2>4
    <2>6. BlocksAbove'
      BY <2>1, <2>5 DEF ArchiveInv, BlocksAbove, Points, KnownHeights
    <2> QED  BY <2>3, <2>6 DEF ArchiveInv
  <1>8. CASE Commit
    <2>1. /\ pc = "counted" /\ pc' = "idle" /\ db' = tx /\ UNCHANGED chain
      BY <1>8 DEF Commit, EndTransaction
    <2>2. /\ BlocksAbove /\ RowsAbove /\ RowsInBlocks /\ height \in Heights
          /\ written <= Len(chain[height]) /\ ~HasMore
      BY <1>t, <2>1 DEF ArchiveInv, Points, PhaseOK
    <2>3. KnownHeights(tx) = KnownHeights(db) \cup {height}
      BY <2>1, <2>2 DEF BlocksAbove, KnownHeights
    <2>4. ASSUME NEW r \in tx.rows
          PROVE  /\ r.height \in KnownHeights(tx)
                 /\ \E i \in 1 .. Len(chain[r.height]) : r.hash = chain[r.height][i]
      <3>1. CASE r.height # height
        BY <2>2, <2>3, <2>4, <3>1 DEF RowsAbove, RowsInBlocks
      <3>2. CASE r.height = height
        <4>1. r.hash \in BegunHashes /\ Begun = written
          BY <2>1, <2>2, <2>4, <3>2 DEF RowsAbove, RowsOf, Begun
        <4>2. PICK i \in 1 .. written : r.hash = chain[height][i]
          BY <4>1 DEF BegunHashes
        <4>3. Len(chain[height]) \in Nat
          BY <1>d, <2>2, BlockStoreAssumption
        <4>4. i \in 1 .. Len(chain[height])
          BY <1>d, <2>2, <4>3
        <4> QED  BY <2>3, <3>2, <4>2, <4>4
      <3> QED  BY <3>1, <3>2
    <2> QED  BY <2>1, <2>4 DEF ArchiveInv, RowsInBlocks, Points, KnownHeights
  <1>9. CASE BeginRefused \/ BeginPanics \/ PreviousMissing \/ CallFails \/ WriteFallsShort
    <2>1. UNCHANGED <<db, chain>> /\ pc' = "idle"
      BY <1>9 DEF BeginRefused, BeginPanics, PreviousMissing, CallFails, WriteFallsShort,
                  Rollback, EndTransaction
    <2> QED  BY <2>1, ArchiveRestored
  <1>10. CASE ProcessDies \/ PowerFails
    <2>1. UNCHANGED <<db, chain>> /\ pc' = "down"
      BY <1>10 DEF ProcessDies, PowerFails, Down
    <2> QED  BY <2>1, ArchiveRestored
  <1>11. CASE DeleteDatabase
    <2>1. db' = EmptyDb /\ pc' = "down"
      BY <1>11 DEF DeleteDatabase
    <2> QED  BY <2>1 DEF EmptyDb, ArchiveInv, RowsInBlocks, Points
  <1>12. CASE StartProcess
    <2>1. UNCHANGED <<db, chain>> /\ pc' = "idle"
      BY <1>12 DEF StartProcess
    <2> QED  BY <2>1, ArchiveRestored
  <1>13. CASE UNCHANGED vars
    <2>1. UNCHANGED <<db, tx, pc, height, written, chain>>
      BY <1>13 DEF vars, txVars
    <2>2. RowsInBlocks'
      BY <2>1 DEF ArchiveInv, RowsInBlocks, KnownHeights
    <2>3. pc \in Points => RowsAbove'
      BY <2>1, SameRows DEF Begun
    <2>4. pc \in Points => BlocksAbove'
      BY <2>1 DEF ArchiveInv, BlocksAbove, KnownHeights
    <2> QED  BY <2>1, <2>2, <2>3, <2>4 DEF ArchiveInv
  <1> QED
    BY <1>1, <1>2, <1>3, <1>4, <1>5, <1>6, <1>7, <1>8, <1>9, <1>10, <1>11, <1>12, <1>13
    DEF Next, SyncStep, Fault, NothingToSync

-----------------------------------------------------------------------------
(* The refinement *)

\* What is served of one block when all its microblocks can be read.
EntryOf(d, b) == [height |-> b.height, count |-> b.count,
                  microblocks |-> {r.hash : r \in RowsOf(d, b.height)}]

\* Nothing committed is unreadable, so clients obtain what the tables list.
LEMMA ServedAll ==
    ASSUME CommittedReadable
    PROVE  Served = {EntryOf(db, b) : b \in db.blocks}
  <1>1. \A b \in db.blocks : {q \in db.rows : q.height = b.height /\ IsReadable(q)}
                               = RowsOf(db, b.height)
    BY DEF CommittedReadable, RowsOf
  <1> QED  BY <1>1 DEF Served, EntryOf

\* A commit adds the whole block in process to what is served.
LEMMA CommitAppends ==
    ASSUME TypeInv, ArchiveInv, CommittedReadable, CommittedReadable', Commit
    PROVE  Archive!AppendBlock
  <1>1. /\ pc = "counted" /\ db' = tx /\ UNCHANGED chain
    BY DEF Commit
  <1>2. /\ BlocksAbove /\ RowsAbove /\ RowsInBlocks /\ height \in Heights
        /\ written <= Len(chain[height]) /\ ~HasMore /\ chain \in Chains /\ written \in Nat
    BY <1>1 DEF TypeInv, TypeOK, ArchiveInv, Points, PhaseOK
  <1>3. chain[height] \in Seq(Microblocks)
    BY <1>2, BlockStoreAssumption
  <1>4. Served = {EntryOf(db, b) : b \in db.blocks}
    BY ServedAll
  <1>5. Served' = {EntryOf(tx, b) : b \in tx.blocks}
    <2>1. \A b \in db'.blocks : {q \in db'.rows : q.height = b.height /\ IsReadable(q)'}
                                  = RowsOf(tx, b.height)
      BY <1>1 DEF CommittedReadable, RowsOf
    <2> QED  BY <1>1, <2>1 DEF Served, EntryOf
  <1> DEFINE new == [height |-> height, count |-> written]
  <1>6. \A b : b \in tx.blocks <=> b \in db.blocks \/ b = new
    BY <1>1, <1>2 DEF BlocksAbove
  <1>7. \A b \in db.blocks : b.height # height
    BY <1>2 DEF BlocksAbove
  <1>8. \A b \in db.blocks : EntryOf(tx, b) = EntryOf(db, b)
    <2>1. ASSUME NEW b \in db.blocks PROVE RowsOf(tx, b.height) = RowsOf(db, b.height)
      BY <1>2, <1>7, <2>1 DEF RowsAbove, RowsOf
    <2> QED  BY <2>1 DEF EntryOf
  <1>9. EntryOf(tx, new) = Archive!WholeBlock(height)
    <2>1. written = Len(chain[height])
      BY <1>2, <1>3 DEF HasMore
    <2>2. new.height = height /\ new.count = written
      OBVIOUS
    <2>3. {r.hash : r \in RowsOf(tx, height)} = {chain[height][i] : i \in 1 .. Len(chain[height])}
      BY <1>1, <1>2, <2>1 DEF RowsAbove, BegunHashes, Begun
    <2>4. DOMAIN chain[height] = 1 .. Len(chain[height])
      BY <1>3
    <2>5. Archive!Range(chain[height]) = {chain[height][i] : i \in 1 .. Len(chain[height])}
      BY <2>4 DEF Archive!Range
    <2> HIDE DEF new
    <2> QED  BY <2>1, <2>2, <2>3, <2>5 DEF EntryOf, Archive!WholeBlock
  <1>10. Served' = Served \cup {Archive!WholeBlock(height)}
    <2> HIDE DEF new
    <2> QED  BY <1>4, <1>5, <1>6, <1>8, <1>9
  <1>11. Archive!Extends(height)
    <2>1. \A b \in db.blocks : EntryOf(db, b).height = b.height
      BY DEF EntryOf
    <2>2. \A e \in Served : e.height \in KnownHeights(db)
      BY <1>4, <2>1 DEF KnownHeights
    <2>3. \A k \in KnownHeights(db) : \E e \in Served : e.height = k
      BY <1>4, <2>1 DEF KnownHeights
    <2> QED  BY <1>2, <2>2, <2>3 DEF BlocksAbove, Archive!Extends
  <1> QED  BY <1>1, <1>2, <1>10, <1>11 DEF Archive!AppendBlock, Heights

\* Every other step leaves what is served, or deletes it.
LEMMA ArchiveStep ==
    ASSUME TypeInv, ArchiveInv, CommittedReadable, CommittedReadable', [Next]_vars
    PROVE  [Archive!Next]_<<Served, chain>>
  <1>s. ASSUME UNCHANGED <<db, chain>>
        PROVE  UNCHANGED <<Served, chain>>
    <2>1. Served = {EntryOf(db, b) : b \in db.blocks}
      BY ServedAll
    <2>2. \A b \in db'.blocks : {q \in db'.rows : q.height = b.height /\ IsReadable(q)'}
                                  = RowsOf(db, b.height)
      BY <1>s DEF CommittedReadable, RowsOf
    <2>3. Served' = {EntryOf(db, b) : b \in db.blocks}
      BY <1>s, <2>2 DEF Served, EntryOf
    <2> QED  BY <1>s, <2>1, <2>3
  <1>1. CASE Commit
    BY <1>1, CommitAppends DEF Archive!Next
  <1>2. CASE DeleteDatabase
    <2>1. MayReset /\ db' = EmptyDb /\ chain' \in Chains
      BY <1>2 DEF DeleteDatabase
    <2>2. Served' = {}
      BY <2>1 DEF Served, EmptyDb
    <2> QED  BY <2>1, <2>2 DEF Archive!Next, Archive!Wipe
  <1>3. CASE ~Commit /\ ~DeleteDatabase
    <2>1. UNCHANGED <<db, chain>>
      BY <1>3
      DEF Next, SyncStep, Fault, StartBlock, BeginMicroblockUpdate, SaveMicroblock, StoreBytes,
          SyncUpdate, CloseUpdate, CommitBlockMicroblocks, NothingToSync, BeginRefused,
          BeginPanics, PreviousMissing, CallFails, WriteFallsShort, ProcessDies, PowerFails,
          StartProcess, Rollback, Down, vars, txVars
    <2> QED  BY <1>s, <2>1
  <1> QED  BY <1>1, <1>2, <1>3

\* BlockStore implements BlockArchive, provided a synced file keeps its directory entry
\* and no two blocks have a microblock in common: clients see the archive grow by whole
\* blocks, in order, and lose nothing.
THEOREM Refinement ==
    ASSUME EntriesSurvive, NoMicroblockTwice
    PROVE  Spec => ImplementsArchive
  <1>1. Init => TypeInv /\ DurabilityInv /\ ArchiveInv
    BY TypeInvInit, DurabilityInit, ArchiveInit
  <1>2. TypeInv /\ DurabilityInv /\ ArchiveInv /\ [Next]_vars
          => TypeInv' /\ DurabilityInv' /\ ArchiveInv'
    BY TypeInvStep, DurabilityStep, ArchiveInvStep
  <1>3. TypeInv /\ DurabilityInv => CommittedReadable
    BY DurabilityImplies
  <1>4. Init => Archive!Init
    BY DEF Init, EmptyDb, Served, Archive!Init
  <1>5. TypeInv /\ ArchiveInv /\ CommittedReadable /\ CommittedReadable' /\ [Next]_vars
          => [Archive!Next]_<<Served, chain>>
    BY ArchiveStep
  <1> QED
    BY <1>1, <1>2, <1>3, <1>4, <1>5, PTL DEF Spec, ImplementsArchive, Archive!Spec

=============================================================================
