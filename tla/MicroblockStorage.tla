------------------------- MODULE MicroblockStorage -------------------------
(***************************************************************************)
(* MicroblockStorageService: the append-only binary files that hold the    *)
(* serialized microblocks, next to the SQLite database.                    *)
(*                                                                         *)
(* The service is a single object with four fields.  The files themselves  *)
(* are external: each has a directory entry, the bytes a read returns (the *)
(* page cache) and the bytes that survive a power loss (the disk).  A file *)
(* is a row of cells, each either Blank or one unit of one microblock.     *)
(*                                                                         *)
(* This module has the operations; BlockStore composes them with the       *)
(* database transaction that drives them.                                  *)
(***************************************************************************)
EXTENDS Naturals

CONSTANTS
    Microblocks,         \* identities (hashes) of the serialized microblocks
    Size,                \* Size[m]: number of cells microblock m occupies
    MaxFileId,           \* bound: files are numbered 1..MaxFileId
    FileCapacity,        \* bound: cells modelled per file
    FsyncPersistsEntry,  \* fsync of a new file also persists its directory entry
    DirSyncMayFail       \* the fsync of the directory may fail (it is only logged)

ASSUME StorageAssumption ==
    /\ Size \in [Microblocks -> Nat \ {0}]
    /\ MaxFileId \in Nat
    /\ FileCapacity \in Nat
    /\ FsyncPersistsEntry \in BOOLEAN
    /\ DirSyncMayFail \in BOOLEAN

VARIABLES
    handle,      \* TRUE iff this.handle is not null
    fileId,      \* this.fileId
    isNewFile,   \* this.isNewFile
    pointer,     \* this.pointer
    entry,       \* entry[f]: directory entry of file f
    content,     \* content[f]: the cells a read of file f sees
    length,      \* length[f]: the file size a stat sees
    disk,        \* disk[f]: the cells of file f known to be on disk
    diskLength   \* diskLength[f]: the file size known to be on disk

serviceVars == <<handle, fileId, isNewFile, pointer>>
fileVars    == <<entry, content, length, disk, diskLength>>
storageVars == <<serviceVars, fileVars>>

FileIds == 1 .. MaxFileId
Offsets == 0 .. FileCapacity - 1
Blank   == <<>>
Units   == Microblocks \X (Nat \ {0})
Cells   == Units \cup {Blank}

StorageTypeOK ==
    /\ handle \in BOOLEAN
    /\ fileId \in 0 .. MaxFileId
    /\ isNewFile \in BOOLEAN
    /\ pointer \in 0 .. FileCapacity
    /\ entry \in [FileIds -> {"absent", "cached", "durable"}]
    /\ content \in [FileIds -> [Offsets -> Cells]]
    /\ length \in [FileIds -> 0 .. FileCapacity]
    /\ disk \in [FileIds -> [Offsets -> Cells]]
    /\ diskLength \in [FileIds -> 0 .. FileCapacity]

StorageInit ==
    /\ handle = FALSE /\ fileId = 0 /\ isNewFile = FALSE /\ pointer = 0
    /\ entry = [f \in FileIds |-> "absent"]
    /\ content = [f \in FileIds |-> [o \in Offsets |-> Blank]]
    /\ length = [f \in FileIds |-> 0]
    /\ disk = content
    /\ diskLength = length

-----------------------------------------------------------------------------
(* beginUpdate() *)

\* open(filePath, 'r+'), or open(filePath, 'w+') when the file does not exist.
OpenFile(f) ==
    /\ handle' = TRUE
    /\ fileId' = f
    /\ isNewFile' = (entry[f] = "absent")
    /\ entry' = [entry EXCEPT ![f] = IF @ = "absent" THEN "cached" ELSE @]
    /\ UNCHANGED <<content, length, disk, diskLength>>

\* Mutant of BeginUpdate: the size of the file is not compared with the offset.
BeginUpdateUnchecked(f, offset) ==
    /\ ~handle
    /\ OpenFile(f)
    /\ pointer' = offset

\* The offset recorded in the database lies within the file: bytes beyond it
\* are leftovers of an update that was never committed and are overwritten.
BeginUpdate(f, offset) ==
    /\ ~handle
    /\ offset <= length[f]
    /\ OpenFile(f)
    /\ pointer' = offset

\* "PANIC - file is shorter than expected": thrown with the handle left open.
BeginUpdatePanics(f, offset) ==
    /\ ~handle
    /\ offset > length[f]
    /\ OpenFile(f)
    /\ UNCHANGED pointer

-----------------------------------------------------------------------------
(* writeMicroblock() *)

LongestOf(a, b) == IF a >= b THEN a ELSE b

\* Mutant of PutCells: the file is open in append mode.
PutCellsAppended(m, n) ==
    LET end == length[fileId]
    IN  /\ content' = [content EXCEPT ![fileId] =
                         [o \in Offsets |-> IF o \in end .. end + n - 1
                                            THEN <<m, o - end + 1>>
                                            ELSE content[fileId][o]]]
        /\ length' = [length EXCEPT ![fileId] = LongestOf(@, end + n)]
        /\ UNCHANGED <<entry, disk, diskLength>>

\* The first n cells of m are stored at the pointer of the open file.
PutCells(m, n) ==
    /\ content' = [content EXCEPT ![fileId] =
                     [o \in Offsets |-> IF o \in pointer .. pointer + n - 1
                                        THEN <<m, o - pointer + 1>>
                                        ELSE content[fileId][o]]]
    /\ length' = [length EXCEPT ![fileId] = LongestOf(@, pointer + n)]
    /\ UNCHANGED <<entry, disk, diskLength>>

WriteMicroblock(m) ==
    /\ handle
    /\ pointer + Size[m] <= FileCapacity
    /\ PutCells(m, Size[m])
    /\ pointer' = pointer + Size[m]
    /\ UNCHANGED <<handle, fileId, isNewFile>>

\* bytesWritten !== size: some bytes are in the file, the pointer has not moved
\* and the caller gets an exception.
ShortWrite(m, n) ==
    /\ handle
    /\ n < Size[m]
    /\ pointer + n <= FileCapacity
    /\ PutCells(m, n)
    /\ UNCHANGED serviceVars

-----------------------------------------------------------------------------
(* closeUpdate() *)

\* Mutant of ForgetService: -1 stands for "no position".
ForgetServiceNegative == handle' = FALSE /\ fileId' = 0 /\ isNewFile' = FALSE /\ pointer' = 0 - 1

\* The fields as closeUpdate() leaves them, and as a new object has them.
ForgetService == handle' = FALSE /\ fileId' = 0 /\ isNewFile' = FALSE /\ pointer' = 0

\* Mutant of SyncFile: the file is closed without an fsync.
SyncFileSkipped == handle /\ UNCHANGED storageVars

SyncFile ==
    /\ handle
    /\ disk' = [disk EXCEPT ![fileId] = content[fileId]]
    /\ diskLength' = [diskLength EXCEPT ![fileId] = length[fileId]]
    /\ entry' = IF FsyncPersistsEntry
                THEN [entry EXCEPT ![fileId] = "durable"]
                ELSE entry
    /\ UNCHANGED <<serviceVars, content, length>>

\* An fsync of the directory persists every entry in it.
PersistedEntries == [f \in FileIds |-> IF entry[f] = "cached" THEN "durable"
                                                              ELSE entry[f]]

\* Mutant of ReleaseHandle: "'this.handle' must be reset to allow another beginUpdate()".
ReleaseHandleKept ==
    /\ handle
    /\ entry' = IF isNewFile THEN PersistedEntries ELSE entry
    /\ fileId' = 0 /\ isNewFile' = FALSE /\ pointer' = 0
    /\ UNCHANGED <<handle, content, length, disk, diskLength>>

ReleaseHandle ==
    /\ handle
    /\ \/ isNewFile /\ entry' = PersistedEntries
       \/ isNewFile /\ DirSyncMayFail /\ UNCHANGED entry
       \/ ~isNewFile /\ UNCHANGED entry
    /\ ForgetService
    /\ UNCHANGED <<content, length, disk, diskLength>>

-----------------------------------------------------------------------------
(* readMicroblock() *)

\* The exception of a failed open() or of a short read.
ReadError == <<>>

ReadMicroblock(f, offset, size) ==
    IF entry[f] # "absent" /\ offset + size <= length[f]
    THEN [i \in 1 .. size |-> content[f][offset + i - 1]]
    ELSE ReadError

Bytes(m) == [i \in 1 .. Size[m] |-> <<m, i>>]

-----------------------------------------------------------------------------
(* The end of the process and of the machine. *)

\* A new process starts with a fresh service object; the page cache stays.
ServiceExits == ForgetService /\ UNCHANGED fileVars

\* What may be left of file f: any of its unsynced cells and of its unsynced
\* length may have reached the disk, the rest is as of the last fsync.
Unsynced(f) == {o \in Offsets : content[f][o] # disk[f][o]}

Remains(f, kept, n) ==
    [o \in Offsets |-> IF o >= n THEN Blank
                       ELSE IF <<f, o>> \in kept THEN content[f][o] ELSE disk[f][o]]

SurvivingLengths ==
    {n \in [FileIds -> 0 .. FileCapacity] :
        \A f \in FileIds : diskLength[f] <= n[f] /\ n[f] <= length[f]}

\* An entry that was never persisted may be gone, and its file with it.
LosePower ==
    \E lost \in SUBSET {f \in FileIds : entry[f] = "cached"},
       n \in SurvivingLengths,
       kept \in SUBSET UNION {{<<f, o>> : o \in Unsynced(f)} : f \in FileIds} :
        /\ entry' = [f \in FileIds |->
                       IF f \in lost \/ entry[f] = "absent" THEN "absent" ELSE "durable"]
        /\ length' = [f \in FileIds |-> IF f \in lost THEN 0 ELSE n[f]]
        /\ content' = [f \in FileIds |-> IF f \in lost THEN [o \in Offsets |-> Blank]
                                         ELSE Remains(f, kept, n[f])]
        /\ disk' = content'
        /\ diskLength' = length'
        /\ ForgetService
=============================================================================
