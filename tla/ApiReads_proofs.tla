-------------------------- MODULE ApiReads_proofs --------------------------
(***************************************************************************)
(* The answers of the HTTP API agree with the tables, with each other and  *)
(* with the chain, for any chain, faults and moment of a request.          *)
(***************************************************************************)
EXTENDS ApiReads, StateTotals_proofs, SequenceTheorems

-----------------------------------------------------------------------------
(* The inductive invariant, beside IInv and TInv *)

\* Blocks have the microblocks and the signatures of the chain.
IsWhole(b) == b.microblocks = Len(Block[b.height].micros)
SignaturesOf(h) == IF Block[h].commit THEN {<<h, i>> : i \in DOMAIN Block[h].signers} ELSE {}
SignaturesUpTo(d, h) == d.signatures = UNION {SignaturesOf(k) : k \in 1 .. h}
BlocksWhole ==
    /\ \A b \in db.blocks : (b.height <= indexed \/ at \in {"powers", "commit"}) => IsWhole(b)
    /\ \A b \in saved.blocks : IsWhole(b)
    /\ SignaturesUpTo(db, TopBlock) /\ SignaturesUpTo(saved, indexed)

\* The rows of a virtual blockchain are of the type of its first microblock, and an
\* object has a row once a microblock that declares it is stored.
HasGenesis(d, v) == \E g \in d.microblocks : g.hash = v /\ g.vb = v /\ g.height = 1
Typed(d, p) ==
    /\ \A m \in d.microblocks : m.type = Micro[m.vb].type /\ HasGenesis(d, m.vb)
    /\ \A v \in Hashes : d.vbs[v] # NoVb => d.vbs[v].type = Micro[v].type /\ d.vbs[v].height # 0
    /\ \A t \in ObjectTypes, v \in Hashes : <<t, v>> \in d.rows => t = Micro[v].type /\ HasGenesis(d, v)
    /\ GenesisDeclares =>
          \A m \in d.microblocks : (m.height = 1 /\ m.hash \notin p /\ m.type \in ObjectTypes)
                                      => <<m.type, m.vb>> \in d.rows
TypesFollow == Typed(db, Undeclared) /\ Typed(saved, {})

\* The custom sections of the stored microblocks have their rows, and no other.
Unsaved == IF at = "sections" THEN {Mb} ELSE {}
OfSection(s) ==
    /\ s.index \in Custom(s.microblock) /\ s.tag = Micro[s.microblock].sections[s.index].tag
    /\ s.type = Micro[s.microblock].type /\ s.height = Micro[s.microblock].height
SectionsKept(d, p) ==
    /\ \A s \in d.sections : OfSection(s)
    /\ \A m \in d.microblocks : m.hash \notin p =>
          \A i \in Custom(m.hash) : \E s \in d.sections : s.microblock = m.hash /\ s.index = i /\ s.vb = m.vb
SectionsFollow == SectionsKept(db, Unsaved) /\ SectionsKept(saved, {})

RInv == BlocksWhole /\ TypesFollow /\ SectionsFollow

-----------------------------------------------------------------------------
(* Blocks have the microblocks and the signatures of the chain *)

LEMMA BlocksWholeSame ==
    ASSUME BlocksWhole, db'.blocks = db.blocks, db'.signatures = db.signatures,
           UNCHANGED <<saved, indexed>>, (at = "idle") = (at' = "idle"),
           at' \in {"powers", "commit"} => at \in {"powers", "commit"}
    PROVE  BlocksWhole'
  <1>1. TopBlock' = TopBlock
    BY DEF TopBlock, Height
  <1> QED
    BY <1>1 DEF BlocksWhole, SignaturesUpTo

LEMMA BlocksWholeCommitBlock ==
    ASSUME IInv, BlocksWhole, CommitBlock
    PROVE  BlocksWhole'
  <1>1. /\ at = "idle" /\ at' = "accounts" /\ UNCHANGED <<saved, indexed>> /\ TypeInv
        /\ indexed \in Nat /\ Height = indexed + 1 /\ Height' = Height
    BY Open DEF CommitBlock, Height
  <1>2. db'.blocks = db.blocks \cup {BlockRow} /\ BlockRow.height = Height
    BY <1>1, CommitBlockTables DEF BlockRow
  <1>3. db'.signatures = db.signatures \cup SignaturesOf(Height)
    <2>1. CASE Now.commit
      <3>1. db'.signatures = db.signatures \cup {<<Height, i>> : i \in DOMAIN Now.signers}
        BY <1>1, <2>1 DEF CommitBlock, TypeInv, IsTables
      <3> QED
        BY <2>1, <3>1 DEF SignaturesOf, Now
    <2>2. CASE ~Now.commit
      <3>1. db'.signatures = db.signatures
        BY <1>1, <2>2 DEF CommitBlock, TypeInv, IsTables
      <3> QED
        BY <2>2, <3>1 DEF SignaturesOf, Now
    <2> QED
      BY <2>1, <2>2
  <1>4. SignaturesUpTo(db', Height)
    <2>1. db.signatures = UNION {SignaturesOf(k) : k \in 1 .. indexed}
      BY <1>1 DEF BlocksWhole, SignaturesUpTo, TopBlock
    <2>2. 1 .. Height = (1 .. indexed) \cup {Height}
      BY <1>1
    <2>3. UNION {SignaturesOf(k) : k \in (1 .. indexed) \cup {Height}}
             = (UNION {SignaturesOf(k) : k \in 1 .. indexed}) \cup SignaturesOf(Height)
      OBVIOUS
    <2> QED
      BY <1>3, <2>1, <2>2, <2>3 DEF SignaturesUpTo
  <1>5. \A b \in db'.blocks : b.height <= indexed => IsWhole(b)
    BY <1>1, <1>2 DEF BlocksWhole
  <1> QED
    BY <1>1, <1>4, <1>5 DEF BlocksWhole, TopBlock, SignaturesUpTo

LEMMA BlocksWholeTotals ==
    ASSUME IInv, BlockRows, BlocksWhole, CommitBlockMicroblocksAndFees
    PROVE  BlocksWhole'
  <1>1. /\ db'.blocks = {Totalled(b) : b \in db.blocks} /\ db'.signatures = db.signatures
        /\ UNCHANGED <<saved, indexed>> /\ at = "totals" /\ at' = "powers"
        /\ Height' = Height /\ TypeInv /\ indexed \in Nat /\ Height = indexed + 1
    BY Open, TotalsTables DEF CommitBlockMicroblocksAndFees, Height
  <1>2. \A b \in db.blocks : b.height <= indexed \/ b.height = Height
    <2>1. \A b \in db.blocks : b.height \in 1 .. Height
      BY <1>1 DEF BlockRows, BlocksUpTo, TopBlock
    <2> QED
      BY <1>1, <2>1
  <1>3. ASSUME NEW b \in db.blocks PROVE IsWhole(Totalled(b))
    <2>1. CASE b.height = Height
      BY <1>1, <2>1, TotalledFields DEF IsWhole, Now
    <2>2. CASE b.height # Height
      BY <1>1, <1>2, <2>2, TotalledFields DEF BlocksWhole
    <2> QED
      BY <2>1, <2>2
  <1>4. TopBlock' = TopBlock
    BY <1>1 DEF TopBlock
  <1> QED
    BY <1>1, <1>3, <1>4 DEF BlocksWhole, SignaturesUpTo

LEMMA BlocksWholeCommit ==
    ASSUME BlocksWhole, Commit
    PROVE  BlocksWhole'
  <1>1. at = "commit" /\ at' = "idle" /\ saved' = db /\ db' = db /\ indexed' = Height
    BY DEF Commit
  <1> QED
    BY <1>1 DEF BlocksWhole, TopBlock, SignaturesUpTo

LEMMA BlocksWholeFail ==
    ASSUME BlocksWhole, Fail
    PROVE  BlocksWhole'
  <1>1. at' = "idle" /\ saved' = saved /\ db' = saved /\ indexed' = indexed
    BY DEF Fail, Rollback
  <1> QED
    BY <1>1 DEF BlocksWhole, TopBlock, SignaturesUpTo

-----------------------------------------------------------------------------
(* The types of virtual blockchains and the rows of objects *)

LEMMA TypesFollowSame ==
    ASSUME TypesFollow, db'.microblocks = db.microblocks, db'.vbs = db.vbs, UNCHANGED saved,
           db.rows \subseteq db'.rows, Undeclared' = Undeclared,
           \A t \in ObjectTypes, v \in Hashes : <<t, v>> \in db'.rows => <<t, v>> \in db.rows
    PROVE  TypesFollow'
  <1>1. Typed(db, Undeclared)
    BY DEF TypesFollow
  <1>2. \A v : HasGenesis(db', v) <=> HasGenesis(db, v)
    BY DEF HasGenesis
  <1>3. Typed(db', Undeclared)
    BY <1>1, <1>2 DEF Typed
  <1> QED
    BY <1>3 DEF TypesFollow

LEMMA TypesFollowCommitRow ==
    ASSUME IInv, ChainRows, TypesFollow, CommitRow
    PROVE  TypesFollow'
  <1>1. PICK v \in Hashes : /\ IsVb(v)
                            /\ db'.microblocks = db.microblocks \cup {NewRow(v)}
                            /\ db'.vbs = db.vbs /\ db'.rows = db.rows
    BY Open, CommitRowTables
  <1>2. /\ UNCHANGED saved /\ at = "row" /\ at' = "sections" /\ Mb' = Mb /\ Mb \in Hashes
    BY Open DEF CommitRow, Mb, Now, Height, Storing
  <1>3. Undeclared = {} /\ Undeclared' = {Mb}
    BY <1>2 DEF Undeclared
  <1>4. Typed(db, {})
    BY <1>3 DEF TypesFollow
  <1> DEFINE r == NewRow(v)
  <1>5. r.hash = Mb /\ r.vb = v /\ r.type = M.type /\ r.height = M.height
    BY NewRowFields
  <1>6. db'.microblocks = db.microblocks \cup {r}
    BY <1>1
  <1> HIDE DEF r
  <1>7. \A w : HasGenesis(db, w) => HasGenesis(db', w)
    BY <1>6 DEF HasGenesis
  <1>8. M.type = Micro[v].type /\ HasGenesis(db', v)
    <2>1. CASE M.height = 1
      <3>1. v = Mb
        BY <1>1, <2>1 DEF IsVb
      <3> QED
        BY <1>5, <1>6, <2>1, <3>1 DEF M, HasGenesis
    <2>2. CASE M.height # 1
      <3>1. PICK p \in db.microblocks : p.hash = M.prev /\ p.vb = v
        BY <1>1, <2>2 DEF IsVb
      <3>2. M.type = Micro[M.prev].type
        BY <1>2, <2>2, VirtualBlockchainAssumption DEF M
      <3>3. p.type = Micro[p.hash].type
        BY <3>1 DEF ChainRows, RowOfChain
      <3>4. p.type = Micro[v].type /\ HasGenesis(db, v)
        BY <1>4, <3>1 DEF Typed
      <3> QED
        BY <1>7, <3>1, <3>2, <3>3, <3>4
    <2> QED
      BY <2>1, <2>2
  <1>9. \A m \in db'.microblocks : m.type = Micro[m.vb].type /\ HasGenesis(db', m.vb)
    BY <1>4, <1>5, <1>6, <1>7, <1>8 DEF Typed
  <1>10. GenesisDeclares =>
           \A m \in db'.microblocks : (m.height = 1 /\ m.hash \notin {Mb} /\ m.type \in ObjectTypes)
                                      => <<m.type, m.vb>> \in db'.rows
    BY <1>1, <1>4, <1>5, <1>6 DEF Typed
  <1>11. Typed(db', {Mb})
    BY <1>1, <1>4, <1>7, <1>9, <1>10 DEF Typed
  <1> QED
    BY <1>2, <1>3, <1>11 DEF TypesFollow

\* The virtual blockchain in process is of the type of its microblock.
LEMMA TypeInProcess ==
    ASSUME IInv, ChainRows, TypesFollow, at \in HasRow
    PROVE  M.type = Micro[Vb].type /\ HasGenesis(db, Vb)
  <1>1. PICK row \in db.microblocks : row.hash = Mb /\ row.vb = Vb
    BY RowInProcess
  <1>2. row.type = M.type
    BY <1>1 DEF ChainRows, RowOfChain, M
  <1>3. row.type = Micro[row.vb].type /\ HasGenesis(db, row.vb)
    BY DEF TypesFollow, Typed
  <1> QED
    BY <1>1, <1>2, <1>3

LEMMA TypesFollowSaveObject ==
    ASSUME IInv, ChainRows, TypesFollow, SaveObject
    PROVE  TypesFollow'
  <1>1. at = "object" /\ at' = "stats" /\ UNCHANGED saved /\ TypeInv
    BY Open DEF SaveObject
  <1>2. PICK row \in db.microblocks :
            /\ row.hash = Mb /\ row.vb = Vb /\ Vb \in Hashes /\ Mb \in Hashes
            /\ \A m \in db.microblocks : m.hash = Mb => m = row
    BY <1>1, RowInProcess DEF HasRow
  <1>3. Undeclared = {Mb} /\ Undeclared' = {}
    BY <1>1 DEF Undeclared
  <1>4. /\ db'.microblocks = db.microblocks /\ db'.vbs = db.vbs
        /\ db'.rows = IF Declared = {} THEN db.rows ELSE db.rows \cup {<<M.type, Vb>>}
    BY <1>1, SaveObjectTables
  <1>5. Typed(db, {Mb})
    BY <1>3 DEF TypesFollow
  <1>6. \A v : HasGenesis(db', v) <=> HasGenesis(db, v)
    BY <1>4 DEF HasGenesis
  <1>7. M.type = Micro[Vb].type /\ HasGenesis(db, Vb)
    BY <1>1, TypeInProcess DEF HasRow
  <1>8. ASSUME GenesisDeclares,
               NEW m \in db.microblocks, m.height = 1, m.type \in ObjectTypes
        PROVE  <<m.type, m.vb>> \in db'.rows
    <2>1. CASE m = row
      <3>1. m.type = M.type /\ M.height = 1
        BY <1>2, <1>8, <2>1, Open DEF ChainRows, RowOfChain, RowsInv, RowsLinked, FromChain, M
      <3>2. PICK i \in DOMAIN M.sections : M.sections[i].kind \in SectionsOf(M.type)
        BY <1>2, <1>8, <3>1 DEF GenesisDeclares, M
      <3>3. Declared # {}
        BY <3>2 DEF Declared
      <3> QED
        BY <1>2, <1>4, <2>1, <3>1, <3>3
    <2>2. CASE m # row
      BY <1>2, <1>4, <1>5, <1>8, <2>2 DEF Typed
    <2> QED
      BY <2>1, <2>2
  <1>9. \A t \in ObjectTypes, v \in Hashes : <<t, v>> \in db'.rows => t = Micro[v].type /\ HasGenesis(db', v)
    <2> SUFFICES ASSUME NEW t \in ObjectTypes, NEW v \in Hashes, <<t, v>> \in db'.rows
                 PROVE  t = Micro[v].type /\ HasGenesis(db, v)
      BY <1>6
    <2>1. CASE <<t, v>> \in db.rows
      BY <1>5, <2>1 DEF Typed
    <2>2. CASE <<t, v>> \notin db.rows
      BY <1>4, <1>7, <2>2
    <2> QED
      BY <2>1, <2>2
  <1>10. Typed(db', {})
    BY <1>4, <1>5, <1>6, <1>8, <1>9 DEF Typed
  <1> QED
    BY <1>1, <1>3, <1>10 DEF TypesFollow

LEMMA TypesFollowUpdateVirtualBlockchain ==
    ASSUME IInv, ChainRows, TypesFollow, UpdateVirtualBlockchain
    PROVE  TypesFollow'
  <1>1. /\ db'.vbs = [db.vbs EXCEPT ![Vb] = NewHead(@)]
        /\ db'.microblocks = db.microblocks /\ db'.rows = db.rows
        /\ UNCHANGED saved /\ at = "head" /\ at' \in {"row", "totals"} /\ TypeInv
    BY Open, UpdateVirtualBlockchainTables DEF UpdateVirtualBlockchain
  <1>2. Undeclared = {} /\ Undeclared' = {}
    BY <1>1 DEF Undeclared
  <1>3. M.type = Micro[Vb].type
    BY <1>1, TypeInProcess DEF HasRow
  <1>4. M.height # 0
    BY <1>1, Open, Constants DEF M, Storing
  <1>5. Typed(db, {})
    BY <1>2 DEF TypesFollow
  <1>6. ASSUME NEW v \in Hashes, db'.vbs[v] # NoVb
        PROVE  db'.vbs[v].type = Micro[v].type /\ db'.vbs[v].height # 0
    <2>0. db.vbs \in [Hashes -> VbRow]
      BY <1>1 DEF TypeInv, TypeOK, TablesType, VbRow
    <2>1. CASE v # Vb
      <3>1. db'.vbs[v] = db.vbs[v]
        BY <1>1, <2>0, <2>1
      <3> QED
        BY <1>5, <1>6, <3>1 DEF Typed
    <2>2. CASE v = Vb
      <3>1. db'.vbs[v] = NewHead(db.vbs[v])
        BY <1>1, <2>0, <2>2
      <3>2. CASE M.height = 1
        BY <1>3, <2>2, <3>1, <3>2 DEF NewHead
      <3>3. CASE M.height # 1
        <4>1. db.vbs[v] # NoVb
          BY <1>6, <3>1, <3>3 DEF NewHead
        <4>2. db.vbs[v].type = Micro[v].type
          BY <1>5, <4>1 DEF Typed
        <4>3. db.vbs[v] \in VbRow
          BY <2>0
        <4>4. NewHead(db.vbs[v]).type = db.vbs[v].type /\ NewHead(db.vbs[v]).height = M.height
          BY <3>3, <4>1, <4>3 DEF NewHead, VbRow
        <4> QED
          BY <1>4, <3>1, <4>2, <4>4
      <3> QED
        BY <3>2, <3>3
    <2> QED
      BY <2>1, <2>2
  <1>7. \A v : HasGenesis(db', v) <=> HasGenesis(db, v)
    BY <1>1 DEF HasGenesis
  <1>8. Typed(db', {})
    BY <1>1, <1>5, <1>6, <1>7 DEF Typed
  <1> QED
    BY <1>1, <1>2, <1>8 DEF TypesFollow

LEMMA TypesFollowCommit ==
    ASSUME TypesFollow, Commit
    PROVE  TypesFollow'
  <1>1. Undeclared = {} /\ Undeclared' = {} /\ saved' = db /\ db' = db
    BY DEF Undeclared, Commit
  <1> QED
    BY <1>1 DEF TypesFollow

LEMMA TypesFollowFail ==
    ASSUME TypesFollow, Fail
    PROVE  TypesFollow'
  <1>1. Undeclared' = {} /\ saved' = saved /\ db' = saved
    BY DEF Undeclared, Fail, Rollback
  <1> QED
    BY <1>1 DEF TypesFollow

-----------------------------------------------------------------------------
(* The custom sections of the stored microblocks *)

LEMMA SectionsFollowSame ==
    ASSUME SectionsFollow, db'.sections = db.sections, db'.microblocks = db.microblocks,
           UNCHANGED saved, Unsaved' = Unsaved
    PROVE  SectionsFollow'
  BY DEF SectionsFollow, SectionsKept

LEMMA SectionsFollowCommitRow ==
    ASSUME IInv, SectionsFollow, CommitRow
    PROVE  SectionsFollow'
  <1>1. PICK v \in Hashes : db'.microblocks = db.microblocks \cup {NewRow(v)} /\ db'.sections = db.sections
    BY Open, CommitRowTables
  <1>2. /\ UNCHANGED saved /\ at = "row" /\ at' = "sections" /\ Mb' = Mb
    BY DEF CommitRow, Mb, Now, Height
  <1>3. Unsaved = {} /\ Unsaved' = {Mb} /\ NewRow(v).hash = Mb
    BY <1>2, NewRowFields DEF Unsaved
  <1> DEFINE r == NewRow(v)
  <1>4. db'.microblocks = db.microblocks \cup {r} /\ r.hash = Mb
    BY <1>1, <1>3
  <1> HIDE DEF r
  <1> QED
    BY <1>1, <1>2, <1>3, <1>4 DEF SectionsFollow, SectionsKept

LEMMA NewSectionsAre ==
    ASSUME IInv, at = "sections"
    PROVE  /\ \A s \in NewSections : s.microblock = Mb /\ OfSection(s)
           /\ \A i \in Custom(Mb) : \E s \in NewSections : s.microblock = Mb /\ s.index = i /\ s.vb = Vb
  <1> DEFINE Row(i) == [microblock |-> Mb, index |-> SectionIndex(Mb, i), vb |-> Vb, type |-> M.type,
                        tag |-> M.sections[i].tag, height |-> M.height]
  <1>1. NewSections = {Row(i) : i \in Custom(Mb)}
    BY DEF NewSections
  <1>2. ASSUME NEW i \in Custom(Mb)
        PROVE  Row(i).microblock = Mb /\ Row(i).index = i /\ Row(i).vb = Vb /\ OfSection(Row(i))
    BY DEF OfSection, SectionIndex, M
  <1> HIDE DEF Row
  <1> QED
    BY <1>1, <1>2

LEMMA SectionsFollowSave ==
    ASSUME IInv, SectionsFollow, SaveCustomSections
    PROVE  SectionsFollow'
  <1>1. /\ at = "sections" /\ at' = "object" /\ UNCHANGED saved /\ TypeInv
    BY Open DEF SaveCustomSections
  <1>2. db'.sections = db.sections \cup NewSections /\ db'.microblocks = db.microblocks
    BY <1>1, SaveCustomSectionsTables
  <1>3. Unsaved = {Mb} /\ Unsaved' = {}
    BY <1>1 DEF Unsaved
  <1>4. \A m \in db.microblocks : m.hash = Mb => m.vb = Vb
    BY <1>1, RowInProcess DEF HasRow
  <1>5. \A s \in db'.sections : OfSection(s)
    BY <1>1, <1>2, NewSectionsAre DEF SectionsFollow, SectionsKept
  <1>6. ASSUME NEW m \in db'.microblocks, NEW i \in Custom(m.hash)
        PROVE  \E s \in db'.sections : s.microblock = m.hash /\ s.index = i /\ s.vb = m.vb
    <2>1. CASE m.hash = Mb
      BY <1>1, <1>2, <1>4, <1>6, <2>1, NewSectionsAre
    <2>2. CASE m.hash # Mb
      BY <1>2, <1>3, <1>6, <2>2 DEF SectionsFollow, SectionsKept
    <2> QED
      BY <2>1, <2>2
  <1> QED
    BY <1>1, <1>3, <1>5, <1>6 DEF SectionsFollow, SectionsKept

LEMMA SectionsFollowCommit ==
    ASSUME SectionsFollow, Commit
    PROVE  SectionsFollow'
  BY DEF SectionsFollow, Commit, Unsaved

LEMMA SectionsFollowFail ==
    ASSUME SectionsFollow, Fail
    PROVE  SectionsFollow'
  BY DEF SectionsFollow, Fail, Rollback, Unsaved

-----------------------------------------------------------------------------
(* The invariant *)

LEMMA ReadsInit == Init => RInv
  <1> SUFFICES ASSUME Init PROVE RInv
    OBVIOUS
  <1>1. /\ db.blocks = {} /\ db.signatures = {} /\ db.microblocks = {} /\ db.sections = {}
        /\ db.vbs = [v \in Hashes |-> NoVb] /\ db.rows = {} /\ saved = db
        /\ at = "idle" /\ indexed = 0
    BY DEF Init, EmptyTables
  <1>2. 1 .. 0 = {}
    OBVIOUS
  <1>3. BlocksWhole
    BY <1>1, <1>2 DEF BlocksWhole, SignaturesUpTo, TopBlock
  <1>4. TypesFollow
    BY <1>1 DEF TypesFollow, Typed, Undeclared
  <1>5. SectionsFollow
    BY <1>1 DEF SectionsFollow, SectionsKept, Unsaved
  <1> QED
    BY <1>3, <1>4, <1>5 DEF RInv

LEMMA CommitBlockReads ==
    ASSUME IInv, TInv, RInv, CommitBlock
    PROVE  RInv'
  <1>1. TypeInv /\ at = "idle" /\ at' = "accounts" /\ UNCHANGED saved
    BY Open DEF CommitBlock
  <1>2. /\ db'.microblocks = db.microblocks /\ db'.vbs = db.vbs /\ db'.rows = db.rows
        /\ db'.sections = db.sections
    BY <1>1, CommitBlockTables
  <1>3. Undeclared' = Undeclared /\ Unsaved' = Unsaved
    BY <1>1 DEF Undeclared, Unsaved
  <1> QED
    BY <1>1, <1>2, <1>3, BlocksWholeCommitBlock, TypesFollowSame, SectionsFollowSame DEF RInv

LEMMA SyncModifiedAccountsReads ==
    ASSUME IInv, TInv, RInv, SyncModifiedAccounts
    PROVE  RInv'
  <1>1. TypeInv /\ at = "accounts" /\ at' \in {"row", "totals"} /\ UNCHANGED <<saved, indexed>>
    BY Open DEF SyncModifiedAccounts
  <1>2. /\ db'.microblocks = db.microblocks /\ db'.vbs = db.vbs
        /\ db'.sections = db.sections /\ db'.blocks = db.blocks /\ db'.signatures = db.signatures
        /\ db'.rows = db.rows \cup ({"account"} \X Now.modified)
    BY <1>1, SyncModifiedAccountsTables
  <1>3. Undeclared' = Undeclared /\ Unsaved' = Unsaved
    BY <1>1 DEF Undeclared, Unsaved
  <1>4. \A t \in ObjectTypes, v \in Hashes : <<t, v>> \in db'.rows => <<t, v>> \in db.rows
    BY <1>2 DEF ObjectTypes
  <1> QED
    BY <1>1, <1>2, <1>3, <1>4, BlocksWholeSame, TypesFollowSame, SectionsFollowSame DEF RInv

LEMMA CommitRowReads ==
    ASSUME IInv, TInv, RInv, CommitRow
    PROVE  RInv'
  <1>1. TypeInv /\ at = "row" /\ at' = "sections" /\ UNCHANGED <<saved, indexed>>
    BY Open DEF CommitRow
  <1>2. db'.blocks = db.blocks /\ db'.signatures = db.signatures
    BY <1>1, CommitRowTables
  <1> QED
    BY <1>1, <1>2, BlocksWholeSame, TypesFollowCommitRow, SectionsFollowCommitRow DEF RInv, TInv

LEMMA SaveCustomSectionsReads ==
    ASSUME IInv, TInv, RInv, SaveCustomSections
    PROVE  RInv'
  <1>1. /\ TypeInv /\ at = "sections" /\ at' = "object" /\ UNCHANGED <<saved, indexed>> /\ Mb' = Mb
    BY Open DEF SaveCustomSections, Mb, Now, Height
  <1>2. /\ db'.microblocks = db.microblocks /\ db'.vbs = db.vbs /\ db'.rows = db.rows
        /\ db'.blocks = db.blocks /\ db'.signatures = db.signatures
    BY <1>1, SaveCustomSectionsTables
  <1>3. Undeclared' = Undeclared
    BY <1>1 DEF Undeclared
  <1> QED
    BY <1>1, <1>2, <1>3, BlocksWholeSame, TypesFollowSame, SectionsFollowSave DEF RInv

LEMMA SaveObjectReads ==
    ASSUME IInv, TInv, RInv, SaveObject
    PROVE  RInv'
  <1>1. TypeInv /\ at = "object" /\ at' = "stats" /\ UNCHANGED <<saved, indexed>>
    BY Open DEF SaveObject
  <1>2. /\ db'.microblocks = db.microblocks /\ db'.sections = db.sections
        /\ db'.blocks = db.blocks /\ db'.signatures = db.signatures
    BY <1>1, SaveObjectTables
  <1>3. Unsaved' = Unsaved
    BY <1>1 DEF Unsaved
  <1> QED
    BY <1>1, <1>2, <1>3, BlocksWholeSame, TypesFollowSaveObject, SectionsFollowSame DEF RInv, TInv

LEMMA UpdateMicroblockStatsReads ==
    ASSUME IInv, TInv, RInv, UpdateMicroblockStats
    PROVE  RInv'
  <1>1. TypeInv /\ at = "stats" /\ at' = "head" /\ UNCHANGED <<saved, indexed>>
    BY Open DEF UpdateMicroblockStats
  <1>2. /\ db'.microblocks = db.microblocks /\ db'.vbs = db.vbs /\ db'.rows = db.rows
        /\ db'.sections = db.sections /\ db'.blocks = db.blocks /\ db'.signatures = db.signatures
    BY <1>1, UpdateMicroblockStatsTables
  <1>3. Undeclared' = Undeclared /\ Unsaved' = Unsaved
    BY <1>1 DEF Undeclared, Unsaved
  <1> QED
    BY <1>1, <1>2, <1>3, BlocksWholeSame, TypesFollowSame, SectionsFollowSame DEF RInv

LEMMA UpdateVirtualBlockchainReads ==
    ASSUME IInv, TInv, RInv, UpdateVirtualBlockchain
    PROVE  RInv'
  <1>1. TypeInv /\ at = "head" /\ at' \in {"row", "totals"} /\ UNCHANGED <<saved, indexed>>
    BY Open DEF UpdateVirtualBlockchain
  <1>2. /\ db'.microblocks = db.microblocks /\ db'.sections = db.sections
        /\ db'.blocks = db.blocks /\ db'.signatures = db.signatures
    BY <1>1, UpdateVirtualBlockchainTables
  <1>3. Unsaved' = Unsaved
    BY <1>1 DEF Unsaved
  <1> QED
    BY <1>1, <1>2, <1>3, BlocksWholeSame, TypesFollowUpdateVirtualBlockchain, SectionsFollowSame
       DEF RInv, TInv

LEMMA BlockTotalsReads ==
    ASSUME IInv, TInv, RInv, CommitBlockMicroblocksAndFees
    PROVE  RInv'
  <1>1. TypeInv /\ at = "totals" /\ at' = "powers" /\ UNCHANGED <<saved, indexed>>
    BY Open DEF CommitBlockMicroblocksAndFees
  <1>2. /\ db'.microblocks = db.microblocks /\ db'.vbs = db.vbs /\ db'.rows = db.rows
        /\ db'.sections = db.sections
    BY <1>1, TotalsTables
  <1>3. Undeclared' = Undeclared /\ Unsaved' = Unsaved
    BY <1>1 DEF Undeclared, Unsaved
  <1> QED
    BY <1>1, <1>2, <1>3, BlocksWholeTotals, TypesFollowSame, SectionsFollowSame DEF RInv, TInv

LEMMA SyncVotingPowersReads ==
    ASSUME IInv, TInv, RInv, SyncVotingPowers
    PROVE  RInv'
  <1>1. TypeInv /\ at = "powers" /\ at' = "commit" /\ UNCHANGED <<saved, indexed>>
    BY Open DEF SyncVotingPowers
  <1>2. /\ db'.microblocks = db.microblocks /\ db'.vbs = db.vbs /\ db'.rows = db.rows
        /\ db'.sections = db.sections /\ db'.blocks = db.blocks /\ db'.signatures = db.signatures
    BY <1>1, SyncVotingPowersTables
  <1>3. Undeclared' = Undeclared /\ Unsaved' = Unsaved
    BY <1>1 DEF Undeclared, Unsaved
  <1> QED
    BY <1>1, <1>2, <1>3, BlocksWholeSame, TypesFollowSame, SectionsFollowSame DEF RInv

LEMMA StutterReads ==
    ASSUME RInv, UNCHANGED vars
    PROVE  RInv'
  <1>1. /\ db' = db /\ saved' = saved /\ at' = at /\ indexed' = indexed /\ Mb' = Mb
    BY DEF vars, Height, Mb, Now
  <1>2. Undeclared' = Undeclared /\ Unsaved' = Unsaved
    BY <1>1 DEF Undeclared, Unsaved
  <1> QED
    BY <1>1, <1>2, BlocksWholeSame, TypesFollowSame, SectionsFollowSame DEF RInv

LEMMA ReadsNext == IInv /\ TInv /\ RInv /\ [Next]_vars => RInv'
  <1> SUFFICES ASSUME IInv, TInv, RInv, [Next]_vars PROVE RInv'
    OBVIOUS
  <1>1. Commit => RInv'
    BY BlocksWholeCommit, TypesFollowCommit, SectionsFollowCommit DEF RInv
  <1>2. Fail => RInv'
    BY BlocksWholeFail, TypesFollowFail, SectionsFollowFail DEF RInv
  <1> QED
    BY <1>1, <1>2, CommitBlockReads, SyncModifiedAccountsReads, CommitRowReads,
       SaveCustomSectionsReads, SaveObjectReads, UpdateMicroblockStatsReads,
       UpdateVirtualBlockchainReads, BlockTotalsReads, SyncVotingPowersReads, StutterReads
    DEF Next

\* The requests of a walk leave the tables alone.
LEMMA ReadStep == [NextReads]_allVars => [Next]_vars
  BY DEF NextReads, TableStep, StartWalk, FetchPage, ReadSignatures, allVars, vars

TablesInv == IInv /\ TInv /\ RInv
LEMMA TablesInvariance == SpecReads => []TablesInv
  <1>1. InitReads => TablesInv
    BY InvInit, TotalsInit, ReadsInit DEF InitReads, TablesInv
  <1>2. TablesInv /\ [NextReads]_allVars => TablesInv'
    BY ReadStep, InvNext, TotalsNext, ReadsNext DEF TablesInv
  <1> QED
    BY <1>1, <1>2, PTL DEF SpecReads

-----------------------------------------------------------------------------
(* Identifiers in answers *)

\* A query without parameters, and with one.
LEMMA NoParameter == \A f : ~Given(<<>>, f)
  BY DEF Given

LEMMA AllMicroblocks == \A d : Microblocks(d, <<>>) = d.microblocks
  BY NoParameter DEF Microblocks, Is

LEMMA MicroblocksOf == \A d, v : Microblocks(d, [vb_id |-> v]) = {m \in d.microblocks : m.vb = v}
  BY DEF Microblocks, Is, Given

LEMMA AllVirtualBlockchains == \A d : VirtualBlockchains(d, <<>>) = {v \in Hashes : d.vbs[v] # NoVb}
  BY NoParameter DEF VirtualBlockchains, Is

LEMMA OneVirtualBlockchain ==
    \A d, v : VirtualBlockchains(d, [vb_id |-> v]) = {w \in Hashes : d.vbs[w] # NoVb /\ w = v}
  BY DEF VirtualBlockchains, Is, Given

LEMMA VirtualBlockchainsOfType ==
    \A d, t : VirtualBlockchains(d, [type |-> t]) = {v \in Hashes : d.vbs[v] # NoVb /\ d.vbs[v].type = t}
  BY DEF VirtualBlockchains, Is, Given

LEMMA AllOrganizations == \A d : Organizations(d, <<>>) = Objects(d, "organization")
  BY NoParameter DEF Organizations, Is

LEMMA OneAccount == \A d, v : Accounts(d, [id |-> v]) = {w \in Objects(d, "account") : w = v}
  BY DEF Accounts, Is, Given

LEMMA Validators ==
    \A d : ValidatorNodes(d, [is_validator |-> TRUE]) = {v \in Objects(d, "node") : d.power[v] >= 1}
  BY DEF ValidatorNodes, Is, Given, MinimumPower

LEMMA PowersOfNode == \A d, n : VotingPowers(d, [node_id |-> n]) = {p \in d.powers : p.node = n}
  BY DEF VotingPowers, Is, Given

LEMMA IdleSaved == TablesInv /\ at = "idle" => db = saved
  BY Open DEF TablesInv

\* A virtual blockchain has a head exactly when it has a first microblock.
LEMMA HasHead ==
    ASSUME TablesInv, NEW v \in Hashes
    PROVE  /\ saved.vbs[v] # NoVb <=> \E m \in saved.microblocks : m.vb = v
           /\ saved.vbs[v] # NoVb => \E m \in saved.microblocks : m.vb = v /\ m.height = 1
  <1>1. TypeInv /\ RowsInv /\ TypesFollow
    BY Open DEF TablesInv, RInv
  <1>2. saved.vbs[v].height \in Nat
    BY <1>1 DEF TypeInv, TypeOK, TablesType
  <1>3. ASSUME NEW m \in saved.microblocks, m.vb = v
        PROVE  saved.vbs[v] # NoVb
    <2>1. m.height <= saved.vbs[v].height
      BY <1>1, <1>3 DEF RowsInv, Heads, HeadOf, Counted
    <2>2. m.height \in Nat \ {0}
      <3>1. m.hash \in Hashes /\ m.height = Micro[m.hash].height
        BY <1>1 DEF TypeInv, TypeOK, TablesType, RowsInv, RowsLinked, FromChain
      <3> QED
        BY <3>1, Constants
    <2>3. saved.vbs[v].height # 0
      BY <1>2, <2>1, <2>2
    <2> QED
      BY <2>3 DEF NoVb
  <1>4. ASSUME saved.vbs[v] # NoVb
        PROVE  \E m \in saved.microblocks : m.vb = v /\ m.height = 1
    <2>1. saved.vbs[v].height # 0
      BY <1>1, <1>4 DEF TypesFollow, Typed
    <2>2. 1 \in 1 .. saved.vbs[v].height
      BY <1>2, <2>1
    <2> QED
      BY <1>1, <2>2 DEF RowsInv, Heads, HeadOf, Counted
  <1> QED
    BY <1>3, <1>4

LEMMA ObjectsHaveHeads ==
    ASSUME TablesInv, GenesisDeclares, NEW t \in ObjectTypes
    PROVE  Objects(saved, t) = VirtualBlockchains(saved, [type |-> t])
  <1>1. Typed(saved, {})
    BY DEF TablesInv, RInv, TypesFollow
  <1>2. ASSUME NEW v \in Hashes, <<t, v>> \in saved.rows
        PROVE  saved.vbs[v] # NoVb /\ saved.vbs[v].type = t
    <2>1. t = Micro[v].type /\ HasGenesis(saved, v)
      BY <1>1, <1>2 DEF Typed
    <2>2. saved.vbs[v] # NoVb
      BY <2>1, HasHead DEF HasGenesis
    <2> QED
      BY <1>1, <2>1, <2>2 DEF Typed
  <1>3. ASSUME NEW v \in Hashes, saved.vbs[v] # NoVb, saved.vbs[v].type = t
        PROVE  <<t, v>> \in saved.rows
    <2>1. PICK m \in saved.microblocks : m.vb = v /\ m.height = 1
      BY <1>3, HasHead
    <2>2. m.type = t
      BY <1>1, <1>3, <2>1 DEF Typed
    <2> QED
      BY <1>1, <2>1, <2>2 DEF Typed
  <1> QED
    BY <1>2, <1>3, VirtualBlockchainsOfType DEF Objects

LEMMA ValidatorsHavePower ==
    ASSUME TablesInv, at = "idle", NEW n \in Hashes
    PROVE  n \in ValidatorNodes(saved, [is_validator |-> TRUE])
              <=> \E p \in VotingPowers(saved, [node_id |-> n]) :
                     /\ p.power # 0
                     /\ \A r \in VotingPowers(saved, [node_id |-> n]) : r.height <= p.height
  <1>1. db = saved /\ TypeInv
    BY Open DEF TablesInv
  <1>2. ColumnIsLast(saved)
    BY DEF TablesInv, TInv, PowersFollow
  <1>3. saved.power[n] \in Nat
    BY <1>1 DEF TypeInv, TypeOK, TablesType
  <1>4. n \in ValidatorNodes(saved, [is_validator |-> TRUE])
           <=> <<"node", n>> \in saved.rows /\ saved.power[n] # 0
    BY <1>3, Validators DEF Objects
  <1>5. \A p \in saved.powers : p.node = n =>
           (IsLast(saved, p) <=> \A r \in {q \in saved.powers : q.node = n} : r.height <= p.height)
    BY DEF IsLast
  <1>6. ASSUME saved.power[n] # 0
        PROVE  \E p \in saved.powers : p.node = n /\ p.power # 0 /\ IsLast(saved, p)
    <2>1. PICK r \in saved.powers : r.node = n
      BY <1>2, <1>6 DEF ColumnIsLast
    <2>2. PICK p \in CurrentPowers(db) : p.node = n
      BY <1>1, <2>1, LastRow
    <2>3. p \in saved.powers /\ IsLast(saved, p)
      BY <1>1, <2>2 DEF CurrentPowers, IsLast
    <2> QED
      BY <1>2, <1>6, <2>2, <2>3 DEF ColumnIsLast
  <1>7. ASSUME NEW p \in saved.powers, p.node = n, p.power # 0, IsLast(saved, p)
        PROVE  <<"node", n>> \in saved.rows /\ saved.power[n] # 0
    BY <1>2, <1>7 DEF ColumnIsLast
  <1>8. n \in ValidatorNodes(saved, [is_validator |-> TRUE])
           <=> \E p \in saved.powers : p.node = n /\ p.power # 0 /\ IsLast(saved, p)
    BY <1>2, <1>4, <1>6, <1>7 DEF ColumnIsLast
  <1> QED
    BY <1>5, <1>8, PowersOfNode

\* A search for an identifier finds the rows that have it.
LEMMA SearchFinds ==
    ASSUME NEW v \in Hashes
    PROVE  /\ \A t \in ObjectTypes : <<t, v>> \in Matches(v) <=> v \in Objects(db, t)
           /\ <<"vb", v>> \in Matches(v) <=> db.vbs[v] # NoVb
  <1> DEFINE q == [hexa |-> v]
             query == [q |-> q, type |-> "all"]
  <1>1. query.q = q /\ query.type = "all" /\ Given(query, "type")
    BY DEF Given
  <1>2. AsId(q) = {v}
    BY DEF AsId, Given
  <1> HIDE DEF q, query
  <1>3. \A t \in SearchTypes : \A w : <<t, w>> \in Search(db, query) <=> w \in SearchResults(db, q, t)
    BY <1>1 DEF Search
  <1>4. Matches(v) = Search(db, query)
    BY DEF Matches, query, q
  <1>5. /\ SearchResults(db, q, "organization") = SearchOrganizations(db, q)
        /\ SearchResults(db, q, "application") = SearchApplications(db, q)
        /\ SearchResults(db, q, "node") = SearchNodes(db, q)
        /\ SearchResults(db, q, "vb") = SearchVirtualBlockchains(db, q)
    BY DEF SearchResults
  <1>6. /\ Applications(db, <<>>) = Objects(db, "application")
        /\ ValidatorNodes(db, <<>>) = Objects(db, "node")
        /\ Organizations(db, <<>>) = Objects(db, "organization")
    BY NoParameter DEF Applications, ValidatorNodes, Organizations, Is
  <1>7. v \in SearchOrganizations(db, q) <=> v \in Objects(db, "organization")
    BY <1>2, <1>6 DEF SearchOrganizations, Organizations
  <1>8. v \in SearchApplications(db, q) <=> v \in Objects(db, "application")
    BY <1>2, <1>6 DEF SearchApplications, Applications
  <1>9. v \in SearchNodes(db, q) <=> v \in Objects(db, "node")
    BY <1>2, <1>6 DEF SearchNodes
  <1>10. v \in SearchVirtualBlockchains(db, q) <=> db.vbs[v] # NoVb
    BY <1>2, AllVirtualBlockchains DEF SearchVirtualBlockchains
  <1> QED
    BY <1>3, <1>4, <1>5, <1>7, <1>8, <1>9, <1>10 DEF ObjectTypes, SearchTypes

LEMMA SearchesLink ==
    ASSUME TablesInv, GenesisDeclares, at = "idle", NEW v \in Hashes, NEW t \in ObjectTypes
    PROVE  <<t, v>> \in Matches(v) <=> <<"vb", v>> \in Matches(v) /\ db.vbs[v].type = t
  <1>1. db = saved
    BY IdleSaved
  <1>2. Objects(saved, t) = VirtualBlockchains(saved, [type |-> t])
    BY ObjectsHaveHeads
  <1>3. v \in Objects(db, t) <=> db.vbs[v] # NoVb /\ db.vbs[v].type = t
    BY <1>1, <1>2, VirtualBlockchainsOfType
  <1> QED
    BY <1>3, SearchFinds

\* When the first microblock of an object declares it, then, for any chain and any faults,
\* between transactions every identifier in an answer leads to an answer, the objects of
\* a type are the virtual blockchains of that type, also in searches, and the validators
\* are the nodes whose last voting power is not 0 (QueryService, SearchService, the
\* handlers of AppService).
THEOREM LinksLead ==
    ASSUME GenesisDeclares
    PROVE  SpecReads => []AnswersLink
  <1>1. TablesInv => AnswersLink
    <2> SUFFICES ASSUME TablesInv, at = "idle"
                 PROVE  /\ \A m \in Microblocks(saved, <<>>) : VirtualBlockchains(saved, [vb_id |-> m.vb]) # {}
                        /\ \A v \in VirtualBlockchains(saved, <<>>) :
                              Cardinality(Microblocks(saved, [vb_id |-> v])) = saved.vbs[v].height
                        /\ \A o \in Organizations(saved, <<>>) :
                              Accounts(saved, [id |-> saved.column[o]["ORG_CREATION"]]) # {}
      BY IdleSaved, ObjectsHaveHeads, SearchesLink, ValidatorsHavePower DEF AnswersLink
    <2>1. TypeInv /\ RowsInv /\ OwnersResolve(saved)
      BY Open DEF TablesInv, IInv, Resolve
    <2>2. ASSUME NEW m \in Microblocks(saved, <<>>)
          PROVE  VirtualBlockchains(saved, [vb_id |-> m.vb]) # {}
      <3>1. m \in saved.microblocks /\ m.vb \in Hashes
        BY <2>1, AllMicroblocks DEF TypeInv, TypeOK, TablesType
      <3>2. saved.vbs[m.vb] # NoVb
        BY <3>1, HasHead
      <3> QED
        BY <3>1, <3>2, OneVirtualBlockchain
    <2>3. ASSUME NEW v \in VirtualBlockchains(saved, <<>>)
          PROVE  Cardinality(Microblocks(saved, [vb_id |-> v])) = saved.vbs[v].height
      <3>1. v \in Hashes
        BY AllVirtualBlockchains
      <3>2. saved.vbs[v].height = Cardinality({m \in saved.microblocks : m.vb = v})
        BY <2>1, <3>1, HeadCounts DEF HeadsMatch
      <3> QED
        BY <3>2, MicroblocksOf
    <2>4. ASSUME NEW o \in Organizations(saved, <<>>)
          PROVE  Accounts(saved, [id |-> saved.column[o]["ORG_CREATION"]]) # {}
      <3> DEFINE a == saved.column[o]["ORG_CREATION"]
      <3>1. <<"account", a>> \in saved.rows
        BY <2>1, AllOrganizations DEF Objects, OwnersResolve
      <3>2. a \in Hashes
        BY <2>1, <3>1 DEF TypeInv, TypeOK, TablesType
      <3> QED
        BY <3>1, <3>2, OneAccount DEF Objects
    <2> QED
      BY <2>2, <2>3, <2>4
  <1> QED
    BY <1>1, TablesInvariance, PTL

-----------------------------------------------------------------------------
(* Counts in answers *)

LEMMA RowTypes ==
    ASSUME TablesInv
    PROVE  /\ \A m \in db.microblocks : /\ m.hash \in Hashes /\ m.vb \in Hashes /\ m.type \in Types
                                        /\ m.height \in Nat /\ m.block \in Nat \ {0}
           /\ TopBlock \in {indexed, Height} /\ TopBlock \in Nat
           /\ indexed \in Nat /\ Height = indexed + 1 /\ indexed <= TopBlock
  <1>1. TypeInv /\ indexed \in Nat /\ Height = indexed + 1
    BY Open DEF TablesInv
  <1>2. \A m \in db.microblocks : m.block \in Heights /\ m.hash \in Hashes /\ m.vb \in Hashes
                                  /\ m.type \in Types /\ m.height \in Nat
    BY <1>1 DEF TypeInv, TypeOK, TablesType
  <1>3. \A h \in Heights : h \in Nat \ {0}
    BY Constants DEF Heights
  <1>4. TopBlock \in {indexed, Height}
    BY DEF TopBlock
  <1> QED
    BY <1>1, <1>2, <1>3, <1>4

LEMMA TopOfBlocks ==
    ASSUME TablesInv
    PROVE  ChainHeight(db) = TopBlock
  <1>1. {b.height : b \in db.blocks} = 1 .. TopBlock
    BY DEF TablesInv, TInv, BlockRows, BlocksUpTo
  <1>2. PICK n \in Nat : n = TopBlock
    BY RowTypes
  <1>3. {b.height : b \in db.blocks} \cup {0} = 0 .. n
    BY <1>1, <1>2
  <1>4. ChainHeight(db) = Max(0 .. n)
    BY <1>3 DEF ChainHeight
  <1>5. n \in 0 .. n /\ \A y \in 0 .. n : n >= y
    OBVIOUS
  <1>6. ASSUME NEW x \in 0 .. n, \A y \in 0 .. n : x >= y PROVE x = n
    BY <1>5, <1>6
  <1>7. Max(0 .. n) = n
    BY <1>5, <1>6 DEF Max
  <1> QED
    BY <1>2, <1>4, <1>7

LEMMA ReadMicroblocks ==
    /\ \A d : GasPrice(d, <<>>).microblocks = Cardinality(d.microblocks)
    /\ \A d, n : GasPrice(d, [height_lte |-> n]).microblocks
                    = Cardinality({m \in d.microblocks : m.block <= n})
  <1>1. ASSUME NEW d
        PROVE  {m \in d.microblocks : InRange(<<>>, "height_gte", "height_lte", m.block)} = d.microblocks
    BY NoParameter DEF InRange
  <1>2. ASSUME NEW d, NEW n
        PROVE  {m \in d.microblocks : InRange([height_lte |-> n], "height_gte", "height_lte", m.block)}
                  = {m \in d.microblocks : m.block <= n}
    BY DEF InRange, Given
  <1>3. \A d, q : GasPrice(d, q).microblocks
                     = Cardinality({m \in d.microblocks : InRange(q, "height_gte", "height_lte", m.block)})
    BY DEF GasPrice
  <1> QED
    BY <1>1, <1>2, <1>3

\* The microblock in process is one at most.
LEMMA PendingOne ==
    ASSUME TablesInv, NEW S, S \subseteq db.microblocks
    PROVE  /\ IsFiniteSet(S) /\ Cardinality(S) \in Nat
           /\ LET before == {m \in S : m.hash \notin Pending}
              IN  /\ Cardinality(before) \in Nat
                  /\ Cardinality(before) <= Cardinality(S) /\ Cardinality(S) <= Cardinality(before) + 1
  <1> DEFINE before == {m \in S : m.hash \notin Pending}
  <1>1. IsFiniteSet(S) /\ before \in SUBSET S
    BY TablesFinite, FS_Subset DEF TablesInv
  <1>2. IsFiniteSet(before) /\ Cardinality(before) <= Cardinality(S)
    BY <1>1, FS_Subset
  <1>3. Cardinality(S) \in Nat /\ Cardinality(before) \in Nat
    BY <1>1, <1>2, FS_CardinalityType
  <1>4. CASE S = before
    <2> HIDE DEF before
    <2> QED
      BY <1>2, <1>3, <1>4, <1>1 DEF before
  <1>5. CASE S # before
    <2>1. PICK r \in S : r.hash \in Pending
      BY <1>5
    <2>2. Pending = {Mb}
      BY <2>1 DEF Pending
    <2>3. \A m \in S : m.hash = Mb => m = r
      BY <2>1, <2>2, Open DEF TablesInv, RowsInv, RowsLinked
    <2>4. S = before \cup {r}
      BY <2>1, <2>2, <2>3
    <2> HIDE DEF before
    <2>5. Cardinality(before \cup {r}) <= Cardinality(before) + 1
      BY <1>2, <1>3, FS_AddElement
    <2>6. Cardinality(S) <= Cardinality(before) + 1
      BY <2>4, <2>5
    <2> QED
      BY <1>1, <1>2, <1>3, <2>6 DEF before
  <1> QED
    BY <1>4, <1>5

\* The statistics of all hours count the microblocks of a type that are counted.
OfType(d, p, t, g) == {m \in d.microblocks : m.hash \notin p /\ m.type = t /\ (m.height = 1) = g}

LEMMA MicroblockCountIs ==
    ASSUME TablesInv, NEW t \in Types, NEW g \in BOOLEAN
    PROVE  MicroblockCount(db, <<>>, t, g) = Cardinality(OfType(db, Uncounted, t, g))
  <1> DEFINE S == OfType(db, Uncounted, t, g)
             key == [m \in S |-> Micro[m.hash].hour]
             f == [h \in Hours |-> db.mbStats[<<h, t, g>>]]
  <1>1. {h \in Hours : InRange(<<>>, "timestamp_gte", "timestamp_lte", h)} = Hours
    BY NoParameter DEF InRange
  <1>2. MicroblockCount(db, <<>>, t, g) = SumFunctionOnSet(f, Hours)
    BY <1>1 DEF MicroblockCount, SumFunction
  <1>3. S \subseteq db.microblocks
    BY DEF OfType
  <1>4. IsFiniteSet(S)
    <2> HIDE DEF S
    <2> QED
      BY <1>3, PendingOne
  <1>5. \A m \in S : key[m] \in Hours
    BY <1>3, RowTypes, Constants
  <1>6. ASSUME NEW h \in Hours PROVE f[h] = Cardinality(Fiber(S, key, h))
    <2>1. db.mbStats[<<h, t, g>>] = Cardinality(OfKind(db, Uncounted, h, t, g))
      BY DEF TablesInv, TInv, MbTotals, KindsRight
    <2>2. Fiber(S, key, h) = OfKind(db, Uncounted, h, t, g)
      BY DEF OfKind, OfType, Fiber
    <2> QED
      BY <2>1, <2>2
  <1> HIDE DEF S, key, f
  <1>7. SumFunctionOnSet(f, Hours) = Cardinality(S)
    BY <1>4, <1>5, <1>6, HoursFinite, Fibers
  <1> QED
    BY <1>2, <1>7 DEF S

\* The microblock in process has its statistics, if not its head.
LEMMA UncountedPending == Uncounted \subseteq Pending
  BY DEF Uncounted, Pending, HasRow

LEMMA GenesisCounted ==
    ASSUME TablesInv, NEW t \in Types
    PROVE  LET count == ObjectCount(db, t)
               genesis == MicroblockCount(db, <<>>, t, TRUE)
           IN  count <= genesis /\ genesis <= count + 1
  <1> DEFINE A == {v \in Hashes : db.vbs[v] # NoVb /\ db.vbs[v].type = t}
             G == OfType(db, Uncounted, t, TRUE)
             H == {m \in G : m.hash \notin Pending}
             f == [m \in H |-> m.vb]
  <1>1. TypeInv /\ RowsInv /\ Typed(db, Undeclared)
    BY Open DEF TablesInv, RInv, TypesFollow
  <1>2. \A m \in H : m \in db.microblocks /\ m.hash \notin Pending /\ m.type = t /\ m.height = 1
    BY DEF OfType
  <1>3. \A m \in db.microblocks : (m.hash \notin Pending /\ m.type = t /\ m.height = 1) => m \in H
    BY UncountedPending DEF OfType
  <1>4. ASSUME NEW m \in H PROVE m.vb \in A
    <2>1. m \in Counted(db, Pending, m.vb) /\ m.vb \in Hashes
      BY <1>2, RowTypes DEF Counted
    <2>2. m.height <= db.vbs[m.vb].height
      BY <1>1, <2>1 DEF RowsInv, Heads, HeadOf
    <2>3. db.vbs[m.vb] # NoVb
      <3>1. m.height = 1
        BY <1>2
      <3>2. db.vbs[m.vb].height # 0
        BY <2>2, <3>1
      <3> QED
        BY <3>2 DEF NoVb
    <2> QED
      BY <1>1, <1>2, <2>1, <2>3 DEF Typed
  <1>5. ASSUME NEW v \in A PROVE \E m \in H : m.vb = v
    <2>1. db.vbs[v].type = Micro[v].type /\ db.vbs[v].height # 0
      BY <1>1 DEF Typed
    <2>2. db.vbs[v].height \in Nat
      BY <1>1 DEF TypeInv, TypeOK, TablesType
    <2>3. 1 \in 1 .. db.vbs[v].height
      BY <2>1, <2>2
    <2>4. PICK m \in Counted(db, Pending, v) : m.height = 1
      BY <1>1, <2>3 DEF RowsInv, Heads, HeadOf
    <2>5. m \in db.microblocks /\ m.vb = v /\ m.hash \notin Pending
      BY <2>4 DEF Counted
    <2>6. m.type = t
      BY <1>1, <2>1, <2>5 DEF Typed
    <2> QED
      BY <1>3, <2>4, <2>5, <2>6
  <1>6. \A m, k \in H : m.vb = k.vb => m = k
    <2>1. \A m, k \in db.microblocks : (m.vb = k.vb /\ m.height = k.height) => m = k
      BY <1>1 DEF RowsInv, RowsLinked
    <2> HIDE DEF H
    <2> QED
      BY <1>2, <2>1
  <1>7. G \subseteq db.microblocks
    BY DEF OfType
  <1>8. ObjectCount(db, t) = Cardinality(A)
    BY VirtualBlockchainsOfType DEF ObjectCount
  <1>9. MicroblockCount(db, <<>>, t, TRUE) = Cardinality(G)
    BY MicroblockCountIs
  <1>10. IsFiniteSet(H)
    BY <1>7, PendingOne, FS_Subset
  <1> HIDE DEF H
  <1>11. f \in Bijection(H, A)
    <2> HIDE DEF A
    <2> QED
      BY <1>4, <1>5, <1>6 DEF Bijection, Injection, Surjection, IsInjective
  <1>12. Cardinality(A) = Cardinality(H)
    BY <1>10, <1>11, FS_Bijection DEF ExistsBijection
  <1>13. Cardinality(H) <= Cardinality(G) /\ Cardinality(G) <= Cardinality(H) + 1
    BY <1>7, PendingOne DEF H
  <1> QED
    BY <1>8, <1>9, <1>12, <1>13

\* The kinds of microblocks have all the counted ones between them.
LEMMA CountedKinds ==
    ASSUME TablesInv
    PROVE  SumFunction([k \in Types \X BOOLEAN |-> MicroblockCount(db, <<>>, k[1], k[2])])
              = Cardinality({m \in db.microblocks : m.hash \notin Uncounted})
  <1> DEFINE S == {m \in db.microblocks : m.hash \notin Uncounted}
             K == Types \X BOOLEAN
             f == [k \in K |-> MicroblockCount(db, <<>>, k[1], k[2])]
             key == [m \in S |-> <<m.type, m.height = 1>>]
  <1>1. IsFiniteSet(S)
    BY PendingOne
  <1>2. IsFiniteSet(K)
    <2>1. IsFiniteSet(BOOLEAN) /\ IsFiniteSet(Types)
      <3>1. BOOLEAN = {TRUE, FALSE}
        OBVIOUS
      <3>2. /\ IsFiniteSet({TRUE}) /\ IsFiniteSet({TRUE} \cup {FALSE})
        BY FS_Singleton, FS_AddElement
      <3>3. {TRUE} \cup {FALSE} = BOOLEAN
        BY <3>1
      <3>4. IsFiniteSet({"account"}) /\ IsFiniteSet({"account"} \cup {"node"})
        BY FS_Singleton, FS_AddElement
      <3>5. IsFiniteSet(({"account"} \cup {"node"}) \cup {"organization"})
        BY <3>4, FS_AddElement
      <3>6. IsFiniteSet((({"account"} \cup {"node"}) \cup {"organization"}) \cup {"application"})
        BY <3>5, FS_AddElement
      <3>7. IsFiniteSet(((({"account"} \cup {"node"}) \cup {"organization"}) \cup {"application"}) \cup {"protocol"})
        BY <3>6, FS_AddElement
      <3>8. Types = ((({"account"} \cup {"node"}) \cup {"organization"}) \cup {"application"}) \cup {"protocol"}
        BY DEF Types
      <3> QED
        BY <3>2, <3>3, <3>7, <3>8
    <2> QED
      BY <2>1, FS_Product
  <1>3. \A m \in S : key[m] \in K
    BY RowTypes
  <1>4. ASSUME NEW k \in K
        PROVE  f[k] = Cardinality(Fiber(S, key, k))
    <2>1. PICK t \in Types, g \in BOOLEAN : k = <<t, g>>
      OBVIOUS
    <2>2. f[k] = MicroblockCount(db, <<>>, t, g)
      BY <2>1
    <2>3. f[k] = Cardinality(OfType(db, Uncounted, t, g))
      BY <2>2, MicroblockCountIs
    <2>4. Fiber(S, key, k) = OfType(db, Uncounted, t, g)
      BY <2>1 DEF OfType, Fiber
    <2> QED
      BY <2>3, <2>4
  <1>5. SumFunction(f) = SumFunctionOnSet(f, K)
    BY DEF SumFunction
  <1> HIDE DEF S, K, key, f
  <1>6. SumFunctionOnSet(f, K) = Cardinality(S)
    BY <1>1, <1>2, <1>3, <1>4, Fibers
  <1> QED
    BY <1>5, <1>6 DEF f, K, S

LEMMA KindsCounted ==
    ASSUME TablesInv
    PROVE  LET counted == SumFunction([k \in Types \X BOOLEAN |-> MicroblockCount(db, <<>>, k[1], k[2])])
               rows == GasPrice(db, <<>>).microblocks
           IN  counted <= rows /\ rows <= counted + 1
  <1> DEFINE S == {m \in db.microblocks : m.hash \notin Uncounted}
             T == {m \in db.microblocks : m.hash \notin Pending}
  <1>1. /\ Cardinality(T) \in Nat /\ Cardinality(db.microblocks) \in Nat
        /\ Cardinality(db.microblocks) <= Cardinality(T) + 1
    BY PendingOne
  <1>2. IsFiniteSet(S) /\ S \in SUBSET db.microblocks /\ T \in SUBSET S
    BY PendingOne, UncountedPending
  <1>3. Cardinality(S) \in Nat /\ Cardinality(T) <= Cardinality(S)
    BY <1>2, FS_Subset, FS_CardinalityType
  <1>4. Cardinality(S) <= Cardinality(db.microblocks)
    BY <1>2, PendingOne, FS_Subset
  <1> QED
    BY <1>1, <1>3, <1>4, CountedKinds, ReadMicroblocks

\* The totals of the indexed blocks have their microblocks between them.
LEMMA TotalsOfBlocks ==
    ASSUME TablesInv
    PROVE  GasPrice(db, [height_lte |-> indexed]).microblocks
              = SumFunction([b \in Blocks(db, [height_lte |-> indexed]) |-> b.microblocks])
  <1> DEFINE S == {m \in db.microblocks : m.block <= indexed}
             K == {b \in db.blocks : b.height <= indexed}
             f == [b \in K |-> b.microblocks]
             key == [m \in S |-> CHOOSE b \in K : b.height = m.block]
  <1>1. Blocks(db, [height_lte |-> indexed]) = K
    BY DEF Blocks, Is, InRange, Given
  <1>2. IsFiniteSet(S)
    BY PendingOne
  <1>3. /\ {b.height : b \in db.blocks} = 1 .. TopBlock
        /\ \A b, c \in db.blocks : b.height = c.height => b = c
    BY DEF TablesInv, TInv, BlockRows, BlocksUpTo
  <1>4. IsFiniteSet(K)
    <2> DEFINE g == [b \in K |-> b.height]
    <2>1. g \in Injection(K, 1 .. TopBlock)
      BY <1>3 DEF Injection, IsInjective
    <2> HIDE DEF g, K
    <2> QED
      BY <2>1, FS_Injection, FS_Interval, RowTypes
  <1>5. ASSUME NEW m \in S PROVE key[m] \in K /\ key[m].height = m.block
    <2>1. m.block \in 1 .. TopBlock
      BY RowTypes
    <2>2. \E b \in K : b.height = m.block
      BY <1>3, <2>1
    <2> QED
      BY <2>2
  <1>6. ASSUME NEW b \in K
        PROVE  f[b] = Cardinality(Fiber(S, key, b))
    <2>1. f[b] = Cardinality(Own(db, b.height))
      BY DEF TablesInv, TInv, BlockTotals, Right
    <2>2. Fiber(S, key, b) = Own(db, b.height)
      <3>1. \A m \in db.microblocks : m.block = b.height => m \in S
        OBVIOUS
      <3>2. S \subseteq db.microblocks /\ b \in db.blocks /\ K \subseteq db.blocks
        OBVIOUS
      <3> HIDE DEF S, K, key
      <3>3. \A m \in S : key[m] = b <=> m.block = b.height
        BY <1>3, <1>5, <3>2
      <3> QED
        BY <3>1, <3>2, <3>3 DEF Own, Fiber
    <2> QED
      BY <2>1, <2>2
  <1>7. SumFunction(f) = SumFunctionOnSet(f, K)
    BY DEF SumFunction
  <1> HIDE DEF S, K, key, f
  <1>8. SumFunctionOnSet(f, K) = Cardinality(S)
    BY <1>2, <1>4, <1>5, <1>6, Fibers
  <1>9. GasPrice(db, [height_lte |-> indexed]).microblocks = Cardinality(S)
    BY ReadMicroblocks DEF S
  <1> QED
    BY <1>1, <1>7, <1>8, <1>9 DEF f

\* For any chain, any faults and at any moment of a transaction, the answers of different
\* endpoints differ by the microblock in process only (getChain(), getMicroblockStats(),
\* getGasPrice(), getBlocks()).
THEOREM CountsDifferByOne == SpecReads => []AnswersOrdered
  <1>1. TablesInv => AnswersOrdered
    BY TopOfBlocks, RowTypes, GenesisCounted, KindsCounted, TotalsOfBlocks DEF AnswersOrdered
  <1> QED
    BY <1>1, TablesInvariance, PTL

-----------------------------------------------------------------------------
(* Rows in an order *)

Below(S, before, r) == {s \in S : <<s, r>> \in before}
IsOrder(S, before) ==
    /\ \A r \in S : <<r, r>> \notin before
    /\ \A r, s \in S : r = s \/ <<r, s>> \in before \/ <<s, r>> \in before
    /\ \A r, s, t \in S : <<r, s>> \in before /\ <<s, t>> \in before => <<r, t>> \in before

\* A row has more rows below it than any of them.
LEMMA RanksGrow ==
    ASSUME NEW S, IsFiniteSet(S), NEW before, IsOrder(S, before), NEW r \in S, NEW s \in S,
           <<r, s>> \in before
    PROVE  Cardinality(Below(S, before, r)) < Cardinality(Below(S, before, s))
  <1> DEFINE A == Below(S, before, r)
             B == Below(S, before, s)
  <1>1. A \subseteq B /\ r \in B /\ r \notin A
    BY DEF Below, IsOrder
  <1>2. IsFiniteSet(B)
    BY FS_Subset DEF Below
  <1> HIDE DEF A, B
  <1>3. Cardinality(A) <= Cardinality(B) /\ Cardinality(A) # Cardinality(B)
    BY <1>1, <1>2, FS_Subset
  <1>4. IsFiniteSet(A)
    BY <1>1, <1>2, FS_Subset
  <1>5. Cardinality(A) \in Nat /\ Cardinality(B) \in Nat
    BY <1>2, <1>4, FS_CardinalityType
  <1> QED
    BY <1>3, <1>5 DEF A, B

\* The rows of a finite set come once each, and in order.
LEMMA Ordered ==
    ASSUME NEW S, IsFiniteSet(S), NEW before, IsOrder(S, before)
    PROVE  LET f == InOrder(S, before)
           IN  /\ Cardinality(S) \in Nat /\ f \in [1 .. Cardinality(S) -> S]
               /\ \A i \in 1 .. Cardinality(S) : Cardinality(Below(S, before, f[i])) = i - 1
               /\ \A r \in S : \E i \in 1 .. Cardinality(S) : f[i] = r
               /\ \A i, j \in 1 .. Cardinality(S) : i < j => <<f[i], f[j]>> \in before
  <1> DEFINE n == Cardinality(S)
             Rank(r) == Cardinality(Below(S, before, r))
             rank == [r \in S |-> Rank(r)]
             f == InOrder(S, before)
  <1>1. n \in Nat
    BY FS_CardinalityType
  <1>2. ASSUME NEW r \in S PROVE Rank(r) \in 0 .. n - 1
    <2>1. Below(S, before, r) \in SUBSET S /\ Below(S, before, r) # S
      BY DEF Below, IsOrder
    <2>2. Rank(r) <= n /\ Rank(r) # n /\ IsFiniteSet(Below(S, before, r))
      BY <2>1, FS_Subset
    <2>3. Rank(r) \in Nat
      BY <2>2, FS_CardinalityType
    <2> HIDE DEF n, Rank
    <2> QED
      BY <1>1, <2>2, <2>3
  <1>3. \A r, s \in S : <<r, s>> \in before => Rank(r) < Rank(s)
    BY RanksGrow
  <1> HIDE DEF n, Rank
  <1>4. \A r, s \in S : Rank(r) = Rank(s) => r = s
    <2> SUFFICES ASSUME NEW r \in S, NEW s \in S, r # s PROVE Rank(r) # Rank(s)
      OBVIOUS
    <2>1. <<r, s>> \in before \/ <<s, r>> \in before
      BY DEF IsOrder
    <2>2. Rank(r) \in Nat /\ Rank(s) \in Nat
      BY <1>1, <1>2
    <2>3. Rank(r) < Rank(s) \/ Rank(s) < Rank(r)
      BY <1>3, <2>1
    <2> QED
      BY <2>2, <2>3
  <1>5. rank \in Injection(S, 0 .. n - 1)
    BY <1>2, <1>4 DEF Injection, IsInjective
  <1>6. IsFiniteSet(0 .. n - 1) /\ Cardinality(0 .. n - 1) = n
    BY <1>1, FS_Interval
  <1>7. rank \in Surjection(S, 0 .. n - 1)
    <2> HIDE DEF rank
    <2>1. Cardinality(S) = Cardinality(0 .. n - 1)
      BY <1>6 DEF n
    <2> QED
      BY <1>5, <1>6, <2>1, FS_Injection
  <1>8. \A i \in 1 .. n : \E r \in S : Rank(r) = i - 1
    <2>1. \A k \in 0 .. n - 1 : \E r \in S : rank[r] = k
      BY <1>7 DEF Surjection
    <2>2. \A i \in 1 .. n : i - 1 \in 0 .. n - 1
      BY <1>1
    <2>3. \A r \in S : rank[r] = Rank(r)
      OBVIOUS
    <2> HIDE DEF rank
    <2> QED
      BY <2>1, <2>2, <2>3
  <1>9. f = [i \in 1 .. n |-> CHOOSE r \in S : Rank(r) = i - 1]
    BY DEF InOrder, n, Rank, Below
  <1>10. \A i \in 1 .. n : f[i] \in S /\ Rank(f[i]) = i - 1
    BY <1>8, <1>9
  <1>11. f \in [1 .. n -> S]
    BY <1>9, <1>10
  <1> HIDE DEF f
  <1>12. \A r \in S : \E i \in 1 .. n : f[i] = r
    <2> SUFFICES ASSUME NEW r \in S PROVE \E i \in 1 .. n : f[i] = r
      OBVIOUS
    <2>1. PICK k \in 0 .. n - 1 : k = Rank(r)
      BY <1>2
    <2>2. k + 1 \in 1 .. n /\ (k + 1) - 1 = k
      BY <1>1
    <2>3. Rank(f[k + 1]) = Rank(r) /\ f[k + 1] \in S
      BY <1>10, <2>1, <2>2
    <2> QED
      BY <1>4, <2>2, <2>3
  <1>13. ASSUME NEW i \in 1 .. n, NEW j \in 1 .. n, i < j
         PROVE  <<f[i], f[j]>> \in before
    <2>1. Rank(f[i]) = i - 1 /\ Rank(f[j]) = j - 1 /\ f[i] \in S /\ f[j] \in S
      BY <1>10
    <2>2. ~(Rank(f[j]) < Rank(f[i])) /\ Rank(f[i]) # Rank(f[j])
      BY <1>1, <1>13, <2>1
    <2> QED
      BY <1>3, <2>1, <2>2 DEF IsOrder
  <1> QED
    BY <1>1, <1>10, <1>11, <1>12, <1>13 DEF f, n, Rank

-----------------------------------------------------------------------------
(* Certificates *)

LEMMA SectionsFinite ==
    ASSUME TablesInv, NEW S, S \subseteq db.sections,
           \A r, s \in S : (r.microblock = s.microblock /\ r.index = s.index) => r = s
    PROVE  IsFiniteSet(S)
  <1> DEFINE At == [m \in Hashes |-> {m} \X DOMAIN Micro[m].sections]
             all == UNION {At[m] : m \in Hashes}
             f == [s \in S |-> <<s.microblock, s.index>>]
  <1>1. \A m \in Hashes : IsFiniteSet(At[m])
    BY ChainAssumption, FS_Singleton, FS_Product
  <1>2. IsFiniteSet({At[m] : m \in Hashes})
    <2> HIDE DEF At
    <2>1. DOMAIN At = Hashes
      BY DEF At
    <2> QED
      BY <2>1, ChainAssumption, Image
  <1>3. IsFiniteSet(all)
    <2> HIDE DEF At
    <2> QED
      BY <1>1, <1>2, FS_UNION
  <1>4. \A s \in S : s.microblock \in Hashes /\ s.index \in DOMAIN Micro[s.microblock].sections
    <2>1. \A s \in S : s.microblock \in Hashes
      BY Open DEF TablesInv, TypeInv, TypeOK, TablesType
    <2>2. \A s \in S : s.index \in Custom(s.microblock)
      BY DEF TablesInv, RInv, SectionsFollow, SectionsKept, OfSection
    <2> QED
      BY <2>1, <2>2 DEF Custom
  <1>5. f \in Injection(S, all)
    <2>1. \A s \in S : f[s] \in all
      BY <1>4
    <2>2. \A r, s \in S : f[r] = f[s] => r = s
      OBVIOUS
    <2> HIDE DEF all
    <2> QED
      BY <2>1, <2>2 DEF Injection, IsInjective
  <1> HIDE DEF f, all
  <1> QED
    BY <1>3, <1>5, FS_Injection

LEMMA SectionTypes ==
    ASSUME TablesInv
    PROVE  \A s \in db.sections :
              /\ s \in [microblock : Hashes, index : Nat, vb : Hashes, type : Types,
                        tag : Tags \ {Null}, height : Nat]
              /\ OfSection(s)
              /\ \E m \in db.microblocks : m.hash = s.microblock /\ m.vb = s.vb /\ m.height = s.height
  BY Open DEF TablesInv, TypeInv, TypeOK, TablesType, RInv, SectionsFollow, SectionsKept, IInv,
              Resolve, SectionsResolve

LEMMA CertificatesSorted ==
    ASSUME TablesInv, NEW v, NEW rows, \A s \in rows : s \in db.sections /\ s.vb = v
    PROVE  /\ IsFiniteSet(rows)
           /\ IsOrder(rows, {p \in rows \X rows : SectionOrder(p[1], p[2])})
  <1>1. ASSUME NEW r \in rows, NEW s \in rows, r.microblock = s.microblock, r.index = s.index
        PROVE  r = s
    <2>1. r.tag = s.tag /\ r.type = s.type /\ r.height = s.height /\ r.vb = s.vb
      BY <1>1, SectionTypes DEF OfSection
    <2> QED
      BY <1>1, <2>1, SectionTypes
  <1>2. IsFiniteSet(rows)
    BY <1>1, SectionsFinite
  <1>3. ASSUME NEW r \in rows, NEW s \in rows, r.height = s.height
        PROVE  r.microblock = s.microblock
    <2>1. PICK m \in db.microblocks : m.hash = r.microblock /\ m.vb = v /\ m.height = r.height
      BY SectionTypes
    <2>2. PICK k \in db.microblocks : k.hash = s.microblock /\ k.vb = v /\ k.height = s.height
      BY SectionTypes
    <2>3. m = k
      BY <1>3, <2>1, <2>2, Open DEF TablesInv, RowsInv, RowsLinked
    <2> QED
      BY <2>1, <2>2, <2>3
  <1>4. \A r \in rows : r.height \in Nat /\ r.index \in Nat
    BY SectionTypes
  <1>5. \A r, s \in rows :
           <<r, s>> \in {p \in rows \X rows : SectionOrder(p[1], p[2])} <=> SectionOrder(r, s)
    OBVIOUS
  <1>6. /\ \A r \in rows : ~SectionOrder(r, r)
        /\ \A r, s \in rows : r = s \/ SectionOrder(r, s) \/ SectionOrder(s, r)
        /\ \A r, s, t \in rows : SectionOrder(r, s) /\ SectionOrder(s, t) => SectionOrder(r, t)
    BY <1>1, <1>3, <1>4 DEF SectionOrder
  <1> QED
    BY <1>2, <1>5, <1>6 DEF IsOrder

\* A certificate of a committed microblock has its row, and the microblock is not the one
\* in process.
LEMMA CertifiedHasRow ==
    ASSUME TablesInv, NEW m \in saved.microblocks, NEW i \in DOMAIN Micro[m.hash].sections,
           Micro[m.hash].sections[i].kind = "CUSTOM", Micro[m.hash].sections[i].tag = "__cert__"
    PROVE  \E s \in db.sections : s.microblock = m.hash /\ s.index = i /\ s.vb = m.vb /\ s.tag = "__cert__"
  <1>1. TypeInv /\ RowsInv
    BY Open DEF TablesInv
  <1>2. m \in db.microblocks
    BY DEF TablesInv, TInv, ChainRows
  <1>3. PICK h \in Heights, k \in Nat : InBlock(m, h, k) /\ h <= indexed
    BY <1>1 DEF RowsInv, Located
  <1>4. m.hash \notin Unsaved
    <2> SUFFICES ASSUME at = "sections", m.hash = Mb PROVE FALSE
      BY DEF Unsaved
    <2>1. Height \in Heights /\ next \in DOMAIN Block[Height].micros /\ h # Height
      <3>1. next \in DOMAIN Now.micros
        BY <1>1, InProcess DEF Storing
      <3> QED
        BY <1>3, <3>1, Open, RowTypes DEF TablesInv, Now
    <2>2. Block[h].micros[k] = Block[Height].micros[next] /\ k \in DOMAIN Block[h].micros
      BY <1>3 DEF InBlock, Mb, Now
    <2> QED
      BY <2>1, <2>2, VirtualBlockchainAssumption
  <1>5. i \in Custom(m.hash)
    BY QueryAssumption DEF Custom
  <1>6. PICK s \in db.sections : s.microblock = m.hash /\ s.index = i /\ s.vb = m.vb
    BY <1>2, <1>4, <1>5 DEF TablesInv, RInv, SectionsFollow, SectionsKept
  <1> QED
    BY <1>6, SectionTypes DEF OfSection

\* For any chain, any faults and at any moment of a transaction, the certificates of an
\* organization are served without an error: those of the indexed blocks, in the order
\* of the chain (getOrganizationCertificates()).
THEOREM CertificatesAreServed == SpecReads => []CertificatesServed
  <1>1. TablesInv => CertificatesServed
    <2> SUFFICES ASSUME TablesInv, NEW v \in Objects(db, "organization")
                 PROVE  LET served == Certificates(db, v)
                        IN  /\ ~CertificatesFail(db, v)
                            /\ Certified(v) \subseteq {<<served[i].microblock, served[i].index>> : i \in DOMAIN served}
                            /\ \A i, j \in DOMAIN served : i < j => SectionOrder(served[i], served[j])
      BY DEF CertificatesServed
    <2> DEFINE rows == {s \in SectionRows(db, v, "__cert__") : Stored(s).value = "__jwt__"}
               before == {p \in rows \X rows : SectionOrder(p[1], p[2])}
               served == InOrder(rows, before)
    <2>1. ~CertificatesFail(db, v)
      <3>1. v \in Hashes /\ <<"organization", v>> \in db.rows
        BY DEF Objects
      <3>2. Typed(db, Undeclared)
        BY DEF TablesInv, RInv, TypesFollow
      <3>3. Micro[v].type = "organization"
        BY <3>1, <3>2 DEF Typed, ObjectTypes
      <3> SUFFICES ASSUME NEW s \in db.sections, s.vb = v, s.tag = "__cert__"
                   PROVE  /\ s.type = "organization"
                          /\ \E m \in db.microblocks : m.hash = s.microblock
                          /\ ~Invalid(s)
        BY DEF CertificatesFail, SectionRows
      <3>4. PICK m \in db.microblocks : m.hash = s.microblock /\ m.vb = v
        BY SectionTypes
      <3>5. m.type = "organization"
        BY <3>2, <3>3, <3>4 DEF Typed
      <3>6. m.type = Micro[m.hash].type
        BY DEF TablesInv, TInv, ChainRows, RowOfChain
      <3>7. OfSection(s)
        BY SectionTypes
      <3>8. s.type = "organization"
        BY <3>4, <3>5, <3>6, <3>7 DEF OfSection
      <3>9. ~Invalid(s)
        BY <3>7 DEF OfSection, Custom, Invalid, Stored
      <3> QED
        BY <3>4, <3>8, <3>9
    <2>2. Certificates(db, v) = served
      BY DEF Certificates
    <2>3. \A s \in rows : s \in db.sections /\ s.vb = v
      BY DEF SectionRows
    <2>4. IsFiniteSet(rows) /\ IsOrder(rows, before)
      <3> HIDE DEF rows
      <3> QED
        BY <2>3, CertificatesSorted
    <2>5. \A r, s \in rows : <<r, s>> \in before <=> SectionOrder(r, s)
      OBVIOUS
    <2>6. \A m \in saved.microblocks : \A i \in DOMAIN Micro[m.hash].sections :
             (/\ m.vb = v /\ Micro[m.hash].sections[i].kind = "CUSTOM"
              /\ Micro[m.hash].sections[i].tag = "__cert__" /\ Micro[m.hash].sections[i].value = "__jwt__")
                => \E s \in rows : s.microblock = m.hash /\ s.index = i
      BY CertifiedHasRow DEF SectionRows, Stored
    <2>7. \A c \in Certified(v) : \E s \in rows : c = <<s.microblock, s.index>>
      <3> HIDE DEF rows
      <3> QED
        BY <2>6 DEF Certified
    <2> HIDE DEF rows, before
    <2>8. /\ Cardinality(rows) \in Nat /\ served \in [1 .. Cardinality(rows) -> rows]
          /\ \A r \in rows : \E i \in 1 .. Cardinality(rows) : served[i] = r
          /\ \A i, j \in 1 .. Cardinality(rows) : i < j => <<served[i], served[j]>> \in before
      BY <2>4, Ordered
    <2> HIDE DEF served
    <2>9. DOMAIN served = 1 .. Cardinality(rows)
      BY <2>8
    <2>10. Certified(v) \subseteq {<<served[i].microblock, served[i].index>> : i \in DOMAIN served}
      BY <2>7, <2>8, <2>9
    <2>11. \A i, j \in DOMAIN served : i < j => SectionOrder(served[i], served[j])
      BY <2>5, <2>8, <2>9
    <2> QED
      BY <2>1, <2>2, <2>10, <2>11
  <1> QED
    BY <1>1, TablesInvariance, PTL

-----------------------------------------------------------------------------
(* The pages of blocks *)

LEMMA BlockHeights ==
    ASSUME TablesInv
    PROVE  /\ {b.height : b \in db.blocks} = 1 .. TopBlock
           /\ \A b, c \in db.blocks : b.height = c.height => b = c
           /\ \A b \in db.blocks : b.height \in Nat
  <1>1. /\ {b.height : b \in db.blocks} = 1 .. TopBlock
        /\ \A b, c \in db.blocks : b.height = c.height => b = c
    BY DEF TablesInv, TInv, BlockRows, BlocksUpTo
  <1>2. \A b \in db.blocks : b.height \in 1 .. TopBlock
    BY <1>1
  <1> QED
    BY <1>1, <1>2, RowTypes

LEMMA BlocksIn ==
    ASSUME TablesInv, NEW I, I \subseteq 1 .. TopBlock
    PROVE  LET S == {b \in db.blocks : b.height \in I}
           IN  IsFiniteSet(S) /\ Cardinality(S) = Cardinality(I)
  <1> DEFINE S == {b \in db.blocks : b.height \in I}
             f == [b \in S |-> b.height]
  <1>1. f \in Bijection(S, I)
    <2>1. \A b \in S : f[b] \in I
      OBVIOUS
    <2>2. \A b, c \in S : f[b] = f[c] => b = c
      BY BlockHeights
    <2>3. \A h \in I : \E b \in S : f[b] = h
      BY BlockHeights
    <2> HIDE DEF S
    <2> QED
      BY <2>1, <2>2, <2>3 DEF Bijection, Injection, Surjection, IsInjective
  <1>2. IsFiniteSet(I)
    <2>1. IsFiniteSet(1 .. TopBlock)
      <3>1. TopBlock \in Int
        BY RowTypes
      <3> QED
        BY <3>1, FS_Interval
    <2> QED
      BY <2>1, FS_Subset
  <1>3. ExistsBijection(I, S)
    BY <1>1, Fun_ExistsBijSymmetric DEF ExistsBijection
  <1> HIDE DEF S
  <1>4. IsFiniteSet(S) /\ Cardinality(S) = Cardinality(I)
    BY <1>2, <1>3, FS_Bijection
  <1> QED
    BY <1>4 DEF S

ByHeight(order) ==
    {p \in db.blocks \X db.blocks : IF order = "ASC" THEN p[1].height < p[2].height
                                                      ELSE p[2].height < p[1].height}
LEMMA ByHeightIs ==
    ASSUME TablesInv, NEW order
    PROVE  /\ IsOrder(db.blocks, ByHeight(order))
           /\ \A b, c \in db.blocks : <<b, c>> \in ByHeight(order)
                 <=> IF order = "ASC" THEN b.height < c.height ELSE c.height < b.height
  <1>1. \A b, c \in db.blocks : <<b, c>> \in ByHeight(order)
           <=> IF order = "ASC" THEN b.height < c.height ELSE c.height < b.height
    BY DEF ByHeight
  <1> QED
    BY <1>1, BlockHeights DEF IsOrder

\* Blocks sorted by height are the blocks from the first or from the last.
Position(order, h) == IF order = "ASC" THEN h ELSE TopBlock - h + 1
LEMMA BlocksSorted ==
    ASSUME TablesInv, NEW order
    PROVE  /\ Sorted(db.blocks, order) \in [1 .. TopBlock -> db.blocks]
           /\ \A i \in 1 .. TopBlock : Position(order, Sorted(db.blocks, order)[i].height) = i
  <1> DEFINE s == InOrder(db.blocks, ByHeight(order))
  <1>1. PICK n \in Nat : n = TopBlock
    BY RowTypes
  <1>2. IsFiniteSet(db.blocks) /\ Cardinality(db.blocks) = n
    <2>1. {b \in db.blocks : b.height \in 1 .. n} = db.blocks
      BY <1>1, BlockHeights
    <2>2. Cardinality(1 .. n) = n
      BY FS_Interval
    <2> QED
      BY <1>1, <2>1, <2>2, BlocksIn
  <1>3. Sorted(db.blocks, order) = s
    BY DEF Sorted, ByHeight
  <1>4. /\ s \in [1 .. n -> db.blocks]
        /\ \A i \in 1 .. n : Cardinality(Below(db.blocks, ByHeight(order), s[i])) = i - 1
    BY <1>2, ByHeightIs, Ordered
  <1> HIDE DEF s
  <1>5. ASSUME NEW i \in 1 .. n
        PROVE  Position(order, s[i].height) = i
    <2>1. PICK h \in 1 .. n : h = s[i].height
      BY <1>1, <1>4, BlockHeights
    <2>2. s[i] \in db.blocks
      BY <1>4
    <2>3. CASE order = "ASC"
      <3>1. Below(db.blocks, ByHeight(order), s[i]) = {b \in db.blocks : b.height \in 1 .. h - 1}
        <4>1. \A b \in db.blocks : b.height \in 1 .. h - 1 <=> b.height < h
          BY <1>1, <2>1, BlockHeights
        <4> QED
          BY <2>1, <2>2, <2>3, <4>1, ByHeightIs DEF Below
      <3>2. Cardinality({b \in db.blocks : b.height \in 1 .. h - 1}) = Cardinality(1 .. h - 1)
        <4>1. 1 .. h - 1 \subseteq 1 .. TopBlock
          BY <1>1
        <4> QED
          BY <4>1, BlocksIn
      <3>3. Cardinality(1 .. h - 1) = h - 1
        BY FS_Interval
      <3>4. h - 1 = i - 1
        BY <1>4, <3>1, <3>2, <3>3
      <3>5. h = i
        BY <3>4
      <3> QED
        BY <2>1, <2>3, <3>5 DEF Position
    <2>4. CASE order # "ASC"
      <3>1. Below(db.blocks, ByHeight(order), s[i]) = {b \in db.blocks : b.height \in h + 1 .. n}
        <4>1. \A b \in db.blocks : b.height \in h + 1 .. n <=> h < b.height
          BY <1>1, <2>1, BlockHeights
        <4> QED
          BY <2>1, <2>2, <2>4, <4>1, ByHeightIs DEF Below
      <3>2. Cardinality({b \in db.blocks : b.height \in h + 1 .. n}) = Cardinality(h + 1 .. n)
        <4>1. h + 1 .. n \subseteq 1 .. TopBlock
          BY <1>1
        <4> QED
          BY <4>1, BlocksIn
      <3>3. Cardinality(h + 1 .. n) = n - h
        <4>1. h + 1 \in Int /\ n \in Int /\ h <= n
          OBVIOUS
        <4>2. Cardinality(h + 1 .. n) = IF h + 1 > n THEN 0 ELSE n - (h + 1) + 1
          BY <4>1, FS_Interval
        <4> QED
          BY <4>1, <4>2
      <3>4. n - h = i - 1
        BY <1>4, <3>1, <3>2, <3>3
      <3> QED
        BY <1>1, <2>1, <2>4, <3>4 DEF Position
    <2> QED
      BY <2>3, <2>4
  <1> QED
    BY <1>1, <1>3, <1>4, <1>5

\* A page is the rows after the offset, up to the limit, and there are more when it does
\* not end with the last one.
\* The page f of at most l of the n rows of s, after the first o of them.
IsPage(f, s, R, n, o, l) ==
    /\ f.items \in Seq(R) /\ f.hasMore \in BOOLEAN
    /\ f.hasMore <=> o + l < n
    /\ f.hasMore => Len(f.items) = l
    /\ ~f.hasMore => Len(f.items) = IF o < n THEN n - o ELSE 0
    /\ \A i \in 1 .. Len(f.items) : o + i \in 1 .. n /\ f.items[i] = s[o + i]

LEMMA PageFound ==
    ASSUME NEW R, NEW rows, NEW order, NEW n \in Nat,
           Sorted(rows, order) \in Seq(R), Len(Sorted(rows, order)) = n,
           NEW o \in Nat, o <= MAX_OFFSET, NEW l \in Nat
    PROVE  IsPage(Found(rows, order, o, l), Sorted(rows, order), R, n, o, l)
  <1> DEFINE s == Sorted(rows, order)
             last == Lower(o + l + 1, n)
             taken == SubSeq(s, o + 1, last)
             k == Lower(l, Len(taken))
             items == SubSeq(taken, 1, k)
  <1>1. s \in Seq(R) /\ Len(s) = n
    OBVIOUS
  <1>2. MAX_OFFSET \in Nat /\ Skip(o) = o
    BY QueryAssumption DEF Skip, Lower
  <1>3. Found(rows, order, o, l) = [items |-> items, hasMore |-> HasMore(taken, l)]
    BY <1>1, <1>2 DEF Found
  <1> HIDE DEF s
  <1>4. last \in Nat /\ last <= n /\ (last = n \/ last = o + l + 1) /\ last <= o + l + 1
    BY DEF Lower
  <1> HIDE DEF last
  <1>5. \A i \in o + 1 .. last : i \in 1 .. n /\ s[i] \in R
    BY <1>1, <1>4
  <1>6. /\ taken \in Seq(R)
        /\ Len(taken) = IF o + 1 <= last THEN last - o ELSE 0
        /\ \A i \in 1 .. last - o : taken[i] = s[o + i]
    <2>1. /\ taken \in Seq(R)
          /\ Len(taken) = IF o + 1 <= last THEN last - (o + 1) + 1 ELSE 0
          /\ \A i \in 1 .. last - (o + 1) + 1 : taken[i] = s[(o + 1) + i - 1]
      <3>1. o + 1 \in Int /\ last \in Int
        BY <1>4
      <3> QED
        BY <1>5, <3>1, SubSeqProperties
    <2>2. last - (o + 1) + 1 = last - o /\ \A i \in Int : (o + 1) + i - 1 = o + i
      BY <1>4
    <2> QED
      BY <2>1, <2>2, <1>4
  <1> HIDE DEF taken
  <1>7. Len(taken) \in Nat
    BY <1>6
  <1>8. k \in Nat /\ k <= Len(taken) /\ k <= l /\ (k = l \/ k = Len(taken))
    BY <1>7 DEF Lower
  <1> HIDE DEF k
  <1>9. /\ items \in Seq(R) /\ Len(items) = k
        /\ \A i \in 1 .. k : items[i] = taken[i]
    <2>1. \A i \in 1 .. k : taken[i] \in R
      BY <1>6, <1>7, <1>8
    <2>2. /\ items \in Seq(R) /\ Len(items) = IF 1 <= k THEN k - 1 + 1 ELSE 0
          /\ \A i \in 1 .. k - 1 + 1 : items[i] = taken[1 + i - 1]
      BY <1>8, <2>1, SubSeqProperties
    <2>3. k - 1 + 1 = k /\ \A i \in Int : 1 + i - 1 = i
      BY <1>8
    <2> QED
      BY <1>8, <2>2, <2>3
  <1> HIDE DEF items
  <1>10. HasMore(taken, l) <=> o + l < n
    BY <1>4, <1>6 DEF HasMore, last, Lower
  <1>11. /\ o + l < n => k = l
         /\ ~(o + l < n) => k = IF o < n THEN n - o ELSE 0
    BY <1>4, <1>6 DEF k, last, Lower
  <1>12. ASSUME NEW i \in 1 .. k PROVE o + i \in 1 .. n /\ items[i] = s[o + i]
    <2>1. i \in 1 .. last - o /\ o + i \in o + 1 .. last
      BY <1>4, <1>6, <1>8
    <2> QED
      BY <1>5, <1>6, <1>9, <2>1
  <1>13. /\ Found(rows, order, o, l).items = items /\ Found(rows, order, o, l).hasMore = HasMore(taken, l)
         /\ HasMore(taken, l) \in BOOLEAN
    BY <1>3 DEF HasMore
  <1> QED
    BY <1>9, <1>10, <1>11, <1>12, <1>13 DEF s, IsPage

-----------------------------------------------------------------------------
(* What the client of a walk has received *)

\* What the client of a walk has received.
BlockRowType == [height : Heights, hour : Hours, microblocks : Nat, fees : Nat]
WalkTypes ==
    /\ walk \in [order : {"ASC", "DESC"}, limit : Nat, offset : Nat, more : BOOLEAN, floor : Nat,
                 rolledBack : BOOLEAN]
    /\ page \in Seq(BlockRowType)
    /\ seen \in Seq([row : BlockRowType, signatures : SUBSET (Heights \X Nat)])
    /\ walk.floor <= indexed
    /\ walk.limit = 0 => page = <<>> /\ seen = <<>>
ReceivedWhole ==
    /\ \A i \in DOMAIN page : page[i].height <= walk.floor => IsWhole(page[i])
    /\ \A i \in DOMAIN seen : seen[i].row.height <= walk.floor =>
          IsWhole(seen[i].row) /\ seen[i].signatures = SignaturesOf(seen[i].row.height)
InSequence ==
    walk.order = "ASC" =>
        /\ \A i \in DOMAIN seen : seen[i].row.height = i
        /\ \A i \in DOMAIN page : page[i].height = Len(seen) + i
        /\ walk.more => walk.offset = Len(seen) + Len(page)
        /\ ~walk.more => walk.floor <= Len(seen) + Len(page)
HasCome(h) == (\E i \in DOMAIN seen : seen[i].row.height = h) \/ \E i \in DOMAIN page : page[i].height = h
Passed ==
    (walk.order = "DESC" /\ ~walk.rolledBack) =>
        \A h \in 1 .. walk.floor : (walk.more => TopBlock - h + 1 <= walk.offset) => HasCome(h)
WInv == WalkTypes /\ ReceivedWhole /\ InSequence /\ Passed

LEMMA WalkInit == InitReads => WInv
  <1> SUFFICES ASSUME InitReads PROVE WInv
    OBVIOUS
  <1>1. walk = NoWalk /\ page = <<>> /\ seen = <<>> /\ indexed = 0
    BY DEF InitReads, Init
  <1>2. /\ walk.order = "ASC" /\ walk.more = FALSE /\ walk.floor = 0
    BY <1>1 DEF NoWalk
  <1>3. WalkTypes
    BY <1>1 DEF WalkTypes, NoWalk
  <1>4. ReceivedWhole
    BY <1>1 DEF ReceivedWhole
  <1>5. InSequence
    BY <1>1, <1>2 DEF InSequence
  <1>6. Passed
    BY <1>2 DEF Passed
  <1> QED
    BY <1>3, <1>4, <1>5, <1>6 DEF WInv

\* No block is taken back, but by a failure the one in process.
LEMMA Forward ==
    ASSUME TablesInv, [Next]_vars
    PROVE  indexed <= indexed' /\ (Fail \/ TopBlock <= TopBlock')
  <1>1. indexed \in Nat /\ Height = indexed + 1
    BY RowTypes
  <1>2. CASE CommitBlock
    BY <1>1, <1>2 DEF CommitBlock, TopBlock, Height
  <1>3. CASE Commit
    BY <1>1, <1>3 DEF Commit, TopBlock, Height
  <1>4. CASE Fail
    BY <1>1, <1>4 DEF Fail
  <1>5. CASE /\ at # "idle" /\ at' # "idle" /\ indexed' = indexed
    BY <1>1, <1>5 DEF TopBlock, Height
  <1>6. CASE UNCHANGED vars
    BY <1>1, <1>6 DEF vars, TopBlock, Height
  <1>7. (SyncModifiedAccounts \/ CommitRow \/ SaveCustomSections \/ SaveObject)
           => (at # "idle" /\ at' # "idle" /\ indexed' = indexed)
    BY DEF SyncModifiedAccounts, CommitRow, SaveCustomSections, SaveObject
  <1>8. (UpdateMicroblockStats \/ UpdateVirtualBlockchain \/ CommitBlockMicroblocksAndFees
             \/ SyncVotingPowers) => (at # "idle" /\ at' # "idle" /\ indexed' = indexed)
    BY DEF UpdateMicroblockStats, UpdateVirtualBlockchain, CommitBlockMicroblocksAndFees,
           SyncVotingPowers
  <1> QED
    BY <1>2, <1>3, <1>4, <1>5, <1>6, <1>7, <1>8 DEF Next

\* A step of the transaction leaves what the client has received.
LEMMA WalkTableStep ==
    ASSUME TablesInv, WInv, [Next]_vars, UNCHANGED <<page, seen>>,
           walk' = [walk EXCEPT !.rolledBack = walk'.rolledBack], walk'.rolledBack \in BOOLEAN,
           walk.rolledBack => walk'.rolledBack,
           (Fail /\ walk # NoWalk) => walk'.rolledBack
    PROVE  WInv'
  <1>1. /\ WalkTypes /\ ReceivedWhole /\ InSequence /\ Passed
    BY DEF WInv
  <1>2. /\ walk'.order = walk.order /\ walk'.limit = walk.limit /\ walk'.offset = walk.offset
        /\ walk'.more = walk.more /\ walk'.floor = walk.floor
        /\ walk' \in [order : {"ASC", "DESC"}, limit : Nat, offset : Nat, more : BOOLEAN, floor : Nat,
                      rolledBack : BOOLEAN]
    BY <1>1 DEF WalkTypes
  <1>3. walk.floor \in Nat /\ walk.offset \in Nat
    BY <1>1 DEF WalkTypes
  <1>4. indexed \in Nat /\ indexed' \in Nat /\ indexed <= indexed'
    <2>1. indexed' \in Nat
      BY InvNext, Open DEF TablesInv, IInv, TypeInv, TypeOK
    <2> QED
      BY <2>1, RowTypes, Forward
  <1>5. WalkTypes'
    BY <1>1, <1>2, <1>3, <1>4 DEF WalkTypes
  <1>6. ReceivedWhole'
    BY <1>1, <1>2 DEF ReceivedWhole
  <1>7. InSequence'
    BY <1>1, <1>2 DEF InSequence
  <1>8. Passed'
    <2> SUFFICES ASSUME walk'.order = "DESC", ~walk'.rolledBack, NEW h \in 1 .. walk.floor,
                        walk.more => TopBlock' - h + 1 <= walk.offset
                 PROVE  HasCome(h)
      BY <1>2 DEF Passed, HasCome
    <2>1. walk # NoWalk
      BY <1>2 DEF NoWalk
    <2>2. TopBlock <= TopBlock' /\ ~walk.rolledBack
      BY <2>1, Forward
    <2>3. TopBlock \in Nat /\ TopBlock' \in Nat /\ h \in Nat
      BY <1>3, <1>4, RowTypes DEF TopBlock, Height
    <2>4. walk.more => TopBlock - h + 1 <= walk.offset
      BY <1>3, <2>2, <2>3
    <2> QED
      BY <1>1, <1>2, <2>2, <2>4 DEF Passed
  <1> QED
    BY <1>5, <1>6, <1>7, <1>8 DEF WInv

LEMMA WalkStart ==
    ASSUME TablesInv, WInv, NEW order \in {"ASC", "DESC"}, NEW limit \in Limits, StartWalk(order, limit)
    PROVE  WInv'
  <1>1. /\ walk' = [order |-> order, limit |-> Limit(limit), offset |-> 0, more |-> TRUE,
                    floor |-> indexed, rolledBack |-> FALSE]
        /\ walk = NoWalk /\ UNCHANGED <<vars, page, seen>>
    BY DEF StartWalk
  <1>2. page' = <<>> /\ seen' = <<>> /\ indexed' = indexed
    BY <1>1 DEF WInv, WalkTypes, NoWalk, vars
  <1>3. Limit(limit) \in Nat /\ indexed \in Nat
    BY QueryAssumption, RowTypes DEF Limit, Lower
  <1>4. WalkTypes'
    BY <1>1, <1>2, <1>3 DEF WalkTypes
  <1>5. ReceivedWhole'
    BY <1>2 DEF ReceivedWhole
  <1>6. InSequence'
    BY <1>1, <1>2 DEF InSequence
  <1>7. Passed'
    <2>1. TopBlock' = TopBlock
      BY <1>1 DEF vars, TopBlock, Height
    <2>2. \A h \in 1 .. indexed : ~(TopBlock - h + 1 <= 0)
      BY RowTypes
    <2> QED
      BY <1>1, <1>2, <2>1, <2>2 DEF Passed
  <1> QED
    BY <1>4, <1>5, <1>6, <1>7 DEF WInv

\* The rows of a page, when it is read.
LEMMA Fetched ==
    ASSUME TablesInv, WInv, FetchPage
    PROVE  /\ page' \in Seq(db.blocks) /\ walk'.more \in BOOLEAN
           /\ walk' = [walk EXCEPT !.more = walk'.more, !.offset = walk.offset + walk.limit]
           /\ walk'.more <=> walk.offset + walk.limit < TopBlock
           /\ walk'.more => Len(page') = walk.limit
           /\ ~walk'.more => Len(page') = IF walk.offset < TopBlock THEN TopBlock - walk.offset ELSE 0
           /\ \A i \in 1 .. Len(page') : Position(walk.order, page'[i].height) = walk.offset + i
  <1>1. /\ walk \in [order : {"ASC", "DESC"}, limit : Nat, offset : Nat, more : BOOLEAN, floor : Nat,
                     rolledBack : BOOLEAN]
    BY DEF WInv, WalkTypes
  <1>2. PICK n \in Nat : n = TopBlock
    BY RowTypes
  <1> DEFINE s == Sorted(db.blocks, walk.order)
             found == Found(db.blocks, walk.order, walk.offset, walk.limit)
  <1>3. Blocks(db, [sort |-> "height", order |-> walk.order]) = db.blocks
    BY DEF Blocks, Is, InRange, Given
  <1>4. /\ page' = found.items /\ walk.offset <= MAX_OFFSET
        /\ walk' = [walk EXCEPT !.more = found.hasMore, !.offset = @ + walk.limit]
    BY <1>3 DEF FetchPage
  <1>5. /\ s \in [1 .. n -> db.blocks]
        /\ \A i \in 1 .. n : Position(walk.order, s[i].height) = i
    BY <1>2, BlocksSorted
  <1>6. /\ found.items \in Seq(db.blocks) /\ found.hasMore \in BOOLEAN
        /\ found.hasMore <=> walk.offset + walk.limit < n
        /\ found.hasMore => Len(found.items) = walk.limit
        /\ ~found.hasMore => Len(found.items) = IF walk.offset < n THEN n - walk.offset ELSE 0
        /\ \A i \in 1 .. Len(found.items) :
              walk.offset + i \in 1 .. n /\ found.items[i] = s[walk.offset + i]
    <2>1. walk.offset \in Nat /\ walk.limit \in Nat /\ walk.offset <= MAX_OFFSET
      BY <1>1, <1>4
    <2>2. s \in Seq(db.blocks) /\ Len(s) = n
      <3> HIDE DEF s
      <3>1. s \in Seq(db.blocks)
        BY <1>5
      <3> QED
        BY <1>5, <3>1, LenProperties
    <2>3. IsPage(found, s, db.blocks, n, walk.offset, walk.limit)
      BY <2>1, <2>2, PageFound
    <2> QED
      BY <2>3 DEF IsPage
  <1> HIDE DEF found, s
  <1>7. walk'.more = found.hasMore /\ walk' = [walk EXCEPT !.more = walk'.more, !.offset = walk.offset + walk.limit]
    BY <1>1, <1>4
  <1>8. \A i \in 1 .. Len(page') : Position(walk.order, page'[i].height) = walk.offset + i
    BY <1>4, <1>5, <1>6
  <1> QED
    BY <1>2, <1>4, <1>6, <1>7, <1>8

LEMMA WalkFetch ==
    ASSUME TablesInv, WInv, FetchPage
    PROVE  WInv'
  <1>1. /\ WalkTypes /\ ReceivedWhole /\ InSequence /\ Passed
    BY DEF WInv
  <1>2. /\ page = <<>> /\ walk.more /\ UNCHANGED <<vars, seen>>
    BY DEF FetchPage
  <1> DEFINE o == walk.offset
             l == walk.limit
  <1>3. PICK n \in Nat : n = TopBlock
    BY RowTypes
  <1>4. /\ o \in Nat /\ l \in Nat /\ walk.floor \in Nat /\ walk.floor <= indexed /\ indexed <= n
        /\ indexed \in Nat /\ Len(seen) \in Nat
    BY <1>1, <1>3, RowTypes DEF WalkTypes
  <1>5. /\ page' \in Seq(db.blocks) /\ walk'.more \in BOOLEAN
        /\ walk' = [walk EXCEPT !.more = walk'.more, !.offset = o + l]
        /\ walk'.more <=> o + l < n
        /\ walk'.more => Len(page') = l
        /\ ~walk'.more => Len(page') = IF o < n THEN n - o ELSE 0
        /\ \A i \in 1 .. Len(page') : Position(walk.order, page'[i].height) = o + i
    BY <1>3, Fetched
  <1>6. /\ walk'.order = walk.order /\ walk'.limit = l /\ walk'.offset = o + l
        /\ walk'.floor = walk.floor /\ walk'.rolledBack = walk.rolledBack
        /\ walk' \in [order : {"ASC", "DESC"}, limit : Nat, offset : Nat, more : BOOLEAN, floor : Nat,
                      rolledBack : BOOLEAN]
    <2>1. walk \in [order : {"ASC", "DESC"}, limit : Nat, offset : Nat, more : BOOLEAN, floor : Nat,
                    rolledBack : BOOLEAN]
      BY <1>1 DEF WalkTypes
    <2>2. walk'.more \in BOOLEAN /\ o + l \in Nat
      BY <1>4, <1>5
    <2> HIDE DEF o, l
    <2>3. [walk EXCEPT !.more = walk'.more, !.offset = o + l]
             \in [order : {"ASC", "DESC"}, limit : Nat, offset : Nat, more : BOOLEAN, floor : Nat,
                  rolledBack : BOOLEAN]
      BY <2>1, <2>2
    <2>4. /\ walk'.order = walk.order /\ walk'.limit = walk.limit /\ walk'.offset = o + l
          /\ walk'.floor = walk.floor /\ walk'.rolledBack = walk.rolledBack
      BY <1>5, <2>1
    <2> QED
      BY <1>5, <2>3, <2>4 DEF l
  <1> HIDE DEF o, l
  <1>7. /\ DOMAIN page' = 1 .. Len(page') /\ Len(page') \in Nat
        /\ \A i \in 1 .. Len(page') : page'[i] \in db.blocks
    BY <1>5, LenProperties, ElementOfSeq
  <1>8. indexed' = indexed /\ TopBlock' = TopBlock
    BY <1>2 DEF vars, TopBlock, Height
  <1>9. WalkTypes'
    <2>1. db.blocks \subseteq BlockRowType
      BY Open DEF TablesInv, TypeInv, TypeOK, TablesType, BlockRowType
    <2>2. page' \in Seq(BlockRowType)
      BY <1>5, <2>1, SeqMonotonic
    <2>3. walk'.limit = 0 => page' = <<>> /\ seen' = <<>>
      <3> SUFFICES ASSUME l = 0 PROVE page' = <<>> /\ seen' = <<>>
        BY <1>6
      <3>1. Len(page') = 0
        BY <1>4, <1>5
      <3>2. page' = <<>>
        BY <1>5, <3>1, EmptySeq
      <3> QED
        BY <1>1, <1>2, <3>2 DEF WalkTypes, l
    <2> QED
      BY <1>1, <1>2, <1>4, <1>6, <1>8, <2>2, <2>3 DEF WalkTypes
  <1>10. ReceivedWhole'
    <2>1. ASSUME NEW i \in 1 .. Len(page'), page'[i].height <= walk.floor PROVE IsWhole(page'[i])
      <3>1. page'[i] \in db.blocks /\ page'[i].height \in Nat
        BY <1>7, BlockHeights
      <3>2. page'[i].height <= indexed
        BY <1>4, <2>1, <3>1
      <3> QED
        BY <3>1, <3>2 DEF TablesInv, RInv, BlocksWhole
    <2> QED
      BY <1>1, <1>2, <1>6, <1>7, <2>1 DEF ReceivedWhole
  <1>11. InSequence'
    <2> SUFFICES ASSUME walk.order = "ASC"
                 PROVE  /\ \A i \in DOMAIN seen : seen[i].row.height = i
                        /\ \A i \in 1 .. Len(page') : page'[i].height = Len(seen) + i
                        /\ walk'.more => o + l = Len(seen) + Len(page')
                        /\ ~walk'.more => walk.floor <= Len(seen) + Len(page')
      BY <1>2, <1>6, <1>7 DEF InSequence
    <2>1. o = Len(seen)
      <3>1. o = Len(seen) + Len(page)
        BY <1>1, <1>2 DEF InSequence, o
      <3>2. Len(page) = 0
        BY <1>2
      <3> QED
        BY <1>4, <3>1, <3>2
    <2>2. \A i \in 1 .. Len(page') : page'[i].height = o + i
      BY <1>5 DEF Position
    <2>3. ~walk'.more => walk.floor <= o + Len(page')
      BY <1>4, <1>5
    <2> QED
      BY <1>1, <1>5, <2>1, <2>2, <2>3 DEF InSequence
  <1>12. Passed'
    <2> SUFFICES ASSUME walk.order = "DESC", ~walk.rolledBack, NEW h \in 1 .. walk.floor,
                        walk'.more => n - h + 1 <= o + l
                 PROVE  HasCome(h)'
      BY <1>3, <1>6, <1>8 DEF Passed
    <2>1. h \in Nat /\ n - h + 1 \in Nat /\ n - h + 1 <= n
      BY <1>4
    <2>2. CASE n - h + 1 <= o
      <3>1. HasCome(h)
        BY <1>1, <1>2, <1>3, <2>2 DEF Passed, o
      <3>2. \E i \in DOMAIN seen : seen[i].row.height = h
        BY <1>2, <3>1 DEF HasCome
      <3> QED
        BY <1>2, <3>2 DEF HasCome
    <2>3. CASE ~(n - h + 1 <= o)
      <3> DEFINE i == n - h + 1 - o
      <3>1. i \in 1 .. Len(page') /\ o + i = n - h + 1
        <4>1. CASE walk'.more
          BY <1>4, <1>5, <1>7, <2>1, <2>3, <4>1
        <4>2. CASE ~walk'.more
          <5>1. o < n
            BY <1>4, <2>1, <2>3
          <5>2. Len(page') = n - o
            BY <1>5, <4>2, <5>1
          <5> QED
            BY <1>4, <2>1, <2>3, <5>2
        <4> QED
          BY <4>1, <4>2
      <3>2. Position(walk.order, page'[i].height) = n - h + 1
        BY <1>5, <3>1
      <3>3. page'[i].height \in Nat
        BY <1>7, <3>1, BlockHeights
      <3> HIDE DEF i
      <3>4. page'[i].height = h
        BY <1>3, <2>1, <3>2, <3>3 DEF Position
      <3> QED
        BY <1>7, <3>1, <3>4 DEF HasCome
    <2> QED
      BY <2>2, <2>3
  <1> QED
    BY <1>9, <1>10, <1>11, <1>12 DEF WInv

\* The signatures of an indexed block are those of the chain.
LEMMA SignaturesAre ==
    ASSUME TablesInv, NEW h \in 1 .. TopBlock
    PROVE  {s \in db.signatures : s[1] = h} = SignaturesOf(h)
  <1>1. db.signatures = UNION {SignaturesOf(k) : k \in 1 .. TopBlock}
    BY DEF TablesInv, RInv, BlocksWhole, SignaturesUpTo
  <1>2. \A k : \A s \in SignaturesOf(k) : s[1] = k
    BY DEF SignaturesOf
  <1> QED
    BY <1>1, <1>2

LEMMA WalkRead ==
    ASSUME TablesInv, WInv, ReadSignatures
    PROVE  WInv'
  <1>1. /\ WalkTypes /\ ReceivedWhole /\ InSequence /\ Passed
    BY DEF WInv
  <1> DEFINE r == page[1]
             item == [row |-> r, signatures |-> {s \in db.signatures : s[1] = r.height}]
             Item == [row : BlockRowType, signatures : SUBSET (Heights \X Nat)]
  <1>2. /\ page # <<>> /\ UNCHANGED <<vars, walk>> /\ page' = Tail(page)
        /\ seen' = Append(seen, item)
    <2>0. page \in Seq(BlockRowType) /\ page # <<>>
      BY <1>1 DEF WalkTypes, ReadSignatures
    <2>1. Head(page) = r
      BY <2>0
    <2> QED
      BY <2>1 DEF ReadSignatures
  <1>3. page \in Seq(BlockRowType) /\ seen \in Seq(Item)
    BY <1>1 DEF WalkTypes
  <1>4. r \in BlockRowType /\ item \in Item
    <2>1. r \in BlockRowType
      BY <1>2, <1>3, HeadTailProperties
    <2>2. db.signatures \subseteq Heights \X Nat
      BY Open DEF TablesInv, TypeInv, TypeOK, TablesType
    <2> QED
      BY <2>1, <2>2
  <1>5. item.row = r /\ item.signatures = {s \in db.signatures : s[1] = r.height}
    OBVIOUS
  <1> HIDE DEF item, r
  <1>6. /\ page' \in Seq(BlockRowType) /\ Len(page') = Len(page) - 1
        /\ Len(page) \in Nat /\ Len(page) # 0 /\ 1 \in DOMAIN page
        /\ DOMAIN page = 1 .. Len(page) /\ DOMAIN page' = 1 .. Len(page) - 1
        /\ \A i \in 1 .. Len(page) - 1 : page'[i] = page[i + 1]
    <2>1. Len(page) \in Nat /\ Len(page) # 0
      BY <1>2, <1>3, EmptySeq, LenProperties
    <2>2. page' \in Seq(BlockRowType) /\ Len(page') = Len(page) - 1
          /\ \A i \in 1 .. Len(page') : page'[i] = page[i + 1]
      BY <1>2, <1>3, HeadTailProperties
    <2>3. DOMAIN page = 1 .. Len(page) /\ DOMAIN page' = 1 .. Len(page')
      BY <1>3, <2>2, LenProperties
    <2> QED
      BY <2>1, <2>2, <2>3
  <1>7. /\ seen' \in Seq(Item) /\ Len(seen') = Len(seen) + 1 /\ Len(seen) \in Nat
        /\ DOMAIN seen = 1 .. Len(seen) /\ DOMAIN seen' = 1 .. Len(seen) + 1
        /\ \A i \in 1 .. Len(seen) : seen'[i] = seen[i]
        /\ seen'[Len(seen) + 1] = item
    <2>1. /\ seen' \in Seq(Item) /\ Len(seen') = Len(seen) + 1
          /\ \A i \in 1 .. Len(seen) : seen'[i] = seen[i]
          /\ seen'[Len(seen) + 1] = item
      BY <1>2, <1>3, <1>4, AppendProperties
    <2>2. Len(seen) \in Nat /\ DOMAIN seen = 1 .. Len(seen) /\ DOMAIN seen' = 1 .. Len(seen')
      BY <1>3, <2>1, LenProperties
    <2> QED
      BY <2>1, <2>2
  <1>8. indexed' = indexed /\ TopBlock' = TopBlock /\ walk' = walk
    BY <1>2 DEF vars, TopBlock, Height
  <1>9. WalkTypes'
    BY <1>1, <1>2, <1>6, <1>7, <1>8 DEF WalkTypes
  <1>10. ReceivedWhole'
    <2>1. ASSUME r.height <= walk.floor
          PROVE  IsWhole(r) /\ item.signatures = SignaturesOf(r.height)
      <3>1. IsWhole(r)
        BY <1>1, <1>6, <2>1 DEF ReceivedWhole, r
      <3>2. r.height \in 1 .. TopBlock
        <4>1. r.height \in Nat \ {0}
          BY <1>4, Constants DEF BlockRowType, Heights
        <4>2. walk.floor \in Nat /\ walk.floor <= indexed
          BY <1>1 DEF WalkTypes
        <4> QED
          BY <2>1, <4>1, <4>2, RowTypes
      <3> QED
        BY <1>5, <3>1, <3>2, SignaturesAre
    <2>2. ASSUME NEW i \in DOMAIN page', page'[i].height <= walk.floor PROVE IsWhole(page'[i])
      BY <1>1, <1>6, <2>2 DEF ReceivedWhole
    <2>3. ASSUME NEW i \in DOMAIN seen', seen'[i].row.height <= walk.floor
          PROVE  IsWhole(seen'[i].row) /\ seen'[i].signatures = SignaturesOf(seen'[i].row.height)
      <3>1. CASE i = Len(seen) + 1
        BY <1>5, <1>7, <2>1, <2>3, <3>1
      <3>2. CASE i # Len(seen) + 1
        <4>1. i \in DOMAIN seen /\ seen'[i] = seen[i]
          BY <1>7, <3>2
        <4> QED
          BY <1>1, <2>3, <4>1 DEF ReceivedWhole
      <3> QED
        BY <3>1, <3>2
    <2> QED
      BY <1>8, <2>2, <2>3 DEF ReceivedWhole
  <1>11. InSequence'
    <2> SUFFICES ASSUME walk.order = "ASC"
                 PROVE  /\ \A i \in DOMAIN seen' : seen'[i].row.height = i
                        /\ \A i \in DOMAIN page' : page'[i].height = Len(seen') + i
                        /\ walk.more => walk.offset = Len(seen') + Len(page')
                        /\ ~walk.more => walk.floor <= Len(seen') + Len(page')
      BY <1>8 DEF InSequence
    <2>1. r.height = Len(seen) + 1
      BY <1>1, <1>6 DEF InSequence, r
    <2>2. \A i \in DOMAIN seen' : seen'[i].row.height = i
      BY <1>1, <1>5, <1>7, <2>1 DEF InSequence
    <2>3. ASSUME NEW i \in DOMAIN page' PROVE page'[i].height = Len(seen') + i
      <3>1. i \in Nat /\ i + 1 \in DOMAIN page /\ page'[i] = page[i + 1]
        BY <1>6
      <3>2. page[i + 1].height = Len(seen) + (i + 1)
        BY <1>1, <3>1 DEF InSequence
      <3> QED
        BY <1>7, <3>1, <3>2
    <2>4. Len(seen') + Len(page') = Len(seen) + Len(page)
      BY <1>6, <1>7
    <2> QED
      BY <1>1, <2>2, <2>3, <2>4 DEF InSequence
  <1>12. Passed'
    <2>1. ASSUME NEW h, HasCome(h) PROVE HasCome(h)'
      <3>1. CASE \E i \in DOMAIN seen : seen[i].row.height = h
        <4>1. PICK i \in DOMAIN seen : seen[i].row.height = h
          BY <3>1
        <4>2. i \in DOMAIN seen' /\ seen'[i] = seen[i]
          BY <1>7
        <4> QED
          BY <4>1, <4>2 DEF HasCome
      <3>2. CASE \E i \in DOMAIN page : page[i].height = h
        <4>1. PICK i \in DOMAIN page : page[i].height = h
          BY <3>2
        <4>2. CASE i = 1
          <5>1. Len(seen) + 1 \in DOMAIN seen' /\ seen'[Len(seen) + 1].row.height = h
            BY <1>5, <1>7, <4>1, <4>2 DEF r
          <5> QED
            BY <5>1 DEF HasCome
        <4>3. CASE i # 1
          <5>1. i - 1 \in DOMAIN page' /\ page'[i - 1] = page[i]
            BY <1>6, <4>3
          <5> QED
            BY <4>1, <5>1 DEF HasCome
        <4> QED
          BY <4>2, <4>3
      <3> QED
        BY <2>1, <3>1, <3>2 DEF HasCome
    <2> QED
      BY <1>1, <1>8, <2>1 DEF Passed
  <1> QED
    BY <1>9, <1>10, <1>11, <1>12 DEF WInv

LEMMA WalkNext == TablesInv /\ WInv /\ [NextReads]_allVars => WInv'
  <1> SUFFICES ASSUME TablesInv, WInv, [NextReads]_allVars PROVE WInv'
    OBVIOUS
  <1>1. walk = [walk EXCEPT !.rolledBack = walk.rolledBack] /\ walk.rolledBack \in BOOLEAN
    BY DEF WInv, WalkTypes
  <1>2. CASE TableStep
    <2>1. Next /\ UNCHANGED <<page, seen>>
      BY <1>2 DEF TableStep
    <2>2. CASE walk # NoWalk /\ Fail
      <3>1. walk' = [walk EXCEPT !.rolledBack = TRUE]
        BY <1>2, <2>2 DEF TableStep
      <3>2. walk'.rolledBack = TRUE
        BY <3>1 DEF WInv, WalkTypes
      <3> QED
        BY <2>1, <3>1, <3>2, WalkTableStep
    <2>3. CASE ~(walk # NoWalk /\ Fail)
      <3>1. walk' = walk
        BY <1>2, <2>3 DEF TableStep
      <3> QED
        BY <1>1, <2>1, <2>3, <3>1, WalkTableStep
    <2> QED
      BY <2>2, <2>3
  <1>3. CASE \E order \in {"ASC", "DESC"}, limit \in Limits : StartWalk(order, limit)
    BY <1>3, WalkStart
  <1>4. CASE FetchPage
    BY <1>4, WalkFetch
  <1>5. CASE ReadSignatures
    BY <1>5, WalkRead
  <1>6. CASE UNCHANGED allVars
    <2>1. UNCHANGED <<vars, page, seen>> /\ walk' = walk
      BY <1>6 DEF allVars, readVars
    <2>2. TopBlock' = TopBlock /\ indexed' = indexed
      BY <2>1 DEF vars, TopBlock, Height
    <2>3. WalkTypes' /\ ReceivedWhole' /\ InSequence'
      BY <2>1, <2>2 DEF WInv, WalkTypes, ReceivedWhole, InSequence
    <2>4. Passed'
      BY <2>1, <2>2 DEF WInv, Passed, HasCome
    <2> QED
      BY <2>3, <2>4 DEF WInv
  <1> QED
    BY <1>2, <1>3, <1>4, <1>5, <1>6 DEF NextReads

LEMMA WalkInvariance == SpecReads => [](TablesInv /\ WInv)
  <1>1. InitReads => WInv
    BY WalkInit
  <1>2. TablesInv /\ WInv /\ [NextReads]_allVars => WInv'
    BY WalkNext
  <1> QED
    BY <1>1, <1>2, TablesInvariance, PTL DEF SpecReads

\* A block that was indexed when the walk started comes with all its signatures.
LEMMA ReceivedIsWhole ==
    ASSUME TablesInv, WInv, NEW i \in DOMAIN seen, seen[i].row.height <= walk.floor
    PROVE  Whole(seen[i])
  <1> DEFINE h == seen[i].row.height
             signers == Block[h].signers
  <1>1. IsWhole(seen[i].row) /\ seen[i].signatures = SignaturesOf(h)
    BY DEF WInv, ReceivedWhole
  <1>2. h \in Heights
    <2>1. seen \in Seq([row : BlockRowType, signatures : SUBSET (Heights \X Nat)])
      BY DEF WInv, WalkTypes
    <2> DEFINE Item == [row : BlockRowType, signatures : SUBSET (Heights \X Nat)]
    <2>2. seen[i] \in Item
      <3> HIDE DEF Item
      <3>1. seen \in Seq(Item)
        BY <2>1 DEF Item
      <3> QED
        BY <3>1
    <2> QED
      BY <2>2 DEF BlockRowType
  <1>3. signers \in Seq([address : Addresses, flag : Nat])
    BY <1>2, Constants
  <1>4. DOMAIN signers = 1 .. Len(signers) /\ Len(signers) \in Nat
    BY <1>3, LenProperties
  <1> HIDE DEF h, signers
  <1>5. Cardinality({<<h, k>> : k \in DOMAIN signers}) = Len(signers)
    <2> DEFINE T == {<<h, k>> : k \in DOMAIN signers}
               f == [k \in 1 .. Len(signers) |-> <<h, k>>]
    <2>1. f \in Bijection(1 .. Len(signers), T)
      BY <1>4 DEF Bijection, Injection, Surjection, IsInjective
    <2>2. IsFiniteSet(1 .. Len(signers)) /\ Cardinality(1 .. Len(signers)) = Len(signers)
      BY <1>4, FS_Interval
    <2> HIDE DEF f, T
    <2>3. Cardinality(T) = Cardinality(1 .. Len(signers))
      BY <2>1, <2>2, FS_Bijection DEF ExistsBijection
    <2> QED
      BY <2>2, <2>3 DEF T
  <1>6. Cardinality(SignaturesOf(h)) = IF Block[h].commit THEN Len(Block[h].signers) ELSE 0
    <2>1. CASE Block[h].commit
      BY <1>5, <2>1 DEF SignaturesOf, signers
    <2>2. CASE ~Block[h].commit
      BY <2>2, FS_EmptySet DEF SignaturesOf
    <2> QED
      BY <2>1, <2>2
  <1> QED
    BY <1>1, <1>6 DEF Whole, IsWhole, h

\* For any chain, any faults, any limits and any interleaving of the requests with the
\* transactions, a walk over the blocks in ascending order gets every block once and in
\* order; in descending order it gets every block there was when it started, unless a block
\* is rolled back meanwhile; and those blocks come complete (getBlocks(), find()).
THEOREM WalksAreExact == SpecReads => []WalkExact
  <1>1. TablesInv /\ WInv => WalkExact
    <2> SUFFICES ASSUME TablesInv, WInv PROVE WalkExact
      OBVIOUS
    <2> DEFINE heights == {seen[i].row.height : i \in DOMAIN seen}
    <2>1. walk.order = "ASC" => \A i \in DOMAIN seen : seen[i].row.height = i
      BY DEF WInv, InSequence
    <2>2. ASSUME ~walk.more, page = <<>>, walk.order = "ASC" \/ ~walk.rolledBack,
                 NEW h \in 1 .. walk.floor
          PROVE  h \in heights
      <3>1. walk.order \in {"ASC", "DESC"} /\ walk.floor \in Nat
        BY DEF WInv, WalkTypes
      <3>2. CASE walk.order = "ASC"
        <4>1. walk.floor <= Len(seen) + Len(page)
          BY <2>2, <3>2 DEF WInv, InSequence
        <4>2. Len(page) = 0 /\ Len(seen) \in Nat /\ DOMAIN seen = 1 .. Len(seen)
          BY <2>2, LenProperties DEF WInv, WalkTypes
        <4>3. h \in DOMAIN seen
          BY <3>1, <4>1, <4>2
        <4> QED
          BY <2>1, <3>2, <4>3
      <3>3. CASE walk.order = "DESC"
        <4>1. HasCome(h)
          BY <2>2, <3>3 DEF WInv, Passed
        <4> QED
          BY <2>2, <4>1 DEF HasCome
      <3> QED
        BY <3>1, <3>2, <3>3
    <2>3. (~walk.more /\ page = <<>> /\ (walk.order = "ASC" \/ ~walk.rolledBack))
             => 1 .. walk.floor \subseteq heights
      BY <2>2
    <2>4. \A i \in DOMAIN seen : seen[i].row.height <= walk.floor => Whole(seen[i])
      BY ReceivedIsWhole
    <2> QED
      BY <2>1, <2>3, <2>4 DEF WalkExact
  <1> QED
    BY <1>1, WalkInvariance, PTL
-----------------------------------------------------------------------------
(* Hours in ticks *)

Tick(h) == HourTicks * h

LEMMA Ticks ==
    /\ \A h \in Int : Tick(h) \in Int /\ Tick(h + 1) = Tick(h) + HourTicks
    /\ \A h, k \in Int : (Tick(h) < Tick(k) <=> h < k) /\ (Tick(h) <= Tick(k) <=> h <= k)
    /\ \A h, k \in Int : h < k => Tick(h) + HourTicks <= Tick(k)
    /\ \A h, k \in Int : Tick(h) - Tick(k) = Tick(h - k) /\ Tick(h) + Tick(k) = Tick(h + k)
    /\ HourTicks \in Nat \ {0}
  <1>1. HourTicks \in Nat \ {0}
    BY QueryAssumption
  <1>2. \A h \in Int : Tick(h) \in Int /\ Tick(h + 1) = Tick(h) + HourTicks
    BY <1>1 DEF Tick
  <1>3. \A h, k \in Int : h < k => Tick(h + 1) <= Tick(k)
    BY <1>1 DEF Tick
  <1>4. \A h, k \in Int : Tick(h) - Tick(k) = Tick(h - k) /\ Tick(h) + Tick(k) = Tick(h + k)
    BY <1>1 DEF Tick
  <1>5. ASSUME NEW h \in Int, NEW k \in Int
        PROVE  /\ Tick(h) < Tick(k) <=> h < k
               /\ Tick(h) <= Tick(k) <=> h <= k
               /\ h < k => Tick(h) + HourTicks <= Tick(k)
    <2>1. /\ Tick(h) \in Int /\ Tick(k) \in Int
          /\ Tick(h + 1) = Tick(h) + HourTicks /\ Tick(k + 1) = Tick(k) + HourTicks
          /\ h < k => Tick(h + 1) <= Tick(k)
          /\ k < h => Tick(k + 1) <= Tick(h)
      BY <1>2, <1>3
    <2> QED
      BY <1>1, <2>1
  <1> QED
    BY <1>1, <1>2, <1>4, <1>5

LEMMA TickHour ==
    ASSUME NEW h \in Int
    PROVE  Tick(h) \div HourTicks = h /\ Tick(h) % HourTicks = 0
  BY QueryAssumption DEF Tick

LEMMA WholeHour ==
    ASSUME NEW t \in Int, t % HourTicks = 0
    PROVE  t \div HourTicks \in Int /\ t = Tick(t \div HourTicks)
  BY QueryAssumption DEF Tick

LEMMA Rounded ==
    ASSUME NEW t \in Int
    PROVE  t \div HourTicks \in Int /\ RoundToHour(t) = Tick(t \div HourTicks)
  BY QueryAssumption DEF Tick, RoundToHour

-----------------------------------------------------------------------------
(* The reward of a period *)

\* The hours with a block of node n whose first tick is from a on and before b.
UpHours(d, n, a, b) == {h \in Hours : a <= Tick(h) /\ Tick(h) < b /\ d.valStats[<<n, h>>].proposed > 0}
Reward(h, power, end) == (Lower(Tick(h + 1), end) - Tick(h)) * power

LEMMA UpHoursFinite == \A d, n, a, b : IsFiniteSet(UpHours(d, n, a, b)) /\ UpHours(d, n, a, b) \subseteq Hours
  BY HoursFinite, FS_Subset DEF UpHours

LEMMA RewardNat ==
    ASSUME NEW h \in Int, NEW power \in Nat, NEW end \in Int, Tick(h) < end
    PROVE  Reward(h, power, end) \in Nat
  <1>1. Lower(Tick(h + 1), end) - Tick(h) \in Nat
    <2>1. Tick(h) \in Int /\ Tick(h + 1) = Tick(h) + HourTicks /\ HourTicks \in Nat
      BY Ticks
    <2> QED
      BY <2>1 DEF Lower
  <1> QED
    BY <1>1, Product DEF Reward

LEMMA PeriodIs ==
    ASSUME NEW d, NEW n, NEW power \in Nat, NEW k \in Int, NEW b \in Int
    PROVE  PeriodReward(d, n, power, Tick(k), b)
              = SumFunctionOnSet([h \in Hours |-> Reward(h, power, b)], UpHours(d, n, Tick(k), b))
  <1> DEFINE up == {t \in Tick(k) .. b - 1 :
                      /\ (t - Tick(k)) % HourTicks = 0
                      /\ t \div HourTicks \in Hours
                      /\ d.valStats[<<n, t \div HourTicks>>].proposed > 0}
             g == [t \in up |-> (Lower(t + HourTicks, b) - t) * power]
             f == [h \in Hours |-> Reward(h, power, b)]
             S == UpHours(d, n, Tick(k), b)
             key == [h \in Hours |-> Tick(h)]
  <1>1. Hours \subseteq Int /\ Tick(k) \in Int
    BY Constants, Ticks
  <1>2. Images(key, S) = up
    <2>1. ASSUME NEW h \in S PROVE key[h] \in up
      <3>1. h \in Int /\ h \in Hours /\ Tick(h) \in Int /\ key[h] = Tick(h)
            /\ Tick(h) \in Tick(k) .. b - 1 /\ d.valStats[<<n, h>>].proposed > 0
        BY <1>1, Ticks DEF UpHours
      <3>2. (Tick(h) - Tick(k)) % HourTicks = 0
        <4>1. Tick(h) - Tick(k) = Tick(h - k) /\ h - k \in Int
          BY <3>1, Ticks
        <4> QED
          BY <4>1, TickHour
      <3> QED
        BY <3>1, <3>2, TickHour
    <2>2. ASSUME NEW t \in up PROVE \E h \in S : key[h] = t
      <3> DEFINE h == t \div HourTicks
                 j == (t - Tick(k)) \div HourTicks
      <3>1. t \in Int /\ t - Tick(k) \in Int /\ (t - Tick(k)) % HourTicks = 0 /\ h \in Hours
            /\ Tick(k) <= t /\ t < b /\ d.valStats[<<n, h>>].proposed > 0
        BY <1>1
      <3>2. j \in Int /\ t - Tick(k) = Tick(j)
        BY <3>1, WholeHour
      <3> HIDE DEF j
      <3>3. t = Tick(j + k) /\ j + k \in Int
        <4>1. Tick(j) + Tick(k) = Tick(j + k) /\ Tick(j) \in Int
          BY <3>2, Ticks
        <4> QED
          BY <1>1, <3>1, <3>2, <4>1
      <3>4. h = j + k
        BY <3>3, TickHour
      <3>5. h \in S /\ key[h] = t
        BY <3>1, <3>3, <3>4 DEF UpHours
      <3> QED
        BY <3>5
    <2> HIDE DEF up, S, key
    <2> QED
      BY <2>1, <2>2 DEF Images
  <1>3. \A x, y \in S : key[x] = key[y] => x = y
    BY <1>1, Ticks DEF UpHours
  <1>4. ASSUME NEW x \in S PROVE f[x] \in Nat /\ g[key[x]] = f[x]
    <2>1. x \in Hours /\ x \in Int /\ Tick(x) < b /\ key[x] = Tick(x) /\ Tick(x + 1) = Tick(x) + HourTicks
      BY <1>1, Ticks DEF UpHours
    <2>2. key[x] \in up
      BY <1>2 DEF Images
    <2>3. f[x] = Reward(x, power, b)
      BY <2>1
    <2>4. g[key[x]] = (Lower(key[x] + HourTicks, b) - key[x]) * power
      BY <2>2
    <2> HIDE DEF f, g, key, up
    <2> QED
      BY <2>1, <2>3, <2>4, RewardNat DEF Reward
  <1>5. SumFunctionOnSet(g, Images(key, S)) = SumFunctionOnSet(f, S)
    <2>1. IsFiniteSet(S)
      BY UpHoursFinite
    <2> HIDE DEF f, g, key, S, up
    <2> QED
      BY <1>3, <1>4, <2>1, SumRenamed
  <1>6. PeriodReward(d, n, power, Tick(k), b) = SumFunctionOnSet(g, up)
    BY DEF PeriodReward, SumFunction
  <1> QED
    BY <1>2, <1>5, <1>6

-----------------------------------------------------------------------------
(* The history of a node's voting powers *)

\* A power is changed at the time of its block; that of the genesis block counts as 0,
\* and the block has no commit.
Dated(p) == p.hour = IF Block[p.height].commit THEN Block[p.height].hour ELSE 0
AreDated(powers) == \A p \in powers : Dated(p) /\ (p.height # 1 => Block[p.height].commit)
PowersDated ==
    /\ AreDated(db.powers) /\ AreDated(saved.powers)
    /\ at # "idle" => Now.commit \/ Height = 1

LEMMA DatedInit == Init => PowersDated
  BY DEF Init, EmptyTables, PowersDated, AreDated

LEMMA DatedNext ==
    ASSUME TablesInv, PowersDated, [Next]_vars
    PROVE  PowersDated'
  <1> DEFINE Kept == /\ saved' = saved /\ db'.powers = db.powers /\ indexed' = indexed
                     /\ at # "idle" \/ at' = "idle"
  <1>1. TypeInv
    BY Open DEF TablesInv
  <1>2. CASE SyncVotingPowers
    <2>1. PICK f \in [Listed -> Hashes] : db'.powers = db.powers \cup NewRows(f)
      BY <1>1, <1>2, SyncVotingPowersTables
    <2>2. saved' = saved /\ indexed' = indexed /\ at = "powers" /\ Height' = Height /\ Now' = Now
      BY <1>2 DEF SyncVotingPowers, Height, Now
    <2>3. Now.commit \/ Height = 1
      BY <2>2 DEF PowersDated
    <2>4. \A q \in NewRows(f) : q.height = Height /\ q.hour = PowersHour
      BY DEF NewRows
    <2>5. AreDated(NewRows(f))
      BY <2>3, <2>4 DEF AreDated, Dated, PowersHour, Now
    <2>6. AreDated(db'.powers)
      BY <2>1, <2>5 DEF PowersDated, AreDated
    <2> QED
      BY <2>2, <2>3, <2>6 DEF PowersDated
  <1>3. CASE Commit
    <2>1. saved' = db /\ db' = db /\ at' = "idle"
      BY <1>3 DEF Commit
    <2> QED
      BY <2>1 DEF PowersDated
  <1>4. CASE Fail
    <2>1. saved' = saved /\ db' = saved /\ at' = "idle"
      BY <1>4 DEF Fail, Rollback
    <2> QED
      BY <2>1 DEF PowersDated
  <1>5. CASE CommitBlock
    <2>1. saved' = saved /\ db'.powers = db.powers /\ indexed' = indexed /\ (Now.commit \/ Height = 1)
      BY <1>1, <1>5, CommitBlockTables DEF CommitBlock
    <2>2. Height' = Height /\ Now' = Now
      BY <2>1 DEF Height, Now
    <2> QED
      BY <2>1, <2>2 DEF PowersDated
  <1>6. CASE Kept
    <2>1. Height' = Height /\ Now' = Now
      BY <1>6 DEF Height, Now
    <2> QED
      BY <1>6, <2>1 DEF PowersDated
  <1>7. SyncModifiedAccounts => Kept
    BY <1>1, SyncModifiedAccountsTables DEF SyncModifiedAccounts
  <1>8. CommitRow => Kept
    BY <1>1, CommitRowTables DEF CommitRow
  <1>9. SaveCustomSections => Kept
    BY <1>1, SaveCustomSectionsTables DEF SaveCustomSections
  <1>10. SaveObject => Kept
    BY <1>1, SaveObjectTables DEF SaveObject
  <1>11. UpdateMicroblockStats => Kept
    BY <1>1, UpdateMicroblockStatsTables DEF UpdateMicroblockStats
  <1>12. UpdateVirtualBlockchain => Kept
    BY <1>1, UpdateVirtualBlockchainTables DEF UpdateVirtualBlockchain
  <1>13. CommitBlockMicroblocksAndFees => Kept
    BY <1>1, TotalsTables DEF CommitBlockMicroblocksAndFees
  <1>14. UNCHANGED vars => Kept
    BY DEF vars
  <1> HIDE DEF Kept
  <1> QED
    BY <1>2, <1>3, <1>4, <1>5, <1>6, <1>7, <1>8, <1>9, <1>10, <1>11, <1>12, <1>13, <1>14 DEF Next

LEMMA DatedInvariance == SpecReads => [](TablesInv /\ PowersDated)
  <1>1. InitReads => PowersDated
    BY DatedInit DEF InitReads
  <1>2. TablesInv /\ PowersDated /\ [NextReads]_allVars => PowersDated'
    BY ReadStep, DatedNext
  <1> QED
    BY <1>1, <1>2, TablesInvariance, PTL DEF SpecReads

\* The rows of a node in the order of their heights, and so of their hours.
PowersOfN(n) == {p \in saved.powers : p.node = n}
IsHistory(u, n) ==
    /\ Len(u) \in Nat
    /\ \A i \in 1 .. Len(u) : /\ u[i] \in PowersOfN(n)
                              /\ u[i].height \in Nat /\ u[i].hour \in Nat /\ u[i].power \in Nat
    /\ \A p \in PowersOfN(n) : \E i \in 1 .. Len(u) : u[i] = p
    /\ \A i, j \in 1 .. Len(u) : i < j => u[i].height < u[j].height /\ u[i].hour <= u[j].hour

LEMMA HistoryIs ==
    ASSUME TablesInv, PowersDated, NEW n
    PROVE  IsHistory(PowerUpdates(saved, n), n)
  <1> DEFINE rows == PowersOfN(n)
             before == {p \in rows \X rows : p[1].height < p[2].height}
             u == InOrder(rows, before)
  <1>1. /\ saved.powers \subseteq [node : Hashes, height : Heights, hour : Hours \cup {0}, power : Nat]
        /\ \A p, q \in saved.powers : (p.node = q.node /\ p.height = q.height) => p = q
    BY Open DEF TablesInv, IInv, TypeInv, TypeOK, TablesType, PowersInv, PowersOf
  <1>2. \A p \in rows : p \in saved.powers /\ p.height \in Heights /\ p.height \in Nat /\ p.hour \in Nat
                        /\ p.power \in Nat /\ Dated(p) /\ (p.height # 1 => Block[p.height].commit)
    <2>1. \A o \in Hours \cup {0} : o \in Nat
      BY Constants
    <2> QED
      BY <1>1, <2>1 DEF PowersOfN, PowersDated, AreDated, Heights
  <1>3. \A p, q \in rows : p.height = q.height => p = q
    BY <1>1 DEF PowersOfN
  <1>4. IsFiniteSet(rows)
    <2> DEFINE f == [p \in rows |-> p.height]
    <2>1. f \in Injection(rows, Heights)
      BY <1>2, <1>3 DEF Injection, IsInjective
    <2>2. IsFiniteSet(Heights)
      BY Constants, FS_Interval DEF Heights
    <2> HIDE DEF f, rows
    <2> QED
      BY <2>1, <2>2, FS_Injection
  <1>5. IsOrder(rows, before)
    <2>1. \A p, q \in rows : <<p, q>> \in before <=> p.height < q.height
      OBVIOUS
    <2> HIDE DEF before, rows
    <2> QED
      BY <1>2, <1>3, <2>1 DEF IsOrder
  <1>6. \A p, q \in rows : <<p, q>> \in before => p.height < q.height /\ p.hour <= q.hour
    <2> SUFFICES ASSUME NEW p \in rows, NEW q \in rows, p.height < q.height PROVE p.hour <= q.hour
      OBVIOUS
    <2>1. p.height \in 1 .. MaxHeight /\ q.height \in 1 .. MaxHeight
      BY <1>2 DEF Heights
    <2>2. q.height # 1
      BY <2>1, Constants
    <2>3. q.hour = Block[q.height].hour
      BY <1>2, <2>2 DEF Dated
    <2>4. p.hour = Block[p.height].hour \/ p.hour = 0
      BY <1>2 DEF Dated
    <2>5. Block[p.height].hour <= Block[q.height].hour
      BY <1>2, TimeAssumption
    <2>6. q.hour \in Nat
      BY <1>2
    <2> QED
      BY <2>3, <2>4, <2>5, <2>6
  <1>7. PowerUpdates(saved, n) = u
    BY PowersOfNode DEF PowerUpdates, PowersOfN
  <1> DEFINE c == Cardinality(rows)
  <1> HIDE DEF rows, before
  <1>8. /\ c \in Nat /\ u \in [1 .. c -> rows]
        /\ \A r \in rows : \E i \in 1 .. c : u[i] = r
        /\ \A i, j \in 1 .. c : i < j => <<u[i], u[j]>> \in before
    BY <1>4, <1>5, Ordered
  <1> HIDE DEF u, c
  <1>9. Len(u) = c
    <2>1. u \in Seq(rows)
      BY <1>8
    <2> QED
      BY <1>8, <2>1, LenProperties
  <1>10. \A i \in 1 .. c : u[i] \in rows
    BY <1>8
  <1> QED
    BY <1>2, <1>6, <1>7, <1>8, <1>9, <1>10 DEF IsHistory, rows

\* The power a node has had since the i-th change, and the one it has in an hour.
PowerAfter(u, i) == IF i = 0 THEN 0 ELSE u[i].power

LEMMA PowerInIs ==
    ASSUME NEW u, NEW n, IsHistory(u, n), NEW i \in 0 .. Len(u), NEW hour \in Nat,
           i # 0 => u[i].hour <= hour, i # Len(u) => hour < u[i + 1].hour
    PROVE  PowerIn(n, hour) = PowerAfter(u, i)
  <1> DEFINE until == {p \in saved.powers : p.node = n /\ p.hour <= hour}
  <1>0. PowerIn(n, hour) = IF until = {} THEN 0
                           ELSE (CHOOSE p \in until : \A r \in until : r.height <= p.height).power
    BY DEF PowerIn
  <1>1. Len(u) \in Nat /\ i \in Nat
    BY DEF IsHistory
  <1>2. \A p \in until : \E j \in 1 .. Len(u) : u[j] = p
    BY DEF IsHistory, PowersOfN
  <1>3. \A j \in 1 .. Len(u) : /\ u[j] \in saved.powers /\ u[j].node = n /\ u[j].height \in Nat
                               /\ u[j].hour \in Nat
    BY DEF IsHistory, PowersOfN
  <1>4. \A j, k \in 1 .. Len(u) : j < k => u[j].height < u[k].height /\ u[j].hour <= u[k].hour
    BY DEF IsHistory
  <1>5. \A p \in until : \E j \in 1 .. i : u[j] = p
    <2> SUFFICES ASSUME NEW p \in until PROVE \E j \in 1 .. i : u[j] = p
      OBVIOUS
    <2>1. PICK j \in 1 .. Len(u) : u[j] = p
      BY <1>2
    <2>2. CASE j <= i
      BY <1>1, <2>1, <2>2
    <2>3. CASE ~(j <= i)
      <3>1. i + 1 \in 1 .. Len(u) /\ i # Len(u) /\ (i + 1 = j \/ i + 1 < j)
        BY <1>1, <2>3
      <3>2. u[i + 1].hour <= u[j].hour /\ u[i + 1].hour \in Nat /\ u[j].hour \in Nat
        BY <1>3, <1>4, <3>1
      <3>3. u[j].hour <= hour
        BY <2>1
      <3> QED
        BY <3>1, <3>2, <3>3
    <2> QED
      BY <2>2, <2>3
  <1>6. CASE i = 0
    <2>1. until = {}
      BY <1>5, <1>6
    <2> QED
      BY <1>0, <1>6, <2>1 DEF PowerAfter
  <1>7. CASE i # 0
    <2>1. i \in 1 .. Len(u) /\ u[i] \in until
      BY <1>1, <1>3, <1>7
    <2>2. \A p \in until : p.height <= u[i].height /\ (p # u[i] => p.height < u[i].height)
      <3> SUFFICES ASSUME NEW p \in until
                   PROVE  p.height <= u[i].height /\ (p # u[i] => p.height < u[i].height)
        OBVIOUS
      <3>1. PICK j \in 1 .. i : u[j] = p
        BY <1>5
      <3>2. j \in 1 .. Len(u) /\ (j = i \/ j < i)
        BY <1>1
      <3> QED
        BY <1>3, <1>4, <2>1, <3>1, <3>2
    <2>3. \A p \in until : p.height \in Nat
      BY <1>2, <1>3
    <2> HIDE DEF until
    <2>4. (CHOOSE p \in until : \A r \in until : r.height <= p.height) = u[i]
      <3>1. \A p \in until : (\A r \in until : r.height <= p.height) => p = u[i]
        BY <2>1, <2>2, <2>3
      <3> QED
        BY <2>1, <2>2, <3>1
    <2> QED
      BY <1>0, <1>7, <2>1, <2>4 DEF PowerAfter
  <1> QED
    BY <1>6, <1>7

LEMMA PowerInNat ==
    ASSUME NEW u, NEW n, IsHistory(u, n), NEW hour \in Nat
    PROVE  PowerIn(n, hour) \in Nat
  <1> DEFINE S == {i \in 1 .. Len(u) : u[i].hour <= hour}
  <1>1. Len(u) \in Nat /\ \A i \in 1 .. Len(u) : u[i].hour \in Nat /\ u[i].power \in Nat
    BY DEF IsHistory
  <1>2. \E i \in 0 .. Len(u) : /\ i # 0 => u[i].hour <= hour
                               /\ i # Len(u) => hour < u[i + 1].hour
    <2>1. CASE S = {}
      <3>1. 0 # Len(u) => 0 + 1 \in 1 .. Len(u) /\ hour < u[0 + 1].hour
        BY <1>1, <2>1
      <3> QED
        BY <1>1, <3>1
    <2>2. CASE S # {}
      <3>1. IsFiniteSet(S) /\ S \subseteq Nat
        <4>1. 1 \in Int /\ Len(u) \in Int
          BY <1>1
        <4>2. IsFiniteSet(1 .. Len(u)) /\ 1 .. Len(u) \subseteq Nat
          BY <4>1, FS_Interval
        <4> QED
          BY <4>2, FS_Subset
      <3>2. PICK i \in S : \A j \in S : j <= i
        <4> HIDE DEF S
        <4> QED
          BY <2>2, <3>1, Greatest
      <3>3. i \in 1 .. Len(u) /\ u[i].hour <= hour
        OBVIOUS
      <3>4. i # Len(u) => i + 1 \in 1 .. Len(u) /\ i + 1 \notin S
        <4> HIDE DEF S
        <4> QED
          BY <1>1, <3>2, <3>3
      <3>5. i # Len(u) => hour < u[i + 1].hour
        BY <1>1, <3>4
      <3> QED
        BY <1>1, <3>3, <3>5
    <2> QED
      BY <2>1, <2>2
  <1>3. PICK i \in 0 .. Len(u) : /\ i # 0 => u[i].hour <= hour
                                 /\ i # Len(u) => hour < u[i + 1].hour
    BY <1>2
  <1>4. PowerIn(n, hour) = PowerAfter(u, i)
    BY <1>3, PowerInIs
  <1> QED
    BY <1>1, <1>4 DEF PowerAfter

-----------------------------------------------------------------------------
(* What is due between two hours *)

Due(n, a, b, end) == SumFunctionOnSet([h \in Hours |-> Reward(h, PowerIn(n, h), end)], UpHours(saved, n, a, b))

LEMMA DueNothing == ASSUME NEW n, NEW a \in Int, NEW b \in Int, NEW end, b <= a
                    PROVE  Due(n, a, b, end) = 0
  <1>1. \A h \in Hours : h \in Int /\ Tick(h) \in Int
    BY Constants, Ticks
  <1>2. UpHours(saved, n, a, b) = {}
    BY <1>1 DEF UpHours
  <1> QED
    BY <1>2, SumEmpty DEF Due

LEMMA DueNat ==
    ASSUME NEW u, NEW n, IsHistory(u, n), NEW a \in Int, NEW b \in Int, NEW end \in Int, b <= end
    PROVE  /\ Due(n, a, b, end) \in Nat
           /\ \A h \in UpHours(saved, n, a, b) : Reward(h, PowerIn(n, h), end) \in Nat
  <1> DEFINE f == [h \in Hours |-> Reward(h, PowerIn(n, h), end)]
             S == UpHours(saved, n, a, b)
  <1>1. \A h \in Hours : h \in Nat /\ h \in Int /\ Tick(h) \in Int
    BY Constants, Ticks
  <1>2. ASSUME NEW h \in S PROVE f[h] \in Nat /\ f[h] = Reward(h, PowerIn(n, h), end)
    <2>1. h \in Hours /\ Tick(h) < b
      BY DEF UpHours
    <2>2. Tick(h) < end /\ PowerIn(n, h) \in Nat
      BY <1>1, <2>1, PowerInNat
    <2> QED
      BY <1>1, <2>1, <2>2, RewardNat
  <1>3. IsFiniteSet(S)
    BY UpHoursFinite
  <1> HIDE DEF f, S
  <1>4. SumFunctionOnSet(f, S) \in Nat
    BY <1>2, <1>3, SumNat
  <1> QED
    BY <1>2, <1>4 DEF Due, f, S

LEMMA DueSplit ==
    ASSUME NEW u, NEW n, IsHistory(u, n), NEW end \in Int,
           NEW a \in Int, NEW b \in Int, NEW c \in Int, a <= b, a = b \/ b <= end, c <= end
    PROVE  Due(n, a, LaterHour(b, c), end) = Due(n, a, b, end) + Due(n, b, c, end)
  <1>1. Due(n, a, b, end) \in Nat
    BY DueNat, DueNothing
  <1>2. CASE c <= b
    <2>1. Due(n, b, c, end) = 0
      BY <1>2, DueNothing
    <2>2. LaterHour(b, c) = b
      BY <1>2 DEF LaterHour
    <2> QED
      BY <1>1, <2>1, <2>2
  <1>3. CASE b < c
    <2> DEFINE f == [h \in Hours |-> Reward(h, PowerIn(n, h), end)]
               S == UpHours(saved, n, a, b)
               T == UpHours(saved, n, b, c)
    <2>1. \A h \in Hours : h \in Int /\ Tick(h) \in Int
      BY Constants, Ticks
    <2>2. S \cup T = UpHours(saved, n, a, c) /\ S \cap T = {}
      BY <1>3, <2>1 DEF UpHours
    <2>3. IsFiniteSet(S) /\ IsFiniteSet(T)
      BY UpHoursFinite
    <2>4. \A h \in UpHours(saved, n, a, c) : f[h] \in Nat
      <3>1. \A h \in UpHours(saved, n, a, c) : h \in Hours
        BY DEF UpHours
      <3> QED
        BY <3>1, DueNat
    <2> HIDE DEF f, S, T
    <2>5. SumFunctionOnSet(f, S \cup T) = SumFunctionOnSet(f, S) + SumFunctionOnSet(f, T)
      BY <2>2, <2>3, <2>4, SumUnion
    <2>6. LaterHour(b, c) = c
      BY <1>3 DEF LaterHour
    <2> QED
      BY <2>2, <2>5, <2>6 DEF Due, f, S, T
  <1> QED
    BY <1>2, <1>3

\* The hour reached after the i-th change, from hour k on.
Reached(u, k, i) == IF i = 0 THEN Tick(k) ELSE LaterHour(Tick(k), Tick(u[i].hour))

LEMMA ReachedIs ==
    ASSUME NEW u, NEW n, IsHistory(u, n), NEW k \in Int, NEW i \in 0 .. Len(u)
    PROVE  /\ \E j \in Int : Reached(u, k, i) = Tick(j) /\ k <= j /\ (i # 0 => u[i].hour <= j)
           /\ Reached(u, k, i) \in Int /\ Tick(k) <= Reached(u, k, i)
           /\ Reached(u, k, i) = Tick(k) \/ (i # 0 /\ Reached(u, k, i) = Tick(u[i].hour))
  <1>1. Len(u) \in Nat /\ (i # 0 => i \in 1 .. Len(u))
    BY DEF IsHistory
  <1>2. i # 0 => u[i].hour \in Int
    BY <1>1 DEF IsHistory
  <1>3. Tick(k) \in Int
    BY Ticks
  <1>4. CASE i = 0
    BY <1>3, <1>4 DEF Reached
  <1>5. CASE i # 0
    <2>1. /\ Tick(u[i].hour) \in Int
          /\ Tick(k) <= Tick(u[i].hour) <=> k <= u[i].hour
      BY <1>2, <1>5, Ticks
    <2> QED
      BY <1>2, <1>3, <1>5, <2>1 DEF Reached, LaterHour
  <1> QED
    BY <1>4, <1>5

LEMMA PeriodDue ==
    ASSUME NEW u, NEW n, IsHistory(u, n), NEW k \in Int, NEW i \in 0 .. Len(u),
           NEW b \in Int, NEW end \in Int, b <= end,
           b = end \/ \E j \in Int : b = Tick(j),
           i # Len(u) => b <= Tick(u[i + 1].hour)
    PROVE  PeriodReward(saved, n, PowerAfter(u, i), Reached(u, k, i), b)
              = Due(n, Reached(u, k, i), b, end)
  <1> DEFINE power == PowerAfter(u, i)
             S == UpHours(saved, n, Reached(u, k, i), b)
             f == [h \in Hours |-> Reward(h, power, b)]
             g == [h \in Hours |-> Reward(h, PowerIn(n, h), end)]
  <1>1. Len(u) \in Nat /\ i \in Nat /\ (i # 0 => i \in 1 .. Len(u))
        /\ (i # Len(u) => i + 1 \in 1 .. Len(u))
    BY DEF IsHistory
  <1>2. (i # 0 => u[i].hour \in Nat /\ u[i].power \in Nat) /\ (i # Len(u) => u[i + 1].hour \in Nat)
    BY <1>1 DEF IsHistory
  <1>3. power \in Nat
    BY <1>2 DEF PowerAfter
  <1>4. PICK j \in Int : Reached(u, k, i) = Tick(j) /\ k <= j /\ (i # 0 => u[i].hour <= j)
    BY ReachedIs
  <1>5. \A h \in Hours : h \in Nat /\ h \in Int /\ Tick(h) \in Int
    BY Constants, Ticks
  <1>6. PeriodReward(saved, n, power, Reached(u, k, i), b) = SumFunctionOnSet(f, S)
    BY <1>3, <1>4, PeriodIs
  <1>7. ASSUME NEW h \in S PROVE f[h] = g[h]
    <2>1. h \in Hours /\ Tick(j) <= Tick(h) /\ Tick(h) < b
      BY <1>4 DEF UpHours
    <2>2. h \in Nat /\ j <= h
      BY <1>5, <2>1, Ticks
    <2>3. i # 0 => u[i].hour <= h
      BY <1>2, <1>4, <2>2
    <2>4. i # Len(u) => h < u[i + 1].hour
      <3> SUFFICES ASSUME i # Len(u) PROVE h < u[i + 1].hour
        OBVIOUS
      <3>1. PICK m \in Int : m = u[i + 1].hour
        BY <1>2
      <3>2. Tick(m) \in Int /\ Tick(h) \in Int /\ (Tick(h) < Tick(m) => h < m)
        <4>1. h \in Int /\ m \in Int
          BY <2>2
        <4>2. Tick(m) \in Int /\ Tick(h) \in Int
          BY <4>1, Ticks
        <4>3. Tick(h) < Tick(m) <=> h < m
          BY <4>1, Ticks
        <4> QED
          BY <4>2, <4>3
      <3>3. Tick(h) < Tick(m)
        BY <2>1, <3>1, <3>2
      <3> QED
        BY <3>1, <3>2, <3>3
    <2>5. PowerIn(n, h) = power
      BY <2>2, <2>3, <2>4, PowerInIs
    <2>6. Lower(Tick(h + 1), b) = Lower(Tick(h + 1), end)
      <3>1. CASE b = end
        BY <3>1
      <3>2. CASE \E m \in Int : b = Tick(m)
        <4>1. PICK m \in Int : b = Tick(m)
          BY <3>2
        <4>2. h < m /\ h \in Int
          BY <2>1, <2>2, <4>1, Ticks
        <4>3. Tick(h) + HourTicks <= b /\ Tick(h + 1) = Tick(h) + HourTicks
          BY <4>1, <4>2, Ticks
        <4>4. Tick(h + 1) \in Int
          BY <2>2, Ticks
        <4> QED
          BY <4>3, <4>4 DEF Lower
      <3> QED
        BY <3>1, <3>2
    <2> QED
      BY <2>1, <2>5, <2>6 DEF Reward
  <1>8. IsFiniteSet(S)
    BY UpHoursFinite
  <1> HIDE DEF f, g, S, power
  <1>9. SumFunctionOnSet(f, S) = SumFunctionOnSet(g, S)
    BY <1>7, <1>8, SumSame
  <1> QED
    BY <1>6, <1>9 DEF Due, S, g, power

-----------------------------------------------------------------------------
(* The reward to date, summed *)

\* The step of getAccruedRewardToDate() for one change of the power.
Accrue(d, n, r, p) ==
    [last |-> LaterHour(r.last, HourTicks * p.hour), power |-> p.power,
     total |-> r.total + PeriodReward(d, n, r.power, r.last, HourTicks * p.hour)]
IsAccrual(d, n, u, start, sum) ==
    sum = [i \in 0 .. Len(u) |->
              IF i = 0 THEN [last |-> RoundToHour(start), power |-> 0, total |-> 0]
              ELSE Accrue(d, n, sum[i - 1], u[i])]
Accrual(d, n, u, start) == CHOOSE sum : IsAccrual(d, n, u, start, sum)

LEMMA AccruedRewardIs ==
    \A d, n, start, end :
        LET all == Accrual(d, n, PowerUpdates(d, n), start)[Len(PowerUpdates(d, n))]
        IN  AccruedReward(d, n, start, end) = all.total + PeriodReward(d, n, all.power, all.last, end)
  BY DEF AccruedReward, Accrual, IsAccrual, Accrue

LEMMA AccrualUnique ==
    ASSUME NEW d, NEW n, NEW u, Len(u) \in Nat, NEW start, NEW g, IsAccrual(d, n, u, start, g)
    PROVE  Accrual(d, n, u, start)[Len(u)] = g[Len(u)]
  <1> DEFINE s == Accrual(d, n, u, start)
             C == {i \in 0 .. Len(u) : s[i] # g[i]}
  <1>1. IsAccrual(d, n, u, start, s)
    BY DEF Accrual
  <1> HIDE DEF s
  <1>2. /\ s[0] = [last |-> RoundToHour(start), power |-> 0, total |-> 0]
        /\ \A i \in 1 .. Len(u) : s[i] = Accrue(d, n, s[i - 1], u[i])
    BY <1>1 DEF IsAccrual
  <1>3. /\ g[0] = [last |-> RoundToHour(start), power |-> 0, total |-> 0]
        /\ \A i \in 1 .. Len(u) : g[i] = Accrue(d, n, g[i - 1], u[i])
    BY DEF IsAccrual
  <1>4. Len(u) \notin C => s[Len(u)] = g[Len(u)]
    OBVIOUS
  <1>5. C = {}
    <2> SUFFICES ASSUME C # {} PROVE FALSE
      <3> HIDE DEF C
      <3> QED
        OBVIOUS
    <2>1. PICK x \in C : \A y \in C : x <= y
      <3>1. C \in SUBSET (0 .. Len(u))
        OBVIOUS
      <3> HIDE DEF C
      <3> QED
        BY <3>1, Least
    <2>2. x \in 0 .. Len(u) /\ s[x] # g[x]
      OBVIOUS
    <2>3. x # 0
      BY <1>2, <1>3, <2>2
    <2>4. x \in 1 .. Len(u) /\ x - 1 \in 0 .. Len(u) /\ ~(x <= x - 1)
      BY <2>2, <2>3
    <2>5. s[x - 1] = g[x - 1]
      BY <2>1, <2>4
    <2> QED
      BY <1>2, <1>3, <2>2, <2>4, <2>5
  <1> QED
    BY <1>4, <1>5 DEF s

\* What the node has accrued after each change of its power.
Accrued(n, u, k, end) ==
    [i \in 0 .. Len(u) |-> [last  |-> Reached(u, k, i),
                            power |-> PowerAfter(u, i),
                            total |-> Due(n, Tick(k), Reached(u, k, i), end)]]

LEMMA AccruedStep ==
    ASSUME NEW u, NEW n, IsHistory(u, n), NEW k \in Int, NEW end \in Int,
           \A i \in 1 .. Len(u) : Tick(u[i].hour) <= end,
           NEW i \in 1 .. Len(u)
    PROVE  Accrued(n, u, k, end)[i] = Accrue(saved, n, Accrued(n, u, k, end)[i - 1], u[i])
  <1> DEFINE R == Tick(k)
             L == Reached(u, k, i - 1)
             b == Tick(u[i].hour)
  <1>1. Len(u) \in Nat /\ i \in Nat /\ i - 1 \in Nat /\ i - 1 \in 0 .. Len(u) /\ i - 1 # Len(u)
        /\ (i - 1) + 1 = i /\ i # 0 /\ i \in 0 .. Len(u)
        /\ (i - 1 # 0 => i - 1 \in 1 .. Len(u) /\ i - 1 < i)
    BY DEF IsHistory
  <1>2. u[i].hour \in Int /\ (i - 1 # 0 => u[i - 1].hour \in Int /\ u[i - 1].hour <= u[i].hour)
    BY <1>1 DEF IsHistory
  <1>3. R \in Int /\ b \in Int /\ b <= end
    BY <1>2, Ticks
  <1>4. L \in Int /\ R <= L /\ (L = R \/ (i - 1 # 0 /\ L = Tick(u[i - 1].hour)))
    BY <1>1, ReachedIs
  <1>5. i - 1 # 0 => Tick(u[i - 1].hour) \in Int /\ Tick(u[i - 1].hour) <= b
    BY <1>2, Ticks
  <1>6. L = R \/ L <= end
    BY <1>3, <1>4, <1>5
  <1>7. LaterHour(L, b) = Reached(u, k, i)
    <2>1. Reached(u, k, i) = LaterHour(R, b)
      BY <1>1 DEF Reached
    <2>2. L = IF i - 1 = 0 THEN R ELSE LaterHour(R, Tick(u[i - 1].hour))
      BY DEF Reached
    <2> HIDE DEF R, L, b
    <2> QED
      BY <1>3, <1>5, <2>1, <2>2 DEF LaterHour
  <1>8. Due(n, R, LaterHour(L, b), end) = Due(n, R, L, end) + Due(n, L, b, end)
    <2> HIDE DEF R, L, b
    <2> QED
      BY <1>3, <1>4, <1>6, DueSplit
  <1>9. PeriodReward(saved, n, PowerAfter(u, i - 1), L, b) = Due(n, L, b, end)
    <2>1. \E j \in Int : b = Tick(j)
      BY <1>2
    <2>2. i - 1 # Len(u) => b <= Tick(u[(i - 1) + 1].hour)
      BY <1>1, <1>3
    <2> QED
      BY <1>1, <1>3, <2>1, <2>2, PeriodDue
  <1>10. /\ Accrued(n, u, k, end)[i - 1] = [last |-> L, power |-> PowerAfter(u, i - 1),
                                            total |-> Due(n, R, L, end)]
         /\ Accrued(n, u, k, end)[i] = [last |-> Reached(u, k, i), power |-> u[i].power,
                                        total |-> Due(n, R, Reached(u, k, i), end)]
    BY <1>1 DEF Accrued, PowerAfter
  <1>11. b = HourTicks * u[i].hour
    BY DEF Tick
  <1> HIDE DEF R, L, b
  <1> QED
    BY <1>7, <1>8, <1>9, <1>10, <1>11 DEF Accrue

LEMMA AccrualIs ==
    ASSUME NEW u, NEW n, IsHistory(u, n), NEW start \in Int, NEW end \in Int,
           \A i \in 1 .. Len(u) : Tick(u[i].hour) <= end
    PROVE  IsAccrual(saved, n, u, start, Accrued(n, u, start \div HourTicks, end))
  <1> DEFINE k == start \div HourTicks
             g == Accrued(n, u, k, end)
  <1>1. k \in Int /\ RoundToHour(start) = Tick(k)
    BY Rounded
  <1> HIDE DEF k
  <1>2. Len(u) \in Nat /\ 0 \in 0 .. Len(u)
    BY DEF IsHistory
  <1>3. g[0] = [last |-> RoundToHour(start), power |-> 0, total |-> 0]
    <2>1. Due(n, Tick(k), Tick(k), end) = 0
      <3>1. Tick(k) \in Int /\ Tick(k) <= Tick(k)
        BY <1>1, Ticks
      <3> QED
        BY <3>1, DueNothing
    <2>2. Reached(u, k, 0) = Tick(k) /\ PowerAfter(u, 0) = 0
      BY DEF Reached, PowerAfter
    <2>3. g[0] = [last |-> Reached(u, k, 0), power |-> PowerAfter(u, 0),
                  total |-> Due(n, Tick(k), Reached(u, k, 0), end)]
      BY <1>2 DEF Accrued
    <2> HIDE DEF g
    <2> QED
      BY <1>1, <2>1, <2>2, <2>3
  <1>4. \A i \in 1 .. Len(u) : g[i] = Accrue(saved, n, g[i - 1], u[i])
    BY <1>1, AccruedStep
  <1>5. g = [i \in 0 .. Len(u) |-> g[i]]
    BY DEF Accrued
  <1> HIDE DEF g
  <1>6. ASSUME NEW i \in 0 .. Len(u)
        PROVE  g[i] = IF i = 0 THEN [last |-> RoundToHour(start), power |-> 0, total |-> 0]
                      ELSE Accrue(saved, n, g[i - 1], u[i])
    <2>1. i = 0 \/ i \in 1 .. Len(u)
      BY <1>2
    <2> QED
      BY <1>3, <1>4, <2>1
  <1>7. g = [i \in 0 .. Len(u) |->
                IF i = 0 THEN [last |-> RoundToHour(start), power |-> 0, total |-> 0]
                ELSE Accrue(saved, n, g[i - 1], u[i])]
    BY <1>5, <1>6
  <1>8. IsAccrual(saved, n, u, start, g)
    BY <1>7 DEF IsAccrual
  <1> QED
    BY <1>8 DEF g, k

\* The last change of the power, when it comes after the end of the query, ends what is
\* counted.
LEMMA LastCountedIs ==
    ASSUME NEW n, NEW end \in Int, IsHistory(PowerUpdates(saved, n), n)
    PROVE  LET E == LastCounted(n, end)
           IN  /\ E \in Int /\ end <= E /\ \A p \in PowersOfN(n) : Tick(p.hour) <= E
               /\ E = end \/ \E p \in PowersOfN(n) : E = Tick(p.hour)
  <1> DEFINE u == PowerUpdates(saved, n)
             T == {end} \cup {Tick(p.hour) : p \in PowersOfN(n)}
  <1>1. LastCounted(n, end) = Max(T)
    BY PowersOfNode DEF LastCounted, PowersOfN, Tick
  <1> HIDE DEF u
  <1>2. /\ Len(u) \in Nat /\ \A i \in 1 .. Len(u) : u[i] \in PowersOfN(n) /\ u[i].hour \in Int
        /\ \A p \in PowersOfN(n) : \E i \in 1 .. Len(u) : u[i] = p
        /\ \A i, j \in 1 .. Len(u) : i < j => u[i].hour <= u[j].hour
    BY DEF u, IsHistory
  <1>3. \A p \in PowersOfN(n) : p.hour \in Int /\ Tick(p.hour) \in Int
    BY <1>2, Ticks
  <1>4. \E x \in T : \A y \in T : x >= y
    <2>1. CASE Len(u) = 0
      BY <1>2, <2>1
    <2>2. CASE Len(u) # 0
      <3>1. PICK q \in PowersOfN(n) : q = u[Len(u)]
        BY <1>2, <2>2
      <3>2. \A p \in PowersOfN(n) : p.hour <= q.hour
        <4> SUFFICES ASSUME NEW p \in PowersOfN(n) PROVE p.hour <= q.hour
          OBVIOUS
        <4>1. PICK i \in 1 .. Len(u) : u[i] = p
          BY <1>2
        <4>2. i = Len(u) \/ (i < Len(u) /\ Len(u) \in 1 .. Len(u))
          BY <1>2, <4>1
        <4> QED
          BY <1>2, <1>3, <3>1, <4>1, <4>2
      <3>3. \A p \in PowersOfN(n) : Tick(p.hour) <= Tick(q.hour)
        BY <1>3, <3>2, Ticks
      <3>4. Tick(q.hour) \in T /\ end \in T /\ Tick(q.hour) \in Int
        BY <1>3
      <3>5. CASE end <= Tick(q.hour)
        BY <1>3, <3>3, <3>4, <3>5
      <3>6. CASE ~(end <= Tick(q.hour))
        <4>1. \A p \in PowersOfN(n) : Tick(p.hour) <= end
          BY <1>3, <3>3, <3>4, <3>6
        <4> QED
          BY <1>3, <3>4, <4>1
      <3> QED
        BY <3>5, <3>6
    <2> QED
      BY <2>1, <2>2
  <1>5. Max(T) \in T /\ \A y \in T : Max(T) >= y
    <2> HIDE DEF T
    <2> QED
      BY <1>4 DEF Max
  <1> QED
    BY <1>1, <1>3, <1>5

LEMMA NoPeriod ==
    ASSUME NEW n, NEW power \in Nat, NEW j \in Int, NEW b \in Int, b <= Tick(j)
    PROVE  PeriodReward(saved, n, power, Tick(j), b) = 0
  <1> DEFINE S == UpHours(saved, n, Tick(j), b)
             f == [h \in Hours |-> Reward(h, power, b)]
  <1>1. PeriodReward(saved, n, power, Tick(j), b) = SumFunctionOnSet(f, S)
    BY PeriodIs
  <1>2. S = {}
    <2>1. \A h \in Hours : Tick(h) \in Int
      BY Constants, Ticks
    <2>2. Tick(j) \in Int
      BY Ticks
    <2> QED
      BY <2>1, <2>2 DEF UpHours
  <1> HIDE DEF S, f
  <1> QED
    BY <1>1, <1>2, SumEmpty

LEMMA AccruedIs ==
    ASSUME NEW n, NEW start \in Int, NEW end \in Int, NEW E \in Int,
           IsHistory(PowerUpdates(saved, n), n), end <= E,
           \A p \in PowersOfN(n) : Tick(p.hour) <= E,
           E = end \/ \E p \in PowersOfN(n) : E = Tick(p.hour)
    PROVE  AccruedReward(saved, n, start, end) = Due(n, RoundToHour(start), E, E)
  <1> DEFINE u == PowerUpdates(saved, n)
             k == start \div HourTicks
             L == Reached(u, k, Len(u))
             R == Tick(k)
             all == Accrual(saved, n, u, start)[Len(u)]
  <1>1. AccruedReward(saved, n, start, end) = all.total + PeriodReward(saved, n, all.power, all.last, end)
    BY AccruedRewardIs
  <1> HIDE DEF u
  <1>2. IsHistory(u, n) /\ Len(u) \in Nat
    BY DEF u, IsHistory
  <1>3. \A i \in 1 .. Len(u) : Tick(u[i].hour) <= E
    BY <1>2 DEF IsHistory
  <1>4. IsAccrual(saved, n, u, start, Accrued(n, u, k, E))
    BY <1>2, <1>3, AccrualIs
  <1>5. all = Accrued(n, u, k, E)[Len(u)]
    BY <1>2, <1>4, AccrualUnique
  <1>6. Len(u) \in 0 .. Len(u) /\ (Len(u) # 0 => Len(u) \in 1 .. Len(u))
    BY <1>2
  <1>7. all.total = Due(n, R, L, E) /\ all.power = PowerAfter(u, Len(u)) /\ all.last = L
    BY <1>5, <1>6 DEF Accrued
  <1>8. k \in Int /\ R \in Int /\ RoundToHour(start) = R
    BY Rounded, Ticks
  <1> HIDE DEF k, all
  <1>9. L \in Int /\ R <= L /\ (L = R \/ (Len(u) # 0 /\ L = Tick(u[Len(u)].hour)))
    BY <1>2, <1>6, <1>8, ReachedIs
  <1>10. L = R \/ L <= E
    <2> HIDE DEF L, R
    <2> QED
      BY <1>3, <1>6, <1>9
  <1>11. Due(n, R, L, E) + PeriodReward(saved, n, PowerAfter(u, Len(u)), L, end)
            = Due(n, R, LaterHour(L, E), E)
    <2>1. CASE E = end
      <3>1. PeriodReward(saved, n, PowerAfter(u, Len(u)), L, E) = Due(n, L, E, E)
        BY <1>2, <1>6, <1>8, PeriodDue
      <3> HIDE DEF L, R
      <3>2. Due(n, R, LaterHour(L, E), E) = Due(n, R, L, E) + Due(n, L, E, E)
        BY <1>8, <1>9, <1>10, DueSplit
      <3> QED
        BY <2>1, <3>1, <3>2
    <2>2. CASE E # end
      <3>1. PICK p \in PowersOfN(n) : E = Tick(p.hour)
        BY <2>2
      <3>2. PICK i \in 1 .. Len(u) : u[i] = p
        BY <1>2 DEF IsHistory
      <3>3. Len(u) # 0 /\ Len(u) \in 1 .. Len(u)
        BY <1>2, <3>2
      <3>4. u[i].hour \in Int /\ u[Len(u)].hour \in Int /\ u[i].hour <= u[Len(u)].hour
        <4>1. i = Len(u) \/ i < Len(u)
          BY <1>2, <3>2
        <4>2. u[i].hour \in Nat /\ u[Len(u)].hour \in Nat
          BY <1>2, <3>2, <3>3 DEF IsHistory
        <4> QED
          BY <1>2, <3>2, <3>3, <4>1, <4>2 DEF IsHistory
      <3>5. E <= Tick(u[Len(u)].hour) /\ Tick(u[Len(u)].hour) \in Int
        BY <3>1, <3>2, <3>4, Ticks
      <3>6. E = Tick(u[Len(u)].hour)
        BY <1>3, <3>3, <3>5
      <3>7. L = LaterHour(R, E)
        BY <3>3, <3>6 DEF Reached
      <3>8. PICK j \in Int : L = Tick(j)
        BY <1>2, <1>6, <1>8, ReachedIs
      <3>9. PowerAfter(u, Len(u)) \in Nat
        BY <1>2, <3>3 DEF PowerAfter, IsHistory
      <3> HIDE DEF L, R
      <3>10. end <= L /\ LaterHour(L, E) = L
        BY <1>8, <1>9, <3>7 DEF LaterHour
      <3>11. PeriodReward(saved, n, PowerAfter(u, Len(u)), L, end) = 0
        BY <3>8, <3>9, <3>10, NoPeriod
      <3>12. Due(n, R, L, E) \in Nat
        <4>1. CASE L <= E
          BY <1>8, <1>9, <4>1, DueNat
        <4>2. CASE ~(L <= E)
          <5>1. L = R
            BY <1>10, <4>2
          <5>2. L <= R
            BY <1>9, <5>1
          <5>3. Due(n, R, L, E) = 0
            BY <1>8, <1>9, <5>2, DueNothing
          <5> QED
            BY <5>3
        <4> QED
          BY <4>1, <4>2
      <3> QED
        BY <3>10, <3>11, <3>12
    <2> QED
      BY <2>1, <2>2
  <1> HIDE DEF L, R
  <1>12. Due(n, R, LaterHour(L, E), E) = Due(n, R, E, E)
    <2>1. CASE L <= E
      BY <2>1 DEF LaterHour
    <2>2. CASE ~(L <= E)
      <3>1. L = R /\ E <= R /\ LaterHour(L, E) = R
        BY <1>8, <1>9, <1>10, <2>2 DEF LaterHour
      <3>2. Due(n, R, R, E) = 0 /\ Due(n, R, E, E) = 0
        BY <1>8, <3>1, DueNothing
      <3> QED
        BY <3>1, <3>2
    <2> QED
      BY <2>1, <2>2
  <1> QED
    BY <1>1, <1>7, <1>8, <1>11, <1>12

\* Between transactions the accrued reward of a node is, hour by hour, its uptime times
\* the power it had then, from the hour of start_time to end_time or, when it is later,
\* the last change of the power: the walk of getAccruedRewardToDate() over the changes
\* skips no hour and counts none twice, also when the power changes within the hour,
\* several times in one, before start_time or after end_time.
THEOREM RewardsMatchHours == SpecReads => []RewardMatchesHours
  <1>1. ASSUME TablesInv, PowersDated PROVE RewardMatchesHours
    <2> SUFFICES ASSUME at = "idle", NEW n \in Objects(db, "node"),
                        NEW start \in RewardTimes, NEW end \in RewardTimes
                 PROVE  AccruedReward(db, n, start, end) = RewardUntil(n, start, LastCounted(n, end))
      BY DEF RewardMatchesHours
    <2>1. db = saved /\ start \in Int /\ end \in Int
      BY <1>1, IdleSaved, QueryAssumption
    <2>2. IsHistory(PowerUpdates(saved, n), n)
      BY <1>1, HistoryIs
    <2>3. PICK E \in Int : /\ E = LastCounted(n, end) /\ end <= E
                           /\ \A p \in PowersOfN(n) : Tick(p.hour) <= E
                           /\ E = end \/ \E p \in PowersOfN(n) : E = Tick(p.hour)
      BY <2>1, <2>2, LastCountedIs
    <2> DEFINE S == UpHours(saved, n, RoundToHour(start), E)
               f == [h \in Hours |-> Reward(h, PowerIn(n, h), E)]
               g == [h \in S |-> (Lower(HourTicks * (h + 1), E) - HourTicks * h) * PowerIn(n, h)]
    <2>4. AccruedReward(saved, n, start, end) = SumFunctionOnSet(f, S)
      BY <2>1, <2>2, <2>3, AccruedIs DEF Due
    <2>5. IsFiniteSet(S) /\ S \subseteq Hours
      BY UpHoursFinite
    <2>6. \A h \in S : f[h] = g[h]
      BY <2>5 DEF Reward, Tick
    <2>7. SumFunctionOnSet(f, S) = SumFunctionOnSet(g, S)
      <3> HIDE DEF f, g, S
      <3> QED
        BY <2>5, <2>6, SumSame
    <2>8. SumFunction(g) = SumFunctionOnSet(g, S)
      BY DEF SumFunction
    <2>9. S = {hour \in Hours : /\ RoundToHour(start) <= HourTicks * hour
                                /\ HourTicks * hour < E
                                /\ saved.valStats[<<n, hour>>].proposed > 0}
      BY DEF UpHours, Tick
    <2>10. RewardUntil(n, start, E) = SumFunction(g)
      BY <2>9 DEF RewardUntil
    <2> QED
      BY <2>1, <2>3, <2>4, <2>7, <2>8, <2>10
  <1> QED
    BY <1>1, DatedInvariance, PTL
=============================================================================
