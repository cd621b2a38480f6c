------------------------- MODULE StateTotals_proofs -------------------------
(***************************************************************************)
(* The totals of StateCommit agree with the rows they count, for any chain *)
(* and any faults: of blocks, of the hours of microblocks and validators,  *)
(* and the voting powers with the validator set.                           *)
(***************************************************************************)
EXTENDS StateCommit_proofs, Sums

-----------------------------------------------------------------------------
(* The inductive invariant, beside IInv *)

\* The rows are those of the chain, and the transaction adds to the committed ones
\* only those of its block.
RowOfChain(m) ==
    m.type = Micro[m.hash].type /\ m.gas = Micro[m.hash].gas /\ m.price = Micro[m.hash].price
ChainRows ==
    /\ \A m \in db.microblocks \cup saved.microblocks : RowOfChain(m)
    /\ \A m \in db.microblocks : m.block <= indexed \/ (m.block = Height /\ at \notin {"idle", "accounts"})
    /\ {m \in db.microblocks : m.block <= indexed} = saved.microblocks

\* One block row for each height, up to the block.
TopBlock == IF at = "idle" THEN indexed ELSE Height
BlocksUpTo(d, h) ==
    /\ {b.height : b \in d.blocks} = 1 .. h
    /\ \A b, c \in d.blocks : b.height = c.height => b = c
BlockRows == BlocksUpTo(db, TopBlock) /\ BlocksUpTo(saved, indexed)

\* Block totals, in the tables and of the block in process.
Own(d, h)   == {m \in d.microblocks : m.block = h}
FeesOf(ms)  == SumFunction([m \in ms |-> m.gas * m.price])
Right(d, b) == b.microblocks = Cardinality(Own(d, b.height)) /\ b.fees = FeesOf(Own(d, b.height))
StoredCount == IF at = "row" THEN next - 1 ELSE IF at \in HasRow THEN next ELSE Len(Now.micros)
PendingFees == IF at \in HasRow THEN M.gas * M.price ELSE 0
BlockTotals ==
    /\ \A b \in db.blocks : (b.height <= indexed \/ at \in {"powers", "commit"}) => Right(db, b)
    /\ \A b \in saved.blocks : Right(saved, b)
    /\ at \in Storing \cup Done =>
          /\ Cardinality(Own(db, Height)) = StoredCount
          /\ FeesOf(Own(db, Height)) = fees + PendingFees

\* Microblock statistics; those of the microblock in process come after its row.
Uncounted == IF at \in {"sections", "object", "stats"} THEN {Mb} ELSE {}
OfKind(d, p, hour, t, g) ==
    {m \in d.microblocks : /\ m.hash \notin p /\ m.type = t /\ (m.height = 1) = g
                           /\ Micro[m.hash].hour = hour}
KindsRight(d, p) ==
    \A hour \in Hours, t \in Types, g \in BOOLEAN :
        d.mbStats[<<hour, t, g>>] = Cardinality(OfKind(d, p, hour, t, g))
MbTotals == KindsRight(db, Uncounted) /\ KindsRight(saved, {})

\* The column of a node's key is the one it declared last.
KeyColumn == "VN_COMETBFT_PUBLIC_KEY_DECLARATION"
Undeclared == IF at \in {"sections", "object"} THEN {Mb} ELSE {}
Declaring(d, p, v) == {m \in d.microblocks : m.vb = v /\ m.hash \notin p /\ Declares(m.hash) # {}}
KeyIs(d, p, v) ==
    /\ Declaring(d, p, v) = {} => d.column[v][KeyColumn] = Null
    /\ \A m \in Declaring(d, p, v) :
          (\A k \in Declaring(d, p, v) : k.height <= m.height) =>
             /\ <<"node", v>> \in d.rows
             /\ d.column[v][KeyColumn] = Micro[m.hash].sections[Max(Declares(m.hash))].value
Keys == \A v \in Hashes : KeyIs(db, Undeclared, v) /\ KeyIs(saved, {}, v)

\* Validator statistics
Made(h, hour) == {k \in 1 .. h : Block[k].commit /\ Block[k].hour = hour}
Proposed(n, h, hour) == {k \in Made(h, hour) : OnlyUser(Block[k].proposer, k - 1, n)}
SignedBy(n, h, hour) ==
    {k \in Made(h, hour) : \E i \in DOMAIN Block[k].signers :
                              /\ Block[k].signers[i].flag = 2
                              /\ OnlyUser(Block[k].signers[i].address, k - 1, n)}
Credits(d, h) ==
    \A n \in Hashes, hour \in Hours :
        /\ d.valStats[<<n, hour>>].proposed = Cardinality(Proposed(n, h, hour))
        /\ d.valStats[<<n, hour>>].signed = Cardinality(SignedBy(n, h, hour))
ValTotals == Credits(db, TopBlock) /\ Credits(saved, indexed)

\* Voting powers
IsLast(d, p) == \A q \in d.powers : q.node = p.node => q.height <= p.height
ColumnIsLast(d) ==
    \A n \in Hashes :
        /\ \A p \in d.powers : (p.node = n /\ IsLast(d, p)) => p.power = d.power[n]
        /\ (\A p \in d.powers : p.node # n) => d.power[n] = 0
        /\ d.power[n] # 0 => <<"node", n>> \in d.rows
PowerInSet(a, h) == SumFunction([v \in {v \in Block[h].validators : v.address = a} |-> v.power])
SetFollowed(d, h) ==
    /\ \A a \in Addresses : NodesAt(d, a) # {} =>
          \E n \in NodesAt(d, a) : /\ d.power[n] = PowerInSet(a, h)
                                    /\ \A m \in NodesAt(d, a) \ {n} : d.power[m] = 0
    /\ \A n \in Hashes : (\A a \in Addresses : n \notin NodesAt(d, a)) => d.power[n] = 0
PowersFollow ==
    /\ ColumnIsLast(db) /\ ColumnIsLast(saved)
    /\ at = "commit" => SetFollowed(db, Height)
    /\ indexed > 0 => SetFollowed(saved, indexed)

TInv == ChainRows /\ BlockRows /\ BlockTotals /\ MbTotals /\ Keys /\ ValTotals /\ PowersFollow

-----------------------------------------------------------------------------
(* The constants, and finite tables *)

LEMMA Image ==
    ASSUME NEW S, IsFiniteSet(S), NEW f, DOMAIN f = S
    PROVE  IsFiniteSet({f[x] : x \in S})
  <1> DEFINE T == {f[x] : x \in S}
             g == [x \in S |-> f[x]]
  <1>1. g \in Surjection(S, T)
    BY DEF Surjection
  <1> QED
    BY <1>1, FS_Surjection

LEMMA HoursFinite == IsFiniteSet(Hours)
  <1> DEFINE f == [h \in Heights |-> Block[h].hour]
             g == [m \in Hashes |-> Micro[m].hour]
  <1>1. IsFiniteSet(Heights) /\ IsFiniteSet(Hashes)
    BY Constants, FS_Interval, ChainAssumption DEF Heights
  <1>2. IsFiniteSet({f[h] : h \in Heights}) /\ IsFiniteSet({g[m] : m \in Hashes})
    BY <1>1, Image
  <1>3. Hours = {f[h] : h \in Heights} \cup {g[m] : m \in Hashes}
    BY DEF Hours
  <1> HIDE DEF f, g
  <1> QED
    BY <1>2, <1>3, FS_Union

LEMMA RowsFinite ==
    ASSUME NEW d, RowsLinked(d), \A m \in d.microblocks : m.hash \in Hashes
    PROVE  IsFiniteSet(d.microblocks)
  <1> DEFINE f == [m \in d.microblocks |-> m.hash]
  <1>1. f \in Injection(d.microblocks, Hashes)
    BY DEF RowsLinked, Injection, IsInjective
  <1> QED
    BY <1>1, FS_Injection, ChainAssumption

LEMMA TablesFinite ==
    ASSUME IInv
    PROVE  IsFiniteSet(db.microblocks) /\ IsFiniteSet(saved.microblocks)
  <1>1. RowsLinked(db) /\ RowsLinked(saved)
    BY DEF IInv, RowsInv
  <1>2. /\ \A m \in db.microblocks : m.hash \in Hashes
        /\ \A m \in saved.microblocks : m.hash \in Hashes
    BY DEF IInv, TypeInv, TypeOK, TablesType
  <1> QED
    BY <1>1, <1>2, RowsFinite

\* What is read of the committed tables and of the chain in a transaction.
LEMMA Open ==
    ASSUME IInv
    PROVE  /\ TypeInv /\ RowsInv /\ RowPending /\ PowersInv
           /\ indexed \in Nat /\ Height = indexed + 1 /\ indexed <= MaxHeight /\ MaxHeight \in Nat
           /\ at = "idle" => db = saved
           /\ at # "idle" => Height \in Heights /\ Now.micros \in Seq(Hashes) /\ Now.hour \in Hours
           /\ at \in Storing => /\ Mb \in Hashes /\ next \in 1 .. Len(Now.micros)
                                /\ M.type \in Types /\ M.hour \in Hours
                                /\ M.gas \in Nat /\ M.price \in Nat
  <1>1. TypeInv /\ RowsInv /\ RowPending /\ PowersInv
    BY DEF IInv, RowsInv
  <1>2. indexed \in Nat /\ indexed <= MaxHeight /\ MaxHeight \in Nat
    BY <1>1, Constants DEF TypeInv, TypeOK
  <1>3. at \in Storing => Mb \in Hashes
    BY <1>1, InProcess
  <1> QED
    BY <1>1, <1>2, <1>3, Block_, Constants DEF TypeInv, Control, Height, M

-----------------------------------------------------------------------------
(* The rows of microblocks *)

LEMMA ChainRowsSame ==
    ASSUME ChainRows, db'.microblocks = db.microblocks, UNCHANGED <<saved, indexed>>,
           at \in {"idle", "accounts"} \/ at' \notin {"idle", "accounts"}
    PROVE  ChainRows'
  BY DEF ChainRows, RowOfChain, Height

LEMMA NewRowFields ==
    ASSUME NEW v
    PROVE  /\ NewRow(v).hash = Mb /\ NewRow(v).vb = v /\ NewRow(v).block = Height
           /\ NewRow(v).type = M.type /\ NewRow(v).height = M.height
           /\ NewRow(v).gas = M.gas /\ NewRow(v).price = M.price
  BY DEF NewRow

LEMMA ChainRowsCommitRow ==
    ASSUME IInv, ChainRows, CommitRow
    PROVE  ChainRows'
  <1>1. PICK v \in Hashes : db'.microblocks = db.microblocks \cup {NewRow(v)}
    BY Open, CommitRowTables
  <1>2. at = "row" /\ at' = "sections" /\ UNCHANGED <<saved, indexed>> /\ Height' = Height
        /\ indexed \in Nat /\ Height = indexed + 1
    BY Open DEF CommitRow, Height
  <1>3. RowOfChain(NewRow(v)) /\ NewRow(v).block = Height
    BY NewRowFields DEF RowOfChain, M
  <1> DEFINE r == NewRow(v)
  <1> HIDE DEF r
  <1>4. \A m \in db'.microblocks \cup saved'.microblocks : RowOfChain(m)
    BY <1>1, <1>2, <1>3 DEF ChainRows, r
  <1>5. \A m \in db'.microblocks : m.block <= indexed \/ m.block = Height
    BY <1>1, <1>3 DEF ChainRows, r
  <1>6. {m \in db'.microblocks : m.block <= indexed} = {m \in db.microblocks : m.block <= indexed}
    BY <1>1, <1>2, <1>3 DEF r
  <1> QED
    BY <1>2, <1>4, <1>5, <1>6 DEF ChainRows, RowOfChain

LEMMA ChainRowsCommit ==
    ASSUME IInv, ChainRows, Commit
    PROVE  ChainRows'
  <1>1. indexed' = indexed + 1 /\ saved' = db /\ db' = db /\ indexed \in Nat /\ Height = indexed + 1
    BY Open DEF Commit
  <1>2. \A m \in db.microblocks : m.block \in Nat
    BY DEF IInv, TypeInv, TypeOK, TablesType, Heights
  <1>3. \A m \in db.microblocks : m.block <= indexed'
    BY <1>1, <1>2 DEF ChainRows
  <1> QED
    BY <1>1, <1>3 DEF ChainRows, RowOfChain

LEMMA ChainRowsFail ==
    ASSUME IInv, ChainRows, Fail
    PROVE  ChainRows'
  <1>1. indexed' = indexed /\ saved' = saved /\ db' = saved
    BY DEF Fail, Rollback
  <1>2. \A m \in saved.microblocks : m.block <= indexed
    BY DEF ChainRows
  <1> QED
    BY <1>1, <1>2 DEF ChainRows, RowOfChain

-----------------------------------------------------------------------------
(* The rows of blocks *)

LEMMA BlockRowsSame ==
    ASSUME BlockRows, db'.blocks = db.blocks, UNCHANGED <<saved, indexed>>,
           (at = "idle") = (at' = "idle")
    PROVE  BlockRows'
  BY DEF BlockRows, BlocksUpTo, TopBlock, Height

LEMMA BlockRowsCommitBlock ==
    ASSUME IInv, BlockRows, CommitBlock
    PROVE  BlockRows'
  <1>1. db'.blocks = db.blocks \cup {BlockRow} /\ BlockRow.height = Height
        /\ UNCHANGED <<saved, indexed>> /\ at = "idle" /\ at' = "accounts"
        /\ indexed \in Nat /\ Height = indexed + 1 /\ Height' = Height
    BY Open, CommitBlockTables DEF CommitBlock, BlockRow, Height
  <1>2. {b.height : b \in db.blocks} = 1 .. indexed
        /\ \A b, c \in db.blocks : b.height = c.height => b = c
    BY <1>1 DEF BlockRows, BlocksUpTo, TopBlock
  <1>3. {b.height : b \in db'.blocks} = 1 .. Height
    <2>1. {b.height : b \in db'.blocks} = {b.height : b \in db.blocks} \cup {Height}
      BY <1>1
    <2>2. 1 .. Height = (1 .. indexed) \cup {Height}
      BY <1>1
    <2> QED
      BY <1>2, <2>1, <2>2
  <1>4. \A b \in db.blocks : b.height # Height
    <2>1. \A b \in db.blocks : b.height \in 1 .. indexed
      BY <1>2
    <2> QED
      BY <1>1, <2>1
  <1>5. \A b, c \in db'.blocks : b.height = c.height => b = c
    BY <1>1, <1>2, <1>4
  <1> QED
    BY <1>1, <1>3, <1>5 DEF BlockRows, BlocksUpTo, TopBlock

LEMMA TotalledFields ==
    ASSUME TypeInv, at # "idle", NEW b \in db.blocks
    PROVE  /\ Totalled(b).height = b.height
           /\ b.height # Height => Totalled(b) = b
           /\ b.height = Height => /\ Totalled(b).microblocks = Len(Now.micros)
                                   /\ Totalled(b).fees = fees
  <1>1. PICK h \in Heights, o \in Hours, m \in Nat, f \in Nat :
            b = [height |-> h, hour |-> o, microblocks |-> m, fees |-> f]
    BY DEF TypeInv, TypeOK, TablesType
  <1> QED
    BY <1>1 DEF Totalled

LEMMA BlockRowsTotals ==
    ASSUME IInv, BlockRows, CommitBlockMicroblocksAndFees
    PROVE  BlockRows'
  <1>1. /\ db'.blocks = {Totalled(b) : b \in db.blocks}
        /\ UNCHANGED <<saved, indexed>> /\ at = "totals" /\ at' = "powers" /\ TypeInv
    BY Open, TotalsTables DEF CommitBlockMicroblocksAndFees
  <1>2. \A b \in db.blocks : Totalled(b).height = b.height
    BY <1>1, TotalledFields
  <1>3. {b.height : b \in db'.blocks} = {b.height : b \in db.blocks}
    BY <1>1, <1>2
  <1>4. \A b, c \in db.blocks : b.height = c.height => b = c
    BY DEF BlockRows, BlocksUpTo
  <1>5. \A b, c \in db'.blocks : b.height = c.height => b = c
    BY <1>1, <1>2, <1>4
  <1> QED
    BY <1>1, <1>3, <1>5 DEF BlockRows, BlocksUpTo, TopBlock, Height

LEMMA BlockRowsCommit ==
    ASSUME IInv, BlockRows, Commit
    PROVE  BlockRows'
  BY DEF BlockRows, BlocksUpTo, TopBlock, Commit, Height

LEMMA BlockRowsFail ==
    ASSUME IInv, BlockRows, Fail
    PROVE  BlockRows'
  BY DEF BlockRows, BlocksUpTo, TopBlock, Fail, Rollback, Height

-----------------------------------------------------------------------------
(* The totals of blocks *)

LEMMA Product == \A i, j \in Nat : i * j \in Nat
  OBVIOUS

LEMMA FeesAdd ==
    ASSUME NEW ms, IsFiniteSet(ms), NEW r, r \notin ms,
           \A m \in ms \cup {r} : m.gas \in Nat /\ m.price \in Nat
    PROVE  FeesOf(ms \cup {r}) = FeesOf(ms) + r.gas * r.price
  <1> DEFINE f == [m \in ms |-> m.gas * m.price]
             g == [m \in ms \cup {r} |-> m.gas * m.price]
  <1>1. \A m \in ms \cup {r} : g[m] \in Nat
    BY Product
  <1>2. SumFunctionOnSet(g, ms \cup {r}) = g[r] + SumFunctionOnSet(g, ms)
    BY <1>1, SumAdd
  <1>3. \A m \in ms : g[m] = f[m]
    OBVIOUS
  <1>4. SumFunctionOnSet(g, ms) = SumFunctionOnSet(f, ms)
    BY <1>3, SumSame
  <1>5. SumFunctionOnSet(g, ms) \in Nat
    BY <1>1, SumNat
  <1>6. /\ FeesOf(ms \cup {r}) = SumFunctionOnSet(g, ms \cup {r})
        /\ FeesOf(ms) = SumFunctionOnSet(f, ms)
    BY DEF FeesOf, SumFunction
  <1>7. g[r] = r.gas * r.price /\ g[r] \in Nat
    BY <1>1
  <1> HIDE DEF f, g
  <1> QED
    BY <1>2, <1>4, <1>5, <1>6, <1>7

LEMMA NoFees == FeesOf({}) = 0
  BY SumEmpty DEF FeesOf, SumFunction

LEMMA OwnRows ==
    ASSUME IInv, NEW h
    PROVE  /\ IsFiniteSet(Own(db, h)) /\ Cardinality(Own(db, h)) \in Nat
           /\ \A m \in Own(db, h) : m.gas \in Nat /\ m.price \in Nat
  <1>1. IsFiniteSet(Own(db, h))
    BY TablesFinite, FS_Subset DEF Own
  <1> QED
    BY <1>1, FS_CardinalityType DEF Own, IInv, TypeInv, TypeOK, TablesType

\* A step that adds no row of a microblock or of a block.
LEMMA BlockTotalsSame ==
    ASSUME BlockTotals, db'.microblocks = db.microblocks, db'.blocks = db.blocks,
           UNCHANGED <<saved, indexed, next, fees>>,
           \/ at \in HasRow /\ at' \in HasRow
           \/ at = "powers" /\ at' = "commit"
    PROVE  BlockTotals'
  <1>1. \A h : Own(db', h) = Own(db, h)
    BY DEF Own
  <1>2. StoredCount' = StoredCount /\ PendingFees' = PendingFees /\ Height' = Height
    BY DEF StoredCount, PendingFees, HasRow, Done, M, Mb, Now, Height
  <1>3. (at \in {"powers", "commit"}) = (at' \in {"powers", "commit"})
        /\ at \in Storing \cup Done
    BY DEF HasRow, Done, Storing
  <1> QED
    BY <1>1, <1>2, <1>3 DEF BlockTotals, Right

LEMMA BlockTotalsCommitBlock ==
    ASSUME IInv, BlockTotals, CommitBlock
    PROVE  BlockTotals'
  <1>1. /\ db'.blocks = db.blocks \cup {BlockRow} /\ BlockRow.height = Height
        /\ db'.microblocks = db.microblocks
        /\ UNCHANGED <<saved, indexed>> /\ at' = "accounts"
        /\ indexed \in Nat /\ Height = indexed + 1
    BY Open, CommitBlockTables DEF CommitBlock, BlockRow
  <1>2. \A h : Own(db', h) = Own(db, h)
    BY <1>1 DEF Own
  <1> QED
    BY <1>1, <1>2 DEF BlockTotals, Right, Storing, Done

LEMMA BlockTotalsSyncModifiedAccounts ==
    ASSUME IInv, ChainRows, BlockTotals, SyncModifiedAccounts
    PROVE  BlockTotals'
  <1>1. /\ db'.blocks = db.blocks /\ db'.microblocks = db.microblocks
        /\ UNCHANGED <<saved, indexed>> /\ at = "accounts"
        /\ at' = (IF Now.micros = <<>> THEN "totals" ELSE "row")
        /\ next' = 1 /\ fees' = 0
        /\ indexed \in Nat /\ Height = indexed + 1 /\ Height' = Height /\ Now' = Now
    BY Open, SyncModifiedAccountsTables DEF SyncModifiedAccounts, Now, Height
  <1>2. \A h : Own(db', h) = Own(db, h)
    BY <1>1 DEF Own
  <1>3. Own(db, Height) = {}
    <2>1. \A m \in db.microblocks : m.block <= indexed
      BY <1>1 DEF ChainRows
    <2> QED
      BY <1>1, <2>1 DEF Own
  <1>4. StoredCount' = 0 /\ PendingFees' = 0
    BY <1>1 DEF StoredCount, PendingFees, HasRow, Done
  <1>5. Cardinality(Own(db', Height')) = 0 /\ FeesOf(Own(db', Height')) = 0
    BY <1>1, <1>2, <1>3, NoFees, FS_EmptySet
  <1>6. at' \notin {"powers", "commit"}
    BY <1>1
  <1> QED
    BY <1>1, <1>2, <1>4, <1>5, <1>6 DEF BlockTotals, Right

LEMMA BlockTotalsCommitRow ==
    ASSUME IInv, BlockTotals, CommitRow
    PROVE  BlockTotals'
  <1>1. PICK v \in Hashes : db'.microblocks = db.microblocks \cup {NewRow(v)} /\ db'.blocks = db.blocks
    BY Open, CommitRowTables
  <1>2. /\ UNCHANGED <<saved, indexed, next, fees>> /\ at = "row" /\ at' = "sections"
        /\ indexed \in Nat /\ Height = indexed + 1 /\ Height' = Height /\ M' = M
        /\ M.gas \in Nat /\ M.price \in Nat /\ next \in Nat
    BY Open DEF CommitRow, Height, M, Mb, Now, Storing
  <1> DEFINE r == NewRow(v)
  <1>3. r.hash = Mb /\ r.block = Height /\ r.gas = M.gas /\ r.price = M.price
    BY NewRowFields
  <1>4. r \notin db.microblocks
    BY <1>2, <1>3, Open, NotStoredYet
  <1>5. db'.microblocks = db.microblocks \cup {r}
    BY <1>1
  <1> HIDE DEF r
  <1>6. Own(db', Height) = Own(db, Height) \cup {r} /\ r \notin Own(db, Height)
    BY <1>3, <1>4, <1>5 DEF Own
  <1>7. \A h : h # Height => Own(db', h) = Own(db, h)
    BY <1>3, <1>5 DEF Own
  <1>8. /\ Cardinality(Own(db', Height)) = Cardinality(Own(db, Height)) + 1
        /\ FeesOf(Own(db', Height)) = FeesOf(Own(db, Height)) + M.gas * M.price
    <2>1. IsFiniteSet(Own(db, Height))
          /\ \A m \in Own(db, Height) \cup {r} : m.gas \in Nat /\ m.price \in Nat
      BY <1>2, <1>3, OwnRows
    <2> QED
      BY <1>3, <1>6, <2>1, FeesAdd, FS_AddElement
  <1>9. Cardinality(Own(db, Height)) = next - 1 /\ FeesOf(Own(db, Height)) = fees + 0
    BY <1>2 DEF BlockTotals, Storing, StoredCount, PendingFees, HasRow
  <1>10. fees \in Nat
    BY Open DEF TypeInv, TypeOK
  <1>11. StoredCount' = next /\ PendingFees' = M.gas * M.price
    BY <1>2 DEF StoredCount, PendingFees, HasRow
  <1>12. \A b \in db'.blocks : b.height <= indexed => Right(db', b)
    BY <1>1, <1>2, <1>7 DEF BlockTotals, Right
  <1>13. Cardinality(Own(db', Height)) = next /\ FeesOf(Own(db', Height)) = fees + M.gas * M.price
    BY <1>2, <1>8, <1>9, <1>10
  <1> QED
    BY <1>2, <1>11, <1>12, <1>13 DEF BlockTotals, Right

LEMMA BlockTotalsUpdateVirtualBlockchain ==
    ASSUME IInv, BlockTotals, UpdateVirtualBlockchain
    PROVE  BlockTotals'
  <1>1. /\ db'.blocks = db.blocks /\ db'.microblocks = db.microblocks
        /\ UNCHANGED <<saved, indexed>> /\ at = "head"
        /\ fees' = fees + M.gas * M.price
        /\ Height' = Height /\ Now' = Now
    BY Open, UpdateVirtualBlockchainTables DEF UpdateVirtualBlockchain, Now, Height
  <1>2. /\ next \in 1 .. Len(Now.micros) /\ Len(Now.micros) \in Nat
        /\ \/ next' = next + 1 /\ at' = "row"
           \/ next = Len(Now.micros) /\ at' = "totals"
    <2>1. at \in Storing
      BY <1>1 DEF Storing
    <2>2. next \in 1 .. Len(Now.micros) /\ Len(Now.micros) \in Nat
      BY <1>1, <2>1, Open
    <2> QED
      BY <2>2 DEF UpdateVirtualBlockchain
  <1>3. \A h : Own(db', h) = Own(db, h)
    BY <1>1 DEF Own
  <1>4. StoredCount = next /\ PendingFees = M.gas * M.price /\ at \in Storing
    BY <1>1 DEF StoredCount, PendingFees, HasRow, Storing
  <1>5. StoredCount' = next /\ PendingFees' = 0
    BY <1>1, <1>2 DEF StoredCount, PendingFees, HasRow, Done
  <1>6. fees + M.gas * M.price \in Nat /\ at' \notin {"powers", "commit"}
    <2>1. fees' \in Nat
      BY Open, UpdateVirtualBlockchainTypes DEF TypeInv, TypeOK
    <2> QED
      BY <1>1, <1>2, <2>1
  <1>7. fees' + PendingFees' = fees + PendingFees
    BY <1>1, <1>4, <1>5, <1>6
  <1> QED
    BY <1>1, <1>3, <1>4, <1>5, <1>6, <1>7 DEF BlockTotals, Right

LEMMA BlockTotalsTotals ==
    ASSUME IInv, BlockRows, BlockTotals, CommitBlockMicroblocksAndFees
    PROVE  BlockTotals'
  <1>1. /\ db'.blocks = {Totalled(b) : b \in db.blocks} /\ db'.microblocks = db.microblocks
        /\ UNCHANGED <<saved, indexed, next, fees>> /\ at = "totals" /\ at' = "powers"
        /\ Height' = Height /\ Now' = Now /\ TypeInv /\ fees \in Nat
        /\ indexed \in Nat /\ Height = indexed + 1
    BY Open, TotalsTables DEF CommitBlockMicroblocksAndFees, Now, Height, TypeInv, TypeOK
  <1>2. \A h : Own(db', h) = Own(db, h)
    BY <1>1 DEF Own
  <1>3. Cardinality(Own(db, Height)) = Len(Now.micros) /\ FeesOf(Own(db, Height)) = fees + 0
    BY <1>1 DEF BlockTotals, StoredCount, PendingFees, HasRow, Done
  <1>4. ASSUME NEW b \in db.blocks, b.height <= indexed \/ b.height = Height
        PROVE  Right(db, Totalled(b))
    <2>1. CASE b.height = Height
      BY <1>1, <1>3, <2>1, TotalledFields DEF Right
    <2>2. CASE b.height # Height
      BY <1>1, <1>4, <2>2, TotalledFields DEF BlockTotals
    <2> QED
      BY <2>1, <2>2
  <1> QED
    <2>1. \A b \in db.blocks : b.height <= indexed \/ b.height = Height
      <3>1. \A b \in db.blocks : b.height \in 1 .. Height
        BY <1>1 DEF BlockRows, BlocksUpTo, TopBlock
      <3> QED
        BY <1>1, <3>1
    <2>2. \A b \in db'.blocks : Right(db', b)
      <3>1. \A b \in db'.blocks : Right(db, b)
        BY <1>1, <1>4, <2>1
      <3> QED
        BY <1>2, <3>1 DEF Right
    <2>3. StoredCount' = Len(Now.micros) /\ PendingFees' = 0
      BY <1>1 DEF StoredCount, PendingFees, HasRow
    <2> QED
      BY <1>1, <1>2, <1>3, <2>2, <2>3 DEF BlockTotals, Right

LEMMA BlockTotalsCommit ==
    ASSUME IInv, BlockRows, BlockTotals, Commit
    PROVE  BlockTotals'
  <1>1. /\ at = "commit" /\ at' = "idle" /\ saved' = db /\ db' = db
    BY DEF Commit
  <1>2. \A b \in db.blocks : Right(db, b)
    BY <1>1 DEF BlockTotals
  <1> QED
    BY <1>1, <1>2 DEF BlockTotals, Right, Own, Storing, Done

LEMMA BlockTotalsFail ==
    ASSUME IInv, BlockTotals, Fail
    PROVE  BlockTotals'
  <1>1. at' = "idle" /\ saved' = saved /\ db' = saved
    BY DEF Fail, Rollback
  <1> QED
    BY <1>1 DEF BlockTotals, Right, Own, Storing, Done

-----------------------------------------------------------------------------
(* The statistics of microblocks *)

LEMMA OfKindFinite ==
    ASSUME IInv, NEW p, NEW hour, NEW t, NEW g
    PROVE  /\ IsFiniteSet(OfKind(db, p, hour, t, g))
           /\ Cardinality(OfKind(db, p, hour, t, g)) \in Nat
  <1>1. IsFiniteSet(OfKind(db, p, hour, t, g))
    BY TablesFinite, FS_Subset DEF OfKind
  <1> QED
    BY <1>1, FS_CardinalityType

LEMMA MbTotalsSame ==
    ASSUME MbTotals, db'.microblocks = db.microblocks, db'.mbStats = db.mbStats,
           UNCHANGED saved, Uncounted' = Uncounted
    PROVE  MbTotals'
  BY DEF MbTotals, KindsRight, OfKind

LEMMA MbTotalsCommitRow ==
    ASSUME IInv, MbTotals, CommitRow
    PROVE  MbTotals'
  <1>1. PICK v \in Hashes : /\ db'.microblocks = db.microblocks \cup {NewRow(v)}
                            /\ db'.mbStats = db.mbStats
    BY Open, CommitRowTables
  <1>2. UNCHANGED saved /\ at = "row" /\ at' = "sections" /\ Mb' = Mb
    BY DEF CommitRow, Mb, Now, Height
  <1>3. \A m \in db.microblocks : m.hash # Mb
    BY <1>2, Open, NotStoredYet
  <1>4. Uncounted = {} /\ Uncounted' = {Mb}
    BY <1>2 DEF Uncounted
  <1>5. \A hour, t, g : OfKind(db', Uncounted', hour, t, g) = OfKind(db, Uncounted, hour, t, g)
    <2> SUFFICES ASSUME NEW hour, NEW t, NEW g
                 PROVE  OfKind(db', {Mb}, hour, t, g) = OfKind(db, {}, hour, t, g)
      BY <1>4
    <2>1. NewRow(v).hash = Mb
      BY NewRowFields
    <2> QED
      BY <1>1, <1>3, <2>1 DEF OfKind
  <1>6. KindsRight(db', Uncounted')
    <2> SUFFICES ASSUME NEW hour \in Hours, NEW t \in Types, NEW g \in BOOLEAN
                 PROVE  db'.mbStats[<<hour, t, g>>] = Cardinality(OfKind(db', Uncounted', hour, t, g))
      BY DEF KindsRight
    <2>1. db.mbStats[<<hour, t, g>>] = Cardinality(OfKind(db, Uncounted, hour, t, g))
      BY DEF MbTotals, KindsRight
    <2> QED
      BY <1>1, <1>5, <2>1
  <1> QED
    BY <1>2, <1>6 DEF MbTotals

LEMMA MbTotalsUpdateMicroblockStats ==
    ASSUME IInv, ChainRows, MbTotals, UpdateMicroblockStats
    PROVE  MbTotals'
  <1>1. /\ db'.mbStats = [db.mbStats EXCEPT ![Bucket] = @ + 1]
        /\ db'.microblocks = db.microblocks
        /\ at = "stats" /\ at' = "head" /\ UNCHANGED saved
    BY Open, UpdateMicroblockStatsTables DEF UpdateMicroblockStats
  <1>2. M.type \in Types /\ M.hour \in Hours /\ Mb \in Hashes
    BY <1>1, Open DEF Storing
  <1>3. db.mbStats \in [Hours \X Types \X BOOLEAN -> Nat]
    BY DEF IInv, TypeInv, TypeOK, TablesType
  <1>4. PICK row \in db.microblocks : row.hash = Mb
    BY <1>1, Open DEF RowPending, HasRow
  <1>5. \A m \in db.microblocks : m.hash = Mb => m = row
    BY <1>4, Open DEF RowsInv, RowsLinked
  <1>6. row.type = M.type /\ row.height = M.height
    BY <1>4, Open DEF ChainRows, RowOfChain, M, RowsInv, RowsLinked, FromChain
  <1>7. Uncounted = {Mb} /\ Uncounted' = {}
    BY <1>1 DEF Uncounted
  <1> SUFFICES ASSUME NEW hour \in Hours, NEW t \in Types, NEW g \in BOOLEAN
               PROVE  db'.mbStats[<<hour, t, g>>] = Cardinality(OfKind(db', {}, hour, t, g))
    BY <1>1, <1>7 DEF MbTotals, KindsRight
  <1> DEFINE kept == OfKind(db, {Mb}, hour, t, g)
  <1>8. db.mbStats[<<hour, t, g>>] = Cardinality(kept)
    BY <1>7 DEF MbTotals, KindsRight
  <1>9. IsFiniteSet(kept) /\ Cardinality(kept) \in Nat
    BY OfKindFinite
  <1>10. <<hour, t, g>> \in Hours \X Types \X BOOLEAN
    OBVIOUS
  <1>11. Micro[row.hash].hour = M.hour
    BY <1>4 DEF M
  <1>12. CASE hour = M.hour /\ t = M.type /\ g = (M.height = 1)
    <2>1. OfKind(db', {}, hour, t, g) = kept \cup {row} /\ row \notin kept
      BY <1>1, <1>4, <1>5, <1>6, <1>11, <1>12 DEF OfKind
    <2>2. Cardinality(OfKind(db', {}, hour, t, g)) = Cardinality(kept) + 1
      BY <1>9, <2>1, FS_AddElement
    <2>3. Bucket = <<hour, t, g>>
      BY <1>12 DEF Bucket
    <2>4. db'.mbStats[<<hour, t, g>>] = db.mbStats[<<hour, t, g>>] + 1
      BY <1>1, <1>3, <1>10, <2>3
    <2> QED
      BY <1>8, <2>2, <2>4
  <1>13. CASE ~(hour = M.hour /\ t = M.type /\ g = (M.height = 1))
    <2>1. OfKind(db', {}, hour, t, g) = kept
      BY <1>1, <1>5, <1>6, <1>11, <1>13 DEF OfKind
    <2>2. <<hour, t, g>> # Bucket
      BY <1>13 DEF Bucket
    <2>3. db'.mbStats[<<hour, t, g>>] = db.mbStats[<<hour, t, g>>]
      BY <1>1, <1>3, <1>10, <2>2
    <2> QED
      BY <1>8, <2>1, <2>3
  <1> QED
    BY <1>12, <1>13

LEMMA MbTotalsCommit ==
    ASSUME MbTotals, Commit
    PROVE  MbTotals'
  <1>1. Uncounted = {} /\ Uncounted' = {} /\ saved' = db /\ db' = db
    BY DEF Uncounted, Commit
  <1> QED
    BY <1>1 DEF MbTotals

LEMMA MbTotalsFail ==
    ASSUME MbTotals, Fail
    PROVE  MbTotals'
  <1>1. Uncounted' = {} /\ saved' = saved /\ db' = saved
    BY DEF Uncounted, Fail, Rollback
  <1> QED
    BY <1>1 DEF MbTotals

-----------------------------------------------------------------------------
(* The keys of nodes *)

LEMMA KeysSame ==
    ASSUME Keys, db'.microblocks = db.microblocks, db'.column = db.column,
           db.rows \subseteq db'.rows, UNCHANGED saved, Undeclared' = Undeclared
    PROVE  Keys'
  <1>1. \A v \in Hashes : Declaring(db', Undeclared', v) = Declaring(db, Undeclared, v)
    BY DEF Declaring
  <1>2. \A v \in Hashes : KeyIs(db', Undeclared', v)
    BY <1>1 DEF Keys, KeyIs
  <1> QED
    BY <1>2 DEF Keys

LEMMA KeysCommitRow ==
    ASSUME IInv, Keys, CommitRow
    PROVE  Keys'
  <1>1. PICK v \in Hashes : /\ db'.microblocks = db.microblocks \cup {NewRow(v)}
                            /\ db'.column = db.column /\ db'.rows = db.rows
    BY Open, CommitRowTables
  <1>2. UNCHANGED saved /\ at = "row" /\ at' = "sections" /\ Mb' = Mb
    BY DEF CommitRow, Mb, Now, Height
  <1>3. \A m \in db.microblocks : m.hash # Mb
    BY <1>2, Open, NotStoredYet
  <1>4. Undeclared = {} /\ Undeclared' = {Mb}
    BY <1>2 DEF Undeclared
  <1>5. \A w : Declaring(db', Undeclared', w) = Declaring(db, Undeclared, w)
    BY <1>1, <1>3, <1>4, NewRowFields DEF Declaring
  <1>6. \A w \in Hashes : KeyIs(db', Undeclared', w)
    BY <1>1, <1>5 DEF Keys, KeyIs
  <1> QED
    BY <1>2, <1>6 DEF Keys

\* The row of the microblock in process is the highest one of its virtual blockchain.
LEMMA RowInProcess ==
    ASSUME IInv, at \in HasRow
    PROVE  \E row \in db.microblocks :
              /\ row.hash = Mb /\ row.vb = Vb /\ Vb \in Hashes /\ Mb \in Hashes
              /\ \A m \in db.microblocks : m.hash = Mb => m = row
              /\ \A m \in db.microblocks : m.vb = Vb => m.height <= row.height
              /\ \A m \in db.microblocks : (m.vb = Vb /\ m # row) => m.height < row.height
  <1>1. Vb \in Hashes
    BY Open, VbIs
  <1>2. PICK row \in db.microblocks : row.hash = Mb /\ row.vb = Vb
    BY Open, VbIs
  <1>3. \A m \in db.microblocks : m.hash = Mb => m = row
    BY <1>2, Open DEF RowsInv, RowsLinked
  <1>4. row.height = db.vbs[Vb].height + 1 /\ db.vbs[Vb].height \in Nat
    BY <1>1, <1>2, Open DEF RowPending, TypeInv, TypeOK, TablesType
  <1>5. \A m \in db.microblocks : m.height \in Nat
    BY Open DEF TypeInv, TypeOK, TablesType
  <1>6. \A m \in db.microblocks : (m.vb = Vb /\ m # row) => m.height <= db.vbs[Vb].height
    BY <1>1, <1>3, Open DEF RowsInv, Heads, HeadOf, Counted, Pending
  <1>7. Mb \in Hashes
    BY Open DEF HasRow, Storing
  <1> QED
    BY <1>1, <1>2, <1>3, <1>4, <1>5, <1>6, <1>7

LEMMA KeysSaveObject ==
    ASSUME IInv, Keys, SaveObject
    PROVE  Keys'
  <1>1. at = "object" /\ at' = "stats" /\ UNCHANGED saved /\ TypeInv
    BY Open DEF SaveObject
  <1>2. PICK row \in db.microblocks :
            /\ row.hash = Mb /\ row.vb = Vb /\ Vb \in Hashes /\ Mb \in Hashes
            /\ \A m \in db.microblocks : m.hash = Mb => m = row
            /\ \A m \in db.microblocks : m.vb = Vb => m.height <= row.height
            /\ \A m \in db.microblocks : (m.vb = Vb /\ m # row) => m.height < row.height
    BY <1>1, RowInProcess DEF HasRow
  <1>3. Undeclared = {Mb} /\ Undeclared' = {}
    BY <1>1 DEF Undeclared
  <1>4. /\ db'.microblocks = db.microblocks
        /\ \/ Declared = {} /\ db'.rows = db.rows /\ db'.column = db.column
           \/ /\ Declared # {}
              /\ db'.rows = db.rows \cup {<<M.type, Vb>>}
              /\ db'.column = [db.column EXCEPT ![Vb] =
                    [k \in Kinds |-> IF k \in Declared THEN Value(k) ELSE @[k]]]
    BY <1>1, SaveObjectTables
  <1>5. KeyColumn \in Kinds /\ DOMAIN db.column = Hashes
    BY <1>1 DEF KeyColumn, Kinds, NodeSections, TypeInv, Columns
  <1>6. \A i : \A m \in db.microblocks : m.height \in Nat
    BY <1>1 DEF TypeInv, TypeOK, TablesType
  <1>7. /\ KeyColumn \in Declared <=> Declares(Mb) # {}
        /\ Declares(Mb) # {} => M.type = "node" /\ Value(KeyColumn) = M.sections[Max(Declares(Mb))].value
    <2>1. M.type \in Types
      BY <1>1, Open DEF Storing
    <2>2. KeyColumn \in SectionsOf(M.type) <=> M.type = "node"
      BY <2>1 DEF KeyColumn, SectionsOf, Types, AccountSections, NodeSections,
                  OrganizationSections, ApplicationSections
    <2>3. Declares(Mb) = {i \in DOMAIN M.sections : M.type = "node" /\ M.sections[i].kind = KeyColumn}
      BY DEF Declares, M, KeyColumn
    <2>4. M.type = "node" => Declares(Mb) = {i \in DOMAIN M.sections : M.sections[i].kind = KeyColumn}
      BY <2>3
    <2>5. KeyColumn \in Declared <=> Declares(Mb) # {}
      BY <2>2, <2>3 DEF Declared
    <2>6. Declares(Mb) # {} => M.type = "node"
      BY <2>3
    <2> QED
      BY <2>4, <2>5, <2>6 DEF Value
  <1> SUFFICES ASSUME NEW v \in Hashes PROVE KeyIs(db', {}, v)
    BY <1>1, <1>3 DEF Keys
  <1>8. KeyIs(db, {Mb}, v)
    BY <1>3 DEF Keys
  <1>9. CASE v # Vb \/ Declares(Mb) = {}
    <2>1. Declaring(db', {}, v) = Declaring(db, {Mb}, v)
      BY <1>2, <1>4, <1>9 DEF Declaring
    <2>2. db'.column[v][KeyColumn] = db.column[v][KeyColumn] /\ db.rows \subseteq db'.rows
      <3>1. CASE v # Vb
        BY <1>4, <1>5, <3>1
      <3>2. CASE KeyColumn \notin Declared
        BY <1>2, <1>4, <1>5, <3>2
      <3> QED
        BY <1>7, <1>9, <3>1, <3>2
    <2> QED
      BY <1>8, <2>1, <2>2 DEF KeyIs
  <1>10. CASE v = Vb /\ Declares(Mb) # {}
    <2>1. row \in Declaring(db', {}, v)
      BY <1>2, <1>4, <1>10 DEF Declaring
    <2>2. \A m \in Declaring(db', {}, v) : (\A k \in Declaring(db', {}, v) : k.height <= m.height) => m = row
      <3> SUFFICES ASSUME NEW m \in Declaring(db', {}, v), row.height <= m.height, m # row
                   PROVE  FALSE
        BY <2>1
      <3>1. m \in db.microblocks /\ m.vb = Vb
        BY <1>4, <1>10 DEF Declaring
      <3>2. m.height < row.height /\ m.height \in Nat /\ row.height \in Nat
        BY <1>2, <1>6, <3>1
      <3> QED
        BY <3>2
    <2>3. <<"node", v>> \in db'.rows /\ db'.column[v][KeyColumn] = Value(KeyColumn)
      BY <1>2, <1>4, <1>5, <1>7, <1>10
    <2>4. db'.column[v][KeyColumn] = Micro[row.hash].sections[Max(Declares(row.hash))].value
      BY <1>2, <1>7, <1>10, <2>3 DEF M
    <2> QED
      BY <2>1, <2>2, <2>3, <2>4 DEF KeyIs
  <1> QED
    BY <1>9, <1>10

LEMMA KeysCommit ==
    ASSUME Keys, Commit
    PROVE  Keys'
  <1>1. Undeclared = {} /\ Undeclared' = {} /\ saved' = db /\ db' = db
    BY DEF Undeclared, Commit
  <1> QED
    BY <1>1 DEF Keys

LEMMA KeysFail ==
    ASSUME Keys, Fail
    PROVE  Keys'
  <1>1. Undeclared' = {} /\ saved' = saved /\ db' = saved
    BY DEF Undeclared, Fail, Rollback
  <1> QED
    BY <1>1 DEF Keys

\* The nodes that use a key are those whose column has it.
LEMMA UsersAre ==
    ASSUME IInv, ChainRows, Keys, NEW a \in Addresses
    PROVE  Users(a, indexed) = NodesAt(saved, a)
  <1> SUFFICES ASSUME NEW v \in Hashes
               PROVE  (KeyOf(v, indexed) = a)
                         <=> (<<"node", v>> \in saved.rows /\ saved.column[v][KeyColumn] = a)
    BY DEF Users, NodesAt, KeyColumn
  <1> DEFINE declaring == {m \in saved.microblocks :
                             m.vb = v /\ m.block <= indexed /\ Declares(m.hash) # {}}
             newest == CHOOSE m \in declaring : \A k \in declaring : k.height <= m.height
  <1>1. Null # a
    BY ChainAssumption
  <1>2. KeyIs(saved, {}, v)
    BY DEF Keys
  <1>3. declaring = Declaring(saved, {}, v)
    BY DEF ChainRows, Declaring
  <1>4. CASE declaring = {}
    <2>1. KeyOf(v, indexed) = Null
      BY <1>4 DEF KeyOf
    <2> QED
      BY <1>1, <1>2, <1>3, <1>4, <2>1 DEF KeyIs
  <1>5. CASE declaring # {}
    <2>1. \E m \in declaring : \A k \in declaring : k.height <= m.height
      <3> DEFINE f == [m \in declaring |-> m.height]
                 hs == {f[m] : m \in declaring}
      <3>1. IsFiniteSet(declaring)
        BY TablesFinite, FS_Subset
      <3>2. IsFiniteSet(hs) /\ hs # {}
        BY <1>5, <3>1, Image
      <3>3. hs \subseteq Nat
        BY Open DEF TypeInv, TypeOK, TablesType
      <3>4. \E x \in hs : \A y \in hs : y <= x
        BY <3>2, <3>3, Greatest
      <3> QED
        BY <3>4
    <2>2. newest \in declaring /\ \A k \in declaring : k.height <= newest.height
      BY <2>1
    <2>3. KeyOf(v, indexed) = Micro[newest.hash].sections[Max(Declares(newest.hash))].value
      BY <1>5 DEF KeyOf
    <2> HIDE DEF newest, declaring
    <2> QED
      BY <1>2, <1>3, <2>2, <2>3 DEF KeyIs
  <1> QED
    BY <1>4, <1>5

-----------------------------------------------------------------------------
(* The statistics of validators *)

\* KeyOf() looks at the rows that declare a key, and takes the highest one.
DeclaringUpTo(d, v, h) == {m \in d.microblocks : m.vb = v /\ m.block <= h /\ Declares(m.hash) # {}}
Newest(ms) == CHOOSE m \in ms : \A k \in ms : k.height <= m.height
KeyFrom(ms) ==
    IF ms = {} THEN Null ELSE Micro[Newest(ms).hash].sections[Max(Declares(Newest(ms).hash))].value

LEMMA KeyOfIs == \A v, h : KeyOf(v, h) = KeyFrom(DeclaringUpTo(saved, v, h))
  BY DEF KeyOf, KeyFrom, Newest, DeclaringUpTo

\* What is counted of a block depends on the rows of the blocks before it.
LEMMA CreditedSame ==
    ASSUME NEW x \in Nat,
           \A v : \A h \in Nat : h < x => DeclaringUpTo(saved, v, h)' = DeclaringUpTo(saved, v, h)
    PROVE  \A n, hour : /\ Proposed(n, x, hour)' = Proposed(n, x, hour)
                        /\ SignedBy(n, x, hour)' = SignedBy(n, x, hour)
  <1>1. \A v, h : KeyOf(v, h)' = KeyFrom(DeclaringUpTo(saved, v, h)')
    BY DEF KeyOf, KeyFrom, Newest, DeclaringUpTo
  <1>2. \A v : \A h \in Nat : h < x => KeyOf(v, h)' = KeyOf(v, h)
    BY <1>1, KeyOfIs
  <1>3. \A a : \A h \in Nat : h < x => Users(a, h)' = Users(a, h)
    BY <1>2 DEF Users
  <1>4. \A a, n : \A h \in Nat : h < x => OnlyUser(a, h, n)' = OnlyUser(a, h, n)
    BY <1>3 DEF OnlyUser
  <1>5. \A hour : \A k \in Made(x, hour) : k - 1 \in Nat /\ k - 1 < x
    BY DEF Made
  <1> QED
    BY <1>4, <1>5 DEF Proposed, SignedBy

\* A node signs a block once.
LEMMA SignedOnce ==
    ASSUME Height \in Heights, NEW d, NEW n
    PROVE  Signed(d, n) = IF \E i \in DOMAIN Now.signers : /\ Now.signers[i].flag = 2
                                                           /\ Credited(d, Now.signers[i].address, n)
                          THEN 1 ELSE 0
  <1> DEFINE S == {i \in DOMAIN Now.signers :
                      Now.signers[i].flag = 2 /\ Credited(d, Now.signers[i].address, n)}
  <1>1. \A i, j \in S : i = j
    <2> SUFFICES ASSUME NEW i \in S, NEW j \in S PROVE i = j
      OBVIOUS
    <2>1. Now.signers[i].address = Now.signers[j].address
      BY DEF Credited, NodesAt
    <2> QED
      BY <2>1, ValidatorAssumption DEF Now
  <1>2. Signed(d, n) = Cardinality(S)
    BY DEF Signed
  <1>3. CASE S = {}
    BY <1>2, <1>3, FS_EmptySet
  <1>4. CASE S # {}
    <2>1. PICK i \in S : S = {i}
      BY <1>1, <1>4
    <2> QED
      BY <1>2, <2>1, FS_Singleton
  <1> QED
    BY <1>3, <1>4

LEMMA MadeFinite ==
    ASSUME NEW h \in Nat
    PROVE  \A n, hour : /\ IsFiniteSet(Proposed(n, h, hour))
                        /\ Cardinality(Proposed(n, h, hour)) \in Nat
                        /\ IsFiniteSet(SignedBy(n, h, hour))
                        /\ Cardinality(SignedBy(n, h, hour)) \in Nat
  <1>1. IsFiniteSet(1 .. h)
    BY FS_Interval
  <1>2. \A n, hour : Proposed(n, h, hour) \subseteq 1 .. h /\ SignedBy(n, h, hour) \subseteq 1 .. h
    BY DEF Proposed, SignedBy, Made
  <1> QED
    BY <1>1, <1>2, FS_Subset, FS_CardinalityType

\* A step in the middle of the transaction.
LEMMA ValTotalsSame ==
    ASSUME IInv, ValTotals, db'.valStats = db.valStats, UNCHANGED <<saved, indexed>>,
           (at = "idle") = (at' = "idle")
    PROVE  ValTotals'
  <1>1. indexed \in Nat /\ Height \in Nat /\ TopBlock \in Nat /\ TopBlock' = TopBlock
    BY Open DEF TopBlock, Height
  <1>2. \A v, h : DeclaringUpTo(saved, v, h)' = DeclaringUpTo(saved, v, h)
    BY DEF DeclaringUpTo
  <1>3. \A x \in Nat : \A n, hour : /\ Proposed(n, x, hour)' = Proposed(n, x, hour)
                               /\ SignedBy(n, x, hour)' = SignedBy(n, x, hour)
    BY <1>2, CreditedSame
  <1> QED
    BY <1>1, <1>3 DEF ValTotals, Credits

LEMMA ValTotalsCommit ==
    ASSUME IInv, ChainRows, ValTotals, Commit
    PROVE  ValTotals'
  <1>1. /\ at = "commit" /\ at' = "idle" /\ saved' = db /\ db' = db /\ indexed' = Height
        /\ indexed \in Nat /\ Height = indexed + 1
    BY Open DEF Commit
  <1>2. \A m \in db.microblocks : m.block \in Nat
    BY DEF IInv, TypeInv, TypeOK, TablesType, Heights
  <1>3. PICK x \in Nat : x = Height
    BY <1>1
  <1>4. \A v : \A h \in Nat : h < x => DeclaringUpTo(saved, v, h)' = DeclaringUpTo(saved, v, h)
    <2> SUFFICES ASSUME NEW v, NEW h \in Nat, h < x
                 PROVE  DeclaringUpTo(db, v, h) = DeclaringUpTo(saved, v, h)
      BY <1>1 DEF DeclaringUpTo
    <2>1. {m \in db.microblocks : m.block <= indexed} = saved.microblocks
      BY DEF ChainRows
    <2>2. \A m \in db.microblocks : m.block <= h => m.block <= indexed
      BY <1>1, <1>2, <1>3
    <2> QED
      BY <2>1, <2>2 DEF DeclaringUpTo
  <1>5. \A n, hour : /\ Proposed(n, x, hour)' = Proposed(n, x, hour)
                               /\ SignedBy(n, x, hour)' = SignedBy(n, x, hour)
    BY <1>4, CreditedSame
  <1>6. TopBlock = x /\ TopBlock' = x /\ indexed' = x
    BY <1>1, <1>3 DEF TopBlock
  <1>7. Credits(db, x)
    BY <1>6 DEF ValTotals
  <1>9. Credits(db, x)'
    BY <1>1, <1>5, <1>7 DEF Credits
  <1> QED
    BY <1>1, <1>6, <1>9 DEF ValTotals

LEMMA ValTotalsFail ==
    ASSUME IInv, ValTotals, Fail
    PROVE  ValTotals'
  <1>1. /\ at' = "idle" /\ saved' = saved /\ db' = saved /\ indexed' = indexed /\ indexed \in Nat
    BY Open DEF Fail, Rollback
  <1>2. \A v, h : DeclaringUpTo(saved, v, h)' = DeclaringUpTo(saved, v, h)
    BY <1>1 DEF DeclaringUpTo
  <1>3. \A x \in Nat : \A n, hour : /\ Proposed(n, x, hour)' = Proposed(n, x, hour)
                               /\ SignedBy(n, x, hour)' = SignedBy(n, x, hour)
    BY <1>2, CreditedSame
  <1>4. PICK x \in Nat : x = indexed
    BY <1>1
  <1>5. \A n, hour : /\ Proposed(n, x, hour)' = Proposed(n, x, hour)
                     /\ SignedBy(n, x, hour)' = SignedBy(n, x, hour)
    BY <1>3
  <1>6. Credits(saved, x)
    BY <1>4 DEF ValTotals
  <1>7. Credits(saved, x)'
    BY <1>1, <1>5, <1>6 DEF Credits
  <1> QED
    BY <1>1, <1>4, <1>7 DEF ValTotals, TopBlock, Credits

\* The statistics of a block are those of the keys before it.
LEMMA CreditedIsUser ==
    ASSUME IInv, ChainRows, Keys, at = "idle", NEW a \in Addresses, NEW n
    PROVE  Credited(db, a, n) <=> OnlyUser(a, indexed, n)
  BY UsersAre, Open DEF Credited, OnlyUser

LEMMA Elements ==
    ASSUME NEW T, NEW q \in Seq(T)
    PROVE  \A i \in DOMAIN q : q[i] \in T
  OBVIOUS

LEMMA ValTotalsCommitBlock ==
    ASSUME IInv, ChainRows, Keys, ValTotals, CommitBlock
    PROVE  ValTotals'
  <1>1. /\ at = "idle" /\ at' = "accounts" /\ UNCHANGED <<saved, indexed>> /\ db = saved
        /\ indexed \in Nat /\ Height = indexed + 1 /\ Height' = Height
        /\ Height \in Heights /\ TypeInv
    BY Open DEF CommitBlock, Height, Heights
  <1>2. PICK x \in Nat : x = indexed
    BY <1>1
  <1>3. \A v, h : DeclaringUpTo(saved, v, h)' = DeclaringUpTo(saved, v, h)
    BY <1>1 DEF DeclaringUpTo
  <1>4. \A y \in Nat : \A n, hour : /\ Proposed(n, y, hour)' = Proposed(n, y, hour)
                               /\ SignedBy(n, y, hour)' = SignedBy(n, y, hour)
    BY <1>3, CreditedSame
  <1>5. TopBlock' = x + 1 /\ indexed' = x /\ TopBlock = x
    BY <1>1, <1>2 DEF TopBlock
  <1>6. Credits(db, x)
    BY <1>5 DEF ValTotals
  <1>7. Credits(saved, x)'
    <2>1. \A n, hour : /\ Proposed(n, x, hour)' = Proposed(n, x, hour)
                       /\ SignedBy(n, x, hour)' = SignedBy(n, x, hour)
      BY <1>4
    <2> QED
      BY <1>1, <1>6, <2>1 DEF Credits
  <1>8. ASSUME NEW hour
        PROVE  /\ Made(x + 1, hour) = Made(x, hour)
                                      \cup (IF Now.commit /\ Now.hour = hour THEN {Height} ELSE {})
               /\ Height \notin Made(x, hour)
    <2>1. 1 .. (x + 1) = (1 .. x) \cup {Height} /\ Height \notin 1 .. x
      BY <1>1, <1>2
    <2> QED
      BY <2>1 DEF Made, Now
  <1>9. ASSUME NEW n \in Hashes, NEW hour \in Hours
        PROVE  /\ db'.valStats[<<n, hour>>].proposed = Cardinality(Proposed(n, x + 1, hour))
               /\ db'.valStats[<<n, hour>>].signed = Cardinality(SignedBy(n, x + 1, hour))
    <2>1. /\ db.valStats[<<n, hour>>].proposed = Cardinality(Proposed(n, x, hour))
          /\ db.valStats[<<n, hour>>].signed = Cardinality(SignedBy(n, x, hour))
      BY <1>6 DEF Credits
    <2>2. db.valStats \in [Hashes \X Hours -> [proposed : Nat, signed : Nat]]
      BY <1>1 DEF TypeInv, TypeOK, TablesType
    <2>3. <<n, hour>> \in DOMAIN db.valStats
      BY <2>2
    <2>4. CASE ~(Now.commit /\ Now.hour = hour)
      <3>1. db'.valStats[<<n, hour>>] = db.valStats[<<n, hour>>]
        <4>1. CASE ~Now.commit
          BY <1>1, <4>1 DEF CommitBlock, TypeInv, IsTables
        <4>2. CASE Now.commit
          <5>1. db'.valStats = ValidatorStats(db)
            BY <1>1, <4>2 DEF CommitBlock, TypeInv, IsTables
          <5> QED
            BY <2>3, <2>4, <4>2, <5>1 DEF ValidatorStats
        <4> QED
          BY <4>1, <4>2
      <3>2. Proposed(n, x + 1, hour) = Proposed(n, x, hour)
            /\ SignedBy(n, x + 1, hour) = SignedBy(n, x, hour)
        BY <1>8, <2>4 DEF Proposed, SignedBy
      <3> QED
        BY <2>1, <3>1, <3>2
    <2>5. CASE Now.commit /\ Now.hour = hour
      <3> DEFINE p == IF Credited(db, Now.proposer, n) THEN 1 ELSE 0
                 c == Signed(db, n)
      <3>1. Now.proposer \in Addresses
            /\ \A i \in DOMAIN Now.signers : Now.signers[i].address \in Addresses
        <4>1. Block[Height].proposer \in Addresses
              /\ Block[Height].signers \in Seq([address : Addresses, flag : Nat])
          BY <1>1, <2>5, ValidatorAssumption, Constants DEF Now
        <4> DEFINE S == Block[Height].signers
        <4>2. \A i \in DOMAIN S : S[i].address \in Addresses
          <5>1. S \in Seq([address : Addresses, flag : Nat])
            BY <4>1
          <5> HIDE DEF S
          <5>2. \A i \in DOMAIN S : S[i] \in [address : Addresses, flag : Nat]
            BY <5>1, Elements
          <5> QED
            BY <5>2
        <4> QED
          BY <4>1, <4>2 DEF Now
      <3>2. db'.valStats = ValidatorStats(db)
        BY <1>1, <2>5 DEF CommitBlock, TypeInv, IsTables
      <3>3. db'.valStats[<<n, hour>>] = [proposed |-> db.valStats[<<n, hour>>].proposed + p,
                                         signed   |-> db.valStats[<<n, hour>>].signed + c]
        BY <2>3, <2>5, <3>2 DEF ValidatorStats
      <3>4. c \in {0, 1} /\ p \in {0, 1}
        BY <1>1, SignedOnce
      <3>5. Proposed(n, x + 1, hour) = Proposed(n, x, hour) \cup (IF p = 1 THEN {Height} ELSE {})
        <4>1. OnlyUser(Block[Height].proposer, Height - 1, n) <=> p = 1
          BY <1>1, <3>1, CreditedIsUser DEF Now
        <4> QED
          BY <1>8, <2>5, <4>1 DEF Proposed
      <3>6. SignedBy(n, x + 1, hour) = SignedBy(n, x, hour) \cup (IF c = 1 THEN {Height} ELSE {})
        <4>1. c = 1 <=> \E i \in DOMAIN Now.signers : /\ Now.signers[i].flag = 2
                                                      /\ OnlyUser(Now.signers[i].address, indexed, n)
          BY <1>1, <3>1, SignedOnce, CreditedIsUser
        <4>2. Height - 1 = indexed
          BY <1>1
        <4> QED
          BY <1>8, <2>5, <4>1, <4>2 DEF SignedBy, Now
      <3>7. Height \notin Proposed(n, x, hour) /\ Height \notin SignedBy(n, x, hour)
        BY <1>8 DEF Proposed, SignedBy
      <3> HIDE DEF p, c
      <3>8. /\ Cardinality(Proposed(n, x + 1, hour)) = Cardinality(Proposed(n, x, hour)) + p
            /\ Cardinality(SignedBy(n, x + 1, hour)) = Cardinality(SignedBy(n, x, hour)) + c
        <4>1. \A S, T, i : (IsFiniteSet(S) /\ Cardinality(S) \in Nat /\ Height \notin S /\ i \in {0, 1}
                               /\ T = S \cup (IF i = 1 THEN {Height} ELSE {}))
                              => Cardinality(T) = Cardinality(S) + i
          <5> SUFFICES ASSUME NEW S, NEW T, NEW i, IsFiniteSet(S), Cardinality(S) \in Nat,
                              Height \notin S, i \in {0, 1},
                              T = S \cup (IF i = 1 THEN {Height} ELSE {})
                       PROVE  Cardinality(T) = Cardinality(S) + i
            OBVIOUS
          <5>1. CASE i = 1
            BY <5>1, FS_AddElement
          <5>2. CASE i = 0
            BY <5>2
          <5> QED
            BY <5>1, <5>2
        <4> QED
          BY <3>4, <3>5, <3>6, <3>7, <4>1, MadeFinite
      <3> QED
        BY <2>1, <3>3, <3>8
    <2> QED
      BY <2>4, <2>5
  <1> QED
    BY <1>4, <1>5, <1>7, <1>9 DEF ValTotals, Credits

-----------------------------------------------------------------------------
(* The voting powers *)

\* A validator set has one power for an address, and 0 for those that are not in it.
LEMMA PowerInSetIs ==
    ASSUME NEW h \in Heights, NEW a
    PROVE  /\ \A v \in Block[h].validators : v.address = a => PowerInSet(a, h) = v.power
           /\ (\A v \in Block[h].validators : v.address # a) => PowerInSet(a, h) = 0
  <1> DEFINE S == {v \in Block[h].validators : v.address = a}
             f == [v \in S |-> v.power]
  <1>1. PowerInSet(a, h) = SumFunctionOnSet(f, S)
    BY DEF PowerInSet, SumFunction
  <1>2. ASSUME NEW v \in Block[h].validators, v.address = a PROVE PowerInSet(a, h) = v.power
    <2>1. S = {v} /\ v.power \in Nat
      BY <1>2, ValidatorAssumption, Constants
    <2>2. f[v] = v.power
      BY <1>2
    <2> HIDE DEF f, S
    <2> QED
      BY <1>1, <2>1, <2>2, SumOne
  <1>3. (\A v \in Block[h].validators : v.address # a) => S = {}
    OBVIOUS
  <1> HIDE DEF f, S
  <1> QED
    BY <1>1, <1>2, <1>3, SumEmpty

LEMMA PowersFollowSame ==
    ASSUME PowersFollow, UNCHANGED <<saved, indexed>>, at' # "commit",
           db'.power = db.power, db'.powers = db.powers, db.rows \subseteq db'.rows
    PROVE  PowersFollow'
  <1>1. \A p : IsLast(db', p) = IsLast(db, p)
    BY DEF IsLast
  <1>2. ColumnIsLast(db)
    BY DEF PowersFollow
  <1>3. ColumnIsLast(db')
    <2> SUFFICES ASSUME NEW n \in Hashes
                 PROVE  /\ \A p \in db.powers : (p.node = n /\ IsLast(db', p)) => p.power = db.power[n]
                        /\ (\A p \in db.powers : p.node # n) => db.power[n] = 0
                        /\ db.power[n] # 0 => <<"node", n>> \in db'.rows
      BY DEF ColumnIsLast
    <2> QED
      BY <1>1, <1>2 DEF ColumnIsLast
  <1> QED
    BY <1>3 DEF PowersFollow

LEMMA PowersFollowCommit ==
    ASSUME PowersFollow, Commit
    PROVE  PowersFollow'
  <1>1. at = "commit" /\ at' = "idle" /\ saved' = db /\ db' = db /\ indexed' = Height
    BY DEF Commit
  <1> QED
    BY <1>1 DEF PowersFollow

LEMMA PowersFollowFail ==
    ASSUME PowersFollow, Fail
    PROVE  PowersFollow'
  <1>1. at' = "idle" /\ saved' = saved /\ db' = saved /\ indexed' = indexed
    BY DEF Fail, Rollback
  <1> QED
    BY <1>1 DEF PowersFollow

\* A node with rows has a last one.
LEMMA LastRow ==
    ASSUME TypeInv, NEW n, NEW r \in db.powers, r.node = n
    PROVE  \E p \in CurrentPowers(db) : p.node = n
  <1> DEFINE hs == {k \in 0 .. MaxHeight : \E p \in db.powers : p.node = n /\ p.height = k}
  <1>1. \A p \in db.powers : p.height \in 0 .. MaxHeight
    BY Constants DEF TypeInv, TypeOK, TablesType, Heights
  <1>2. IsFiniteSet(hs) /\ hs \subseteq Nat /\ r.height \in hs
    <2>1. IsFiniteSet(0 .. MaxHeight)
      BY Constants, FS_Interval
    <2> QED
      BY <1>1, <2>1, Constants, FS_Subset
  <1>3. PICK k \in hs : \A y \in hs : y <= k
    <2> HIDE DEF hs
    <2> QED
      BY <1>2, Greatest
  <1>4. PICK p \in db.powers : p.node = n /\ p.height = k
    BY <1>3
  <1>5. \A q \in db.powers : q.node = n => q.height <= p.height
    BY <1>1, <1>3, <1>4
  <1> QED
    BY <1>4, <1>5 DEF CurrentPowers

LEMMA PowersFollowSync ==
    ASSUME IInv, PowersFollow, SyncVotingPowers
    PROVE  PowersFollow'
  <1>1. /\ at = "powers" /\ at' = "commit" /\ UNCHANGED <<saved, indexed>>
        /\ indexed \in Nat /\ Height = indexed + 1 /\ Height' = Height
        /\ Height \in Heights /\ TypeInv /\ PowersInv
    BY Open DEF SyncVotingPowers, Height
  <1>2. PICK f \in [Listed -> Hashes] :
            /\ \A v \in Listed : f[v] \in NodesAt(db, v.address)
            /\ db'.power = [n \in Hashes |-> IF n \in DOMAIN NewBy(f) THEN NewBy(f)[n] ELSE db.power[n]]
            /\ db'.powers = db.powers \cup NewRows(f)
            /\ db'.rows = db.rows /\ db'.column = db.column
    BY <1>1, SyncVotingPowersTables
  <1> DEFINE N == DOMAIN NewBy(f)
             New(n) == NewBy(f)[n]
             D == DefinedBy(f)
  <1>3. /\ N = ChangedBy(f) \cup Dropped(D) /\ ChangedBy(f) \subseteq D
        /\ \A n \in N : New(n) = IF n \in D THEN PowerBy(f, n) ELSE 0
    BY DEF NewBy, ChangedBy
  <1>4. \A r \in NewRows(f) : r.height = Height /\ r.node \in N /\ r.power = New(r.node)
    BY DEF NewRows
  <1>5. ASSUME NEW n \in N PROVE \E r \in NewRows(f) : r.node = n
    <2> DEFINE r == [node |-> n, height |-> Height, hour |-> PowersHour, power |-> NewBy(f)[n]]
    <2>1. r \in NewRows(f) /\ r.node = n
      BY DEF NewRows
    <2> QED
      BY <2>1
  <1>6. \A p \in db.powers : p.height \in Nat /\ p.height < Height
    <2>1. \A p \in db.powers : p.height \in Nat
      BY <1>1 DEF TypeInv, TypeOK, TablesType, Heights
    <2> QED
      BY <1>1, <2>1 DEF PowersInv
  <1>7. \A n \in Hashes : db'.power[n] = IF n \in N THEN New(n) ELSE db.power[n]
    BY <1>2
  <1> HIDE DEF N, New
  <1>8. \A n \in Hashes : n \in D => <<"node", n>> \in db.rows
    BY <1>2 DEF D, DefinedBy, NodesAt
  <1>9. ColumnIsLast(db)
    BY DEF PowersFollow
  <1>10. ColumnIsLast(db')
    <2> SUFFICES ASSUME NEW n \in Hashes
                 PROVE  /\ \A p \in db'.powers : (p.node = n /\ IsLast(db', p)) => p.power = db'.power[n]
                        /\ (\A p \in db'.powers : p.node # n) => db'.power[n] = 0
                        /\ db'.power[n] # 0 => <<"node", n>> \in db'.rows
      BY DEF ColumnIsLast
    <2>1. CASE n \in N
      <3>1. PICK r \in NewRows(f) : r.node = n
        BY <1>5, <2>1
      <3>2. r \in db'.powers /\ r.height = Height
        BY <1>2, <1>4, <3>1
      <3>3. ASSUME NEW p \in db'.powers, p.node = n, IsLast(db', p) PROVE p.power = db'.power[n]
        <4>1. Height <= p.height
          BY <3>1, <3>2, <3>3 DEF IsLast
        <4>2. p \in NewRows(f)
          BY <1>1, <1>2, <1>6, <4>1
        <4> QED
          BY <1>4, <1>7, <2>1, <3>3, <4>2
      <3>4. db'.power[n] # 0 => n \in D
        BY <1>3, <1>7, <2>1
      <3> QED
        BY <1>2, <1>8, <3>1, <3>2, <3>3, <3>4
    <2>2. CASE n \notin N
      <3>1. \A p \in db'.powers : p.node = n => p \in db.powers
        BY <1>2, <1>4, <2>2
      <3>2. \A p \in db.powers : IsLast(db', p) => IsLast(db, p)
        BY <1>2 DEF IsLast
      <3>3. db'.power[n] = db.power[n]
        BY <1>7, <2>2
      <3> QED
        BY <1>2, <1>9, <3>1, <3>2, <3>3 DEF ColumnIsLast
    <2> QED
      BY <2>1, <2>2
  <1>11. \A n \in Hashes : n \notin D => db'.power[n] = 0
    <2> SUFFICES ASSUME NEW n \in Hashes, n \notin D PROVE db'.power[n] = 0
      OBVIOUS
    <2>1. CASE n \in N
      BY <1>3, <1>7, <2>1
    <2>2. CASE n \notin N
      <3>1. CASE \A p \in db.powers : p.node # n
        BY <1>7, <1>9, <2>2, <3>1 DEF ColumnIsLast
      <3>2. CASE \E p \in db.powers : p.node = n
        <4>1. PICK p \in CurrentPowers(db) : p.node = n
          BY <1>1, <3>2, LastRow
        <4>2. p \in db.powers /\ IsLast(db, p)
          BY <4>1 DEF CurrentPowers, IsLast
        <4>3. p.power = db.power[n]
          BY <1>9, <4>1, <4>2 DEF ColumnIsLast
        <4>4. p.power = 0
          BY <1>3, <2>2, <4>1 DEF Dropped
        <4> QED
          BY <1>7, <2>2, <4>3, <4>4
      <3> QED
        BY <3>1, <3>2
    <2> QED
      BY <2>1, <2>2
  <1>12. ASSUME NEW v \in Listed PROVE f[v] \in Hashes /\ db'.power[f[v]] = v.power
    <2>1. f[v] \in NodesAt(db, v.address) /\ f[v] \in D /\ f[v] \in Hashes
      BY <1>2 DEF D, DefinedBy
    <2>2. \A w \in Listed : f[w] = f[v] => w = v
      <3> SUFFICES ASSUME NEW w \in Listed, f[w] = f[v] PROVE w = v
        OBVIOUS
      <3>1. w.address = v.address
        BY <1>2 DEF NodesAt
      <3> QED
        BY <1>1, <3>1, ValidatorAssumption DEF Listed, Now
    <2>3. (CHOOSE w \in Listed : f[w] = f[v]) = v
      BY <2>2
    <2>4. PowerBy(f, f[v]) = v.power
      BY <2>3 DEF PowerBy
    <2>5. CASE f[v] \in N
      BY <1>3, <1>7, <2>1, <2>4, <2>5
    <2>6. CASE f[v] \notin N
      <3>1. PICK p \in CurrentPowers(db) : p.node = f[v] /\ p.power = PowerBy(f, f[v])
        BY <1>3, <2>1, <2>6 DEF ChangedBy, D
      <3>2. p \in db.powers /\ IsLast(db, p)
        BY <3>1 DEF CurrentPowers, IsLast
      <3>3. p.power = db.power[f[v]]
        BY <1>9, <2>1, <3>1, <3>2 DEF ColumnIsLast
      <3> QED
        BY <1>7, <2>1, <2>4, <2>6, <3>1, <3>3
    <2> QED
      BY <2>1, <2>5, <2>6
  <1>13. \A n \in D : \E v \in Listed : f[v] = n /\ n \in NodesAt(db, v.address)
    BY <1>2 DEF D, DefinedBy
  <1>14. \A n, a, b : n \in NodesAt(db, a) /\ n \in NodesAt(db, b) => a = b
    BY DEF NodesAt
  <1>15. \A v \in Listed : v \in Block[Height].validators /\ v.address \in Addresses
    BY <1>1, Constants DEF Listed, Now
  <1>16. \A a : NodesAt(db', a) = NodesAt(db, a)
    BY <1>2 DEF NodesAt
  <1> HIDE DEF D
  <1>17. ASSUME NEW a \in Addresses, NodesAt(db, a) # {}
         PROVE  \E n \in NodesAt(db, a) : /\ db'.power[n] = PowerInSet(a, Height)
                                          /\ \A m \in NodesAt(db, a) \ {n} : db'.power[m] = 0
    <2>1. NodesAt(db, a) \subseteq Hashes
      BY DEF NodesAt
    <2>2. CASE \E v \in Now.validators : v.address = a
      <3>1. PICK v \in Now.validators : v.address = a
        BY <2>2
      <3>2. v \in Listed
        BY <1>17, <3>1 DEF Listed
      <3>3. PowerInSet(a, Height) = v.power
        BY <1>1, <3>1, PowerInSetIs DEF Now
      <3>4. \A m \in NodesAt(db, a) \ {f[v]} : m \notin D
        <4> SUFFICES ASSUME NEW m \in NodesAt(db, a), m \in D PROVE m = f[v]
          OBVIOUS
        <4>1. PICK w \in Listed : f[w] = m /\ m \in NodesAt(db, w.address)
          BY <1>13
        <4>2. w.address = a
          BY <1>14, <4>1
        <4>3. w = v
          BY <1>1, <1>15, <3>1, <3>2, <4>2, ValidatorAssumption
        <4> QED
          BY <4>1, <4>3
      <3> QED
        BY <1>2, <1>11, <1>12, <2>1, <3>1, <3>2, <3>3, <3>4
    <2>3. CASE ~\E v \in Now.validators : v.address = a
      <3>1. PowerInSet(a, Height) = 0
        BY <1>1, <2>3, PowerInSetIs DEF Now
      <3>2. \A m \in NodesAt(db, a) : m \notin D
        <4> SUFFICES ASSUME NEW m \in NodesAt(db, a), m \in D PROVE FALSE
          OBVIOUS
        <4>1. PICK w \in Listed : f[w] = m /\ m \in NodesAt(db, w.address)
          BY <1>13
        <4>2. w.address = a
          BY <1>14, <4>1
        <4> QED
          BY <2>3, <4>1, <4>2 DEF Listed
      <3> QED
        BY <1>11, <1>17, <2>1, <3>1, <3>2
    <2> QED
      BY <2>2, <2>3
  <1>18. \A n \in Hashes : (\A a \in Addresses : n \notin NodesAt(db, a)) => db'.power[n] = 0
    BY <1>11, <1>13, <1>15
  <1>19. SetFollowed(db', Height)
    BY <1>16, <1>17, <1>18 DEF SetFollowed
  <1> QED
    BY <1>1, <1>10, <1>19 DEF PowersFollow

-----------------------------------------------------------------------------
(* The invariant *)

LEMMA TotalsInit == Init => TInv
  <1> SUFFICES ASSUME Init PROVE TInv
    OBVIOUS
  <1>1. db = EmptyTables /\ saved = EmptyTables /\ at = "idle" /\ indexed = 0
    BY DEF Init
  <1>2. /\ EmptyTables.blocks = {} /\ EmptyTables.microblocks = {} /\ EmptyTables.powers = {}
        /\ EmptyTables.rows = {}
        /\ \A s \in Hours \X Types \X BOOLEAN : EmptyTables.mbStats[s] = 0
        /\ \A s \in Hashes \X Hours : /\ EmptyTables.valStats[s].proposed = 0
                                      /\ EmptyTables.valStats[s].signed = 0
        /\ \A n \in Hashes : EmptyTables.power[n] = 0
    BY DEF EmptyTables
  <1>3. KeyColumn \in Kinds /\ \A n \in Hashes : EmptyTables.column[n][KeyColumn] = Null
    BY DEF KeyColumn, Kinds, NodeSections, EmptyTables
  <1>4. ChainRows
    BY <1>1, <1>2 DEF ChainRows
  <1>5. BlockRows
    <2>1. 1 .. 0 = {}
      OBVIOUS
    <2> QED
      BY <1>1, <1>2, <2>1 DEF BlockRows, BlocksUpTo, TopBlock
  <1>6. BlockTotals
    BY <1>1, <1>2 DEF BlockTotals, Storing, Done
  <1>7. MbTotals
    <2> SUFFICES ASSUME NEW hour \in Hours, NEW t \in Types, NEW g \in BOOLEAN, NEW p
                 PROVE  EmptyTables.mbStats[<<hour, t, g>>]
                           = Cardinality(OfKind(EmptyTables, p, hour, t, g))
      BY <1>1 DEF MbTotals, KindsRight
    <2>1. EmptyTables.mbStats[<<hour, t, g>>] = 0
      BY <1>2
    <2>2. OfKind(EmptyTables, p, hour, t, g) = {}
      BY <1>2 DEF OfKind
    <2> QED
      BY <2>1, <2>2, FS_EmptySet
  <1>8. Keys
    <2> SUFFICES ASSUME NEW v \in Hashes, NEW p PROVE KeyIs(EmptyTables, p, v)
      BY <1>1 DEF Keys
    <2>1. Declaring(EmptyTables, p, v) = {}
      BY <1>2 DEF Declaring
    <2> QED
      BY <1>3, <2>1 DEF KeyIs
  <1>9. ValTotals
    <2> SUFFICES ASSUME NEW n \in Hashes, NEW hour \in Hours
                 PROVE  /\ EmptyTables.valStats[<<n, hour>>].proposed = Cardinality(Proposed(n, 0, hour))
                        /\ EmptyTables.valStats[<<n, hour>>].signed = Cardinality(SignedBy(n, 0, hour))
      BY <1>1 DEF ValTotals, Credits, TopBlock
    <2>1. Proposed(n, 0, hour) = {} /\ SignedBy(n, 0, hour) = {}
      BY DEF Proposed, SignedBy, Made
    <2> QED
      BY <1>2, <2>1, FS_EmptySet
  <1>10. PowersFollow
    BY <1>1, <1>2 DEF PowersFollow, ColumnIsLast
  <1> QED
    BY <1>4, <1>5, <1>6, <1>7, <1>8, <1>9, <1>10 DEF TInv

LEMMA CommitBlockTotals ==
    ASSUME IInv, TInv, CommitBlock
    PROVE  TInv'
  <1>1. TypeInv /\ at = "idle" /\ at' = "accounts" /\ UNCHANGED <<saved, indexed>>
    BY Open DEF CommitBlock
  <1>2. /\ db'.microblocks = db.microblocks /\ db'.mbStats = db.mbStats /\ db'.column = db.column
        /\ db'.rows = db.rows /\ db'.power = db.power /\ db'.powers = db.powers
    BY <1>1, CommitBlockTables
  <1>3. Uncounted' = Uncounted /\ Undeclared' = Undeclared
    BY <1>1 DEF Uncounted, Undeclared
  <1>4. ChainRows' /\ BlockRows' /\ BlockTotals'
    BY <1>1, <1>2, ChainRowsSame, BlockRowsCommitBlock, BlockTotalsCommitBlock DEF TInv
  <1>5. MbTotals' /\ Keys'
    BY <1>1, <1>2, <1>3, MbTotalsSame, KeysSame DEF TInv
  <1>6. ValTotals' /\ PowersFollow'
    BY <1>1, <1>2, ValTotalsCommitBlock, PowersFollowSame DEF TInv
  <1> QED
    BY <1>4, <1>5, <1>6 DEF TInv

LEMMA SyncModifiedAccountsTotals ==
    ASSUME IInv, TInv, SyncModifiedAccounts
    PROVE  TInv'
  <1>1. /\ TypeInv /\ at = "accounts" /\ at' \in {"row", "totals"} /\ UNCHANGED <<saved, indexed>>
    BY Open DEF SyncModifiedAccounts
  <1>2. /\ db'.microblocks = db.microblocks /\ db'.mbStats = db.mbStats /\ db'.column = db.column
        /\ db.rows \subseteq db'.rows /\ db'.power = db.power /\ db'.powers = db.powers
        /\ db'.blocks = db.blocks /\ db'.valStats = db.valStats
    BY <1>1, SyncModifiedAccountsTables
  <1>3. Uncounted' = Uncounted /\ Undeclared' = Undeclared
    BY <1>1 DEF Uncounted, Undeclared
  <1>4. ChainRows' /\ BlockRows' /\ BlockTotals'
    BY <1>1, <1>2, ChainRowsSame, BlockRowsSame, BlockTotalsSyncModifiedAccounts DEF TInv
  <1>5. MbTotals' /\ Keys'
    BY <1>1, <1>2, <1>3, MbTotalsSame, KeysSame DEF TInv
  <1>6. ValTotals' /\ PowersFollow'
    BY <1>1, <1>2, ValTotalsSame, PowersFollowSame DEF TInv
  <1> QED
    BY <1>4, <1>5, <1>6 DEF TInv

LEMMA CommitRowTotals ==
    ASSUME IInv, TInv, CommitRow
    PROVE  TInv'
  <1>1. TypeInv /\ at = "row" /\ at' = "sections" /\ UNCHANGED <<saved, indexed>>
    BY Open DEF CommitRow
  <1>2. /\ db'.rows = db.rows /\ db'.power = db.power /\ db'.powers = db.powers
        /\ db'.blocks = db.blocks /\ db'.valStats = db.valStats
    BY <1>1, CommitRowTables
  <1>3. ChainRows' /\ BlockRows' /\ BlockTotals'
    BY <1>1, <1>2, ChainRowsCommitRow, BlockRowsSame, BlockTotalsCommitRow DEF TInv
  <1>4. MbTotals' /\ Keys'
    BY MbTotalsCommitRow, KeysCommitRow DEF TInv
  <1>5. ValTotals' /\ PowersFollow'
    BY <1>1, <1>2, ValTotalsSame, PowersFollowSame DEF TInv
  <1> QED
    BY <1>3, <1>4, <1>5 DEF TInv

LEMMA SaveCustomSectionsTotals ==
    ASSUME IInv, TInv, SaveCustomSections
    PROVE  TInv'
  <1>1. /\ TypeInv /\ at = "sections" /\ at' = "object" /\ UNCHANGED <<saved, indexed, next, fees>>
        /\ Mb' = Mb
    BY Open DEF SaveCustomSections, Mb, Now, Height
  <1>2. /\ db'.microblocks = db.microblocks /\ db'.mbStats = db.mbStats /\ db'.column = db.column
        /\ db.rows \subseteq db'.rows /\ db'.power = db.power /\ db'.powers = db.powers
        /\ db'.blocks = db.blocks /\ db'.valStats = db.valStats
    BY <1>1, SaveCustomSectionsTables
  <1>3. Uncounted' = Uncounted /\ Undeclared' = Undeclared
    BY <1>1 DEF Uncounted, Undeclared
  <1>4. ChainRows' /\ BlockRows' /\ BlockTotals'
    BY <1>1, <1>2, ChainRowsSame, BlockRowsSame, BlockTotalsSame DEF TInv, HasRow
  <1>5. MbTotals' /\ Keys'
    BY <1>1, <1>2, <1>3, MbTotalsSame, KeysSame DEF TInv
  <1>6. ValTotals' /\ PowersFollow'
    BY <1>1, <1>2, ValTotalsSame, PowersFollowSame DEF TInv
  <1> QED
    BY <1>4, <1>5, <1>6 DEF TInv

LEMMA SaveObjectTotals ==
    ASSUME IInv, TInv, SaveObject
    PROVE  TInv'
  <1>1. /\ TypeInv /\ at = "object" /\ at' = "stats" /\ UNCHANGED <<saved, indexed, next, fees>>
        /\ Mb' = Mb
    BY Open DEF SaveObject, Mb, Now, Height
  <1>2. /\ db'.microblocks = db.microblocks /\ db'.mbStats = db.mbStats
        /\ db.rows \subseteq db'.rows /\ db'.power = db.power /\ db'.powers = db.powers
        /\ db'.blocks = db.blocks /\ db'.valStats = db.valStats
    <2>1. db.rows \subseteq db'.rows
      BY <1>1, SaveObjectTables
    <2> QED
      BY <1>1, <2>1, SaveObjectTables
  <1>3. Uncounted' = Uncounted
    BY <1>1 DEF Uncounted
  <1>4. ChainRows' /\ BlockRows' /\ BlockTotals'
    BY <1>1, <1>2, ChainRowsSame, BlockRowsSame, BlockTotalsSame DEF TInv, HasRow
  <1>5. MbTotals' /\ Keys'
    BY <1>1, <1>2, <1>3, MbTotalsSame, KeysSaveObject DEF TInv
  <1>6. ValTotals' /\ PowersFollow'
    BY <1>1, <1>2, ValTotalsSame, PowersFollowSame DEF TInv
  <1> QED
    BY <1>4, <1>5, <1>6 DEF TInv

LEMMA UpdateMicroblockStatsTotals ==
    ASSUME IInv, TInv, UpdateMicroblockStats
    PROVE  TInv'
  <1>1. /\ TypeInv /\ at = "stats" /\ at' = "head" /\ UNCHANGED <<saved, indexed, next, fees>>
    BY Open DEF UpdateMicroblockStats
  <1>2. /\ db'.microblocks = db.microblocks /\ db'.column = db.column
        /\ db.rows \subseteq db'.rows /\ db'.power = db.power /\ db'.powers = db.powers
        /\ db'.blocks = db.blocks /\ db'.valStats = db.valStats
    BY <1>1, UpdateMicroblockStatsTables
  <1>3. Undeclared' = Undeclared
    BY <1>1 DEF Undeclared
  <1>4. ChainRows' /\ BlockRows' /\ BlockTotals'
    BY <1>1, <1>2, ChainRowsSame, BlockRowsSame, BlockTotalsSame DEF TInv, HasRow
  <1>5. MbTotals' /\ Keys'
    BY <1>1, <1>2, <1>3, MbTotalsUpdateMicroblockStats, KeysSame DEF TInv
  <1>6. ValTotals' /\ PowersFollow'
    BY <1>1, <1>2, ValTotalsSame, PowersFollowSame DEF TInv
  <1> QED
    BY <1>4, <1>5, <1>6 DEF TInv

LEMMA UpdateVirtualBlockchainTotals ==
    ASSUME IInv, TInv, UpdateVirtualBlockchain
    PROVE  TInv'
  <1>1. TypeInv /\ at = "head" /\ at' \in {"row", "totals"} /\ UNCHANGED <<saved, indexed>>
    BY Open DEF UpdateVirtualBlockchain
  <1>2. /\ db'.microblocks = db.microblocks /\ db'.column = db.column /\ db'.mbStats = db.mbStats
        /\ db.rows \subseteq db'.rows /\ db'.power = db.power /\ db'.powers = db.powers
        /\ db'.blocks = db.blocks /\ db'.valStats = db.valStats
    BY <1>1, UpdateVirtualBlockchainTables
  <1>3. Uncounted' = Uncounted /\ Undeclared' = Undeclared
    BY <1>1 DEF Uncounted, Undeclared
  <1>4. ChainRows' /\ BlockRows' /\ BlockTotals'
    BY <1>1, <1>2, ChainRowsSame, BlockRowsSame, BlockTotalsUpdateVirtualBlockchain DEF TInv
  <1>5. MbTotals' /\ Keys'
    BY <1>1, <1>2, <1>3, MbTotalsSame, KeysSame DEF TInv
  <1>6. ValTotals' /\ PowersFollow'
    BY <1>1, <1>2, ValTotalsSame, PowersFollowSame DEF TInv
  <1> QED
    BY <1>4, <1>5, <1>6 DEF TInv

LEMMA BlockStepTotals ==
    ASSUME IInv, TInv, CommitBlockMicroblocksAndFees
    PROVE  TInv'
  <1>1. TypeInv /\ at = "totals" /\ at' = "powers" /\ UNCHANGED <<saved, indexed>>
    BY Open DEF CommitBlockMicroblocksAndFees
  <1>2. /\ db'.microblocks = db.microblocks /\ db'.column = db.column /\ db'.mbStats = db.mbStats
        /\ db.rows \subseteq db'.rows /\ db'.power = db.power /\ db'.powers = db.powers
        /\ db'.valStats = db.valStats
    BY <1>1, TotalsTables
  <1>3. Uncounted' = Uncounted /\ Undeclared' = Undeclared
    BY <1>1 DEF Uncounted, Undeclared
  <1>4. ChainRows' /\ BlockRows' /\ BlockTotals'
    BY <1>1, <1>2, ChainRowsSame, BlockRowsTotals, BlockTotalsTotals DEF TInv
  <1>5. MbTotals' /\ Keys'
    BY <1>1, <1>2, <1>3, MbTotalsSame, KeysSame DEF TInv
  <1>6. ValTotals' /\ PowersFollow'
    BY <1>1, <1>2, ValTotalsSame, PowersFollowSame DEF TInv
  <1> QED
    BY <1>4, <1>5, <1>6 DEF TInv

LEMMA SyncVotingPowersTotals ==
    ASSUME IInv, TInv, SyncVotingPowers
    PROVE  TInv'
  <1>1. TypeInv /\ at = "powers" /\ at' = "commit" /\ UNCHANGED <<saved, indexed, next, fees>>
    BY Open DEF SyncVotingPowers
  <1>2. /\ db'.microblocks = db.microblocks /\ db'.column = db.column /\ db'.mbStats = db.mbStats
        /\ db.rows \subseteq db'.rows
        /\ db'.blocks = db.blocks /\ db'.valStats = db.valStats
    BY <1>1, SyncVotingPowersTables
  <1>3. Uncounted' = Uncounted /\ Undeclared' = Undeclared
    BY <1>1 DEF Uncounted, Undeclared
  <1>4. ChainRows' /\ BlockRows' /\ BlockTotals'
    BY <1>1, <1>2, ChainRowsSame, BlockRowsSame, BlockTotalsSame DEF TInv
  <1>5. MbTotals' /\ Keys'
    BY <1>1, <1>2, <1>3, MbTotalsSame, KeysSame DEF TInv
  <1>6. ValTotals' /\ PowersFollow'
    BY <1>1, <1>2, ValTotalsSame, PowersFollowSync DEF TInv
  <1> QED
    BY <1>4, <1>5, <1>6 DEF TInv

LEMMA CommitTotals ==
    ASSUME IInv, TInv, Commit
    PROVE  TInv'
  BY ChainRowsCommit, BlockRowsCommit, BlockTotalsCommit, MbTotalsCommit, KeysCommit,
     ValTotalsCommit, PowersFollowCommit DEF TInv

LEMMA FailTotals ==
    ASSUME IInv, TInv, Fail
    PROVE  TInv'
  BY ChainRowsFail, BlockRowsFail, BlockTotalsFail, MbTotalsFail, KeysFail,
     ValTotalsFail, PowersFollowFail DEF TInv

LEMMA StutterTotals ==
    ASSUME IInv, TInv, UNCHANGED vars
    PROVE  TInv'
  <1>1. /\ db' = db /\ saved' = saved /\ at' = at /\ next' = next /\ fees' = fees /\ indexed' = indexed
        /\ Height' = Height /\ Mb' = Mb
    BY DEF vars, Height, Mb, Now
  <1>2. ChainRows' /\ BlockRows' /\ MbTotals' /\ Keys' /\ ValTotals'
    BY <1>1, ChainRowsSame, BlockRowsSame, MbTotalsSame, KeysSame, ValTotalsSame
       DEF TInv, Uncounted, Undeclared
  <1>3. StoredCount' = StoredCount /\ PendingFees' = PendingFees
    BY <1>1 DEF StoredCount, PendingFees, Now, M, HasRow
  <1>4. BlockTotals' /\ PowersFollow'
    BY <1>1, <1>3 DEF TInv, BlockTotals, PowersFollow
  <1> QED
    BY <1>2, <1>4 DEF TInv

LEMMA TotalsNext == IInv /\ TInv /\ [Next]_vars => TInv'
  <1> SUFFICES ASSUME IInv, TInv, [Next]_vars PROVE TInv'
    OBVIOUS
  <1> QED
    BY CommitBlockTotals, SyncModifiedAccountsTotals, CommitRowTotals, SaveCustomSectionsTotals,
       SaveObjectTotals, UpdateMicroblockStatsTotals, UpdateVirtualBlockchainTotals,
       BlockStepTotals, SyncVotingPowersTotals, CommitTotals, FailTotals, StutterTotals
    DEF Next

LEMMA TotalsInvariance == Spec => [](IInv /\ TInv)
  <1>1. Init => IInv /\ TInv
    BY InvInit, TotalsInit
  <1>2. IInv /\ TInv /\ [Next]_vars => (IInv /\ TInv)'
    BY InvNext, TotalsNext
  <1> QED
    BY <1>1, <1>2, PTL DEF Spec

-----------------------------------------------------------------------------
(* Theorems *)

\* For any chain and any faults, the count of microblocks and the fees of every committed
\* block, and the statistics of microblocks of every hour, type and kind, are those of the
\* committed rows (commitBlockMicroblocksAndFees(), updateMicroblockStats()).
THEOREM TotalsAreRows == Spec => []TotalsAddUp
  <1>1. IInv /\ TInv => TotalsAddUp
    <2> SUFFICES ASSUME IInv, TInv PROVE TotalsAddUp
      OBVIOUS
    <2>1. ASSUME NEW b \in saved.blocks
          PROVE  LET own == {m \in saved.microblocks : m.block = b.height}
                 IN  /\ b.microblocks = Cardinality(own)
                     /\ b.fees = SumFunction([m \in own |-> m.gas * m.price])
      BY DEF TInv, BlockTotals, Right, Own, FeesOf
    <2>2. ASSUME NEW hour \in Hours, NEW t \in Types, NEW g \in BOOLEAN
          PROVE  saved.mbStats[<<hour, t, g>>]
                    = Cardinality({m \in saved.microblocks :
                                      m.type = t /\ (m.height = 1) = g /\ Micro[m.hash].hour = hour})
      <3>1. OfKind(saved, {}, hour, t, g)
               = {m \in saved.microblocks :
                     m.type = t /\ (m.height = 1) = g /\ Micro[m.hash].hour = hour}
        BY DEF OfKind
      <3>2. KindsRight(saved, {})
        BY DEF TInv, MbTotals
      <3>3. saved.mbStats[<<hour, t, g>>] = Cardinality(OfKind(saved, {}, hour, t, g))
        BY <3>2 DEF KindsRight
      <3> QED
        BY <3>1, <3>3
    <2> QED
      BY <2>1, <2>2 DEF TotalsAddUp
  <1> QED
    BY <1>1, TotalsInvariance, PTL

\* For any chain and any faults, the statistics of a node in an hour count the committed
\* blocks of that hour whose proposer, or one of whose signers, has the key that this node
\* and no other declared before the block; a block whose key several nodes declare, or
\* none, is counted for nobody (updateValidatorStats()).
THEOREM CountedOnce == Spec => []BlocksCounted
  <1>1. IInv /\ TInv => BlocksCounted
    <2> SUFFICES ASSUME IInv, TInv, NEW n \in Hashes, NEW hour \in Hours
                 PROVE  /\ saved.valStats[<<n, hour>>].proposed = Cardinality(Proposed(n, indexed, hour))
                        /\ saved.valStats[<<n, hour>>].signed = Cardinality(SignedBy(n, indexed, hour))
      BY DEF BlocksCounted, Proposed, SignedBy, Made
    <2> QED
      BY DEF TInv, ValTotals, Credits
  <1> QED
    BY <1>1, TotalsInvariance, PTL

\* For any chain and any faults, the voting power of every node is that of its last
\* history row, the power of every declared key in the validator set of the last block is
\* that of exactly one of the nodes that declare it, and the other nodes have power 0
\* (syncVotingPowers()).
THEOREM PowersOfLastSet == Spec => []PowersFollowSet
  <1>1. IInv /\ TInv => PowersFollowSet
    <2> SUFFICES ASSUME IInv, TInv, at = "idle", indexed > 0 PROVE PowersFollowSet
      BY DEF PowersFollowSet
    <2>1. ASSUME NEW n \in Hashes, NEW p \in saved.powers, p.node = n,
                 \A q \in saved.powers : q.node = n => q.height <= p.height
          PROVE  p.power = saved.power[n]
      <3>1. IsLast(saved, p)
        BY <2>1 DEF IsLast
      <3> QED
        BY <2>1, <3>1 DEF TInv, PowersFollow, ColumnIsLast
    <2>2. SetFollowed(saved, indexed)
      BY DEF TInv, PowersFollow
    <2>3. \A a \in Addresses : Users(a, indexed) = NodesAt(saved, a)
      BY UsersAre DEF TInv
    <2>4. ASSUME NEW a \in Addresses, Users(a, indexed) # {}
          PROVE  \E n \in Users(a, indexed) :
                    /\ saved.power[n] = PowerInSet(a, indexed)
                    /\ \A m \in Users(a, indexed) \ {n} : saved.power[m] = 0
      BY <2>2, <2>3, <2>4 DEF SetFollowed
    <2>5. ASSUME NEW n \in Hashes, KeyOf(n, indexed) \notin Addresses
          PROVE  saved.power[n] = 0
      <3>1. \A a \in Addresses : n \notin Users(a, indexed)
        BY <2>5 DEF Users
      <3> QED
        BY <2>2, <2>3, <3>1 DEF SetFollowed
    <2> QED
      BY <2>1, <2>4, <2>5 DEF PowersFollowSet, PowerInSet
  <1> QED
    BY <1>1, TotalsInvariance, PTL
=============================================================================
