------------------------ MODULE StateCommit_proofs ------------------------
(* Type correctness, the references between the tables, the heads of virtual *)
(* blockchains and the voting power history, for any chain and any faults.   *)
EXTENDS StateCommit, FiniteSetTheorems, FunctionTheorems, TLAPS

-----------------------------------------------------------------------------
(* The inductive invariant *)

IsTables(d) ==
    d = [blocks |-> d.blocks, signatures |-> d.signatures, microblocks |-> d.microblocks,
         sections |-> d.sections, vbs |-> d.vbs, rows |-> d.rows, column |-> d.column,
         mbStats |-> d.mbStats, valStats |-> d.valStats, power |-> d.power,
         powers |-> d.powers]

Columns(d) == DOMAIN d.column = Hashes /\ \A v \in Hashes : DOMAIN d.column[v] = Kinds

\* The transaction: on a block of the chain, and in the steps of one of its microblocks.
Storing == {"row", "sections", "object", "stats", "head"}
HasRow  == {"sections", "object", "stats", "head"}
Done    == {"totals", "powers", "commit"}

Control ==
    /\ at # "idle" => /\ indexed < MaxHeight
                      /\ \E b \in db.blocks : b.height = Height
    /\ at \in Storing => next \in 1 .. Len(Now.micros)
    /\ at \in {"idle", "accounts"} => next = 0
    /\ at = "idle" => db = saved

TypeInv ==
    /\ TypeOK
    /\ IsTables(db) /\ IsTables(saved) /\ Columns(db) /\ Columns(saved)
    /\ Control

\* The four parts of ReferencesResolve, for the committed tables too.
SectionsResolve(d) ==
    \A s \in d.sections :
        \E m \in d.microblocks : m.hash = s.microblock /\ m.vb = s.vb /\ m.height = s.height
HeadsResolve(d) ==
    \A v \in Hashes : d.vbs[v] # NoVb => \E m \in d.microblocks : m.hash = d.vbs[v].last /\ m.vb = v
BlocksResolve(d) == \A m \in d.microblocks : \E b \in d.blocks : b.height = m.block
OwnersResolve(d) ==
    \A v \in Hashes : <<"organization", v>> \in d.rows =>
                         <<"account", d.column[v]["ORG_CREATION"]>> \in d.rows
Resolve(d) == SectionsResolve(d) /\ HeadsResolve(d) /\ BlocksResolve(d) /\ OwnersResolve(d)

\* The rows of microblocks are those of the chain, each once, in the virtual
\* blockchain of the microblock it extends.
FromChain(m) ==
    /\ m.height = Micro[m.hash].height
    /\ m.height = 1 => m.vb = m.hash
RowsLinked(d) ==
    /\ \A m \in d.microblocks : FromChain(m)
    /\ \A m \in d.microblocks : m.height # 1 =>
          \E p \in d.microblocks : p.hash = Micro[m.hash].prev /\ p.vb = m.vb
    /\ \A m, k \in d.microblocks : m.hash = k.hash => m = k
    /\ \A m, k \in d.microblocks : (m.vb = k.vb /\ m.height = k.height) => m = k

\* Microblock i of block h is stored: it was, before the one in process.
IsStored(h, i) ==
    \/ h <= indexed
    \/ h = Height /\ (i < next \/ at \in Done \/ (i = next /\ at \in HasRow))
InBlock(m, h, i) == i \in DOMAIN Block[h].micros /\ Block[h].micros[i] = m.hash
Located ==
    /\ \A m \in db.microblocks : \E h \in Heights : \E i \in Nat : InBlock(m, h, i) /\ IsStored(h, i)
    /\ \A m \in saved.microblocks : \E h \in Heights : \E i \in Nat : InBlock(m, h, i) /\ h <= indexed

\* The head of a virtual blockchain counts its rows, but for the microblock in process.
Pending == IF at \in HasRow THEN {Mb} ELSE {}
Counted(d, p, v) == {m \in d.microblocks : m.vb = v /\ m.hash \notin p}
HeadOf(d, p, v) ==
    /\ \A m \in Counted(d, p, v) : m.height <= d.vbs[v].height
    /\ \A m \in Counted(d, p, v) : m.height = d.vbs[v].height => m.hash = d.vbs[v].last
    /\ \A k \in 1 .. d.vbs[v].height : \E m \in Counted(d, p, v) : m.height = k
Heads(d, p) == \A v \in Hashes : HeadOf(d, p, v)
RowPending ==
    at \in HasRow => /\ \E m \in db.microblocks : m.hash = Mb
                     /\ \A m \in db.microblocks : m.hash = Mb => m.height = db.vbs[m.vb].height + 1

RowsInv == RowsLinked(db) /\ RowsLinked(saved) /\ Located /\ Heads(db, Pending) /\ Heads(saved, {})
           /\ RowPending

\* The voting powers: one row per node and height, up to the block.
Adjacent(d, p, q) ==
    /\ p.node = q.node /\ p.height < q.height
    /\ ~\E r \in d.powers : r.node = p.node /\ p.height < r.height /\ r.height < q.height
PowersOf(d) ==
    /\ \A p, q \in d.powers : (p.node = q.node /\ p.height = q.height) => p = q
    /\ \A p, q \in d.powers : Adjacent(d, p, q) => p.power # q.power
PowersInv ==
    /\ PowersOf(db) /\ PowersOf(saved)
    /\ \A p \in db.powers : p.height <= (IF at = "commit" THEN Height ELSE indexed)
    /\ \A p \in saved.powers : p.height <= indexed

IInv == TypeInv /\ Resolve(db) /\ Resolve(saved) /\ RowsInv /\ PowersInv

-----------------------------------------------------------------------------
(* The constants *)

LEMMA Constants ==
    /\ MaxHeight \in Nat /\ MaxFaults \in Nat
    /\ \A m \in Hashes :
          /\ Micro[m].type \in Types /\ Micro[m].height \in Nat \ {0}
          /\ Micro[m].hour \in Nat /\ Micro[m].hour \in Hours
          /\ Micro[m].gas \in Nat /\ Micro[m].price \in Nat
          /\ DOMAIN Micro[m].sections \subseteq Nat
    /\ \A h \in Heights :
          /\ Block[h].hour \in Nat /\ Block[h].hour \in Hours
          /\ Block[h].signers \in Seq([address : Addresses, flag : Nat])
          /\ Block[h].validators \subseteq [address : Addresses, power : Nat]
          /\ Block[h].modified \subseteq Hashes
          /\ Block[h].micros \in Seq(Hashes)
    /\ Hours \subseteq Nat
    /\ SectionsOf("organization") \cap Kinds = SectionsOf("organization")
    /\ \A t \in Types : SectionsOf(t) \subseteq Kinds
    /\ \A t \in Types : "ORG_CREATION" \in SectionsOf(t) => t = "organization"
    /\ "ORG_CREATION" \in Kinds /\ "ORG_CREATION" \in Required("organization")
  BY ChainAssumption DEF Hours, SectionsOf, Kinds, Required, NodeColumns, OrganizationColumns, ApplicationColumns, Types, AccountSections, NodeSections,
                         OrganizationSections, ApplicationSections

LEMMA Block_ ==
    ASSUME TypeInv, at # "idle"
    PROVE  /\ Height \in Heights /\ indexed \in Nat
           /\ Now.micros \in Seq(Hashes) /\ Len(Now.micros) \in Nat
           /\ Now.hour \in Hours
  <1>1. Height \in Heights /\ indexed \in Nat
    BY Constants DEF TypeInv, TypeOK, Control, Height, Heights
  <1> QED
    BY <1>1, Constants DEF Now

LEMMA InProcess ==
    ASSUME TypeInv, at \in Storing
    PROVE  /\ Mb \in Hashes
           /\ next \in DOMAIN Now.micros /\ next \in Nat
  <1>1. at # "idle"
    BY DEF Storing
  <1>2. next \in 1 .. Len(Now.micros) /\ Now.micros \in Seq(Hashes)
    BY <1>1, Block_ DEF TypeInv, Control
  <1> QED
    BY <1>2 DEF Mb

LEMMA VbIs ==
    ASSUME TypeInv, at \in HasRow, RowPending
    PROVE  /\ Vb \in Hashes
           /\ \E m \in db.microblocks : m.hash = Mb /\ m.vb = Vb
  <1>1. PICK m \in db.microblocks : m.hash = Mb
    BY DEF RowPending
  <1>2. m.vb \in Hashes
    BY DEF TypeInv, TypeOK, TablesType
  <1>3. \E v \in Hashes : \E k \in db.microblocks : k.hash = Mb /\ k.vb = v
    BY <1>1, <1>2
  <1> QED
    BY <1>3 DEF Vb

-----------------------------------------------------------------------------
(* What each step leaves in the tables *)

LEMMA CommitBlockTables ==
    ASSUME TypeInv, CommitBlock
    PROVE  /\ db'.blocks = db.blocks \cup {BlockRow}
           /\ \E s \in SUBSET (Heights \X Nat) : db'.signatures = db.signatures \cup s
           /\ db'.valStats \in [Hashes \X Hours -> [proposed : Nat, signed : Nat]]
           /\ db'.microblocks = db.microblocks /\ db'.sections = db.sections /\ db'.vbs = db.vbs
           /\ db'.rows = db.rows /\ db'.column = db.column /\ db'.mbStats = db.mbStats
           /\ db'.power = db.power /\ db'.powers = db.powers
           /\ IsTables(db')
  <1>1. Height \in Heights
    BY Constants DEF TypeInv, TypeOK, CommitBlock, Height, Heights
  <1>2. CASE ~Now.commit
    <2>1. db' = [db EXCEPT !.blocks = @ \cup {BlockRow}]
      BY <1>2 DEF CommitBlock
    <2>2. db.signatures = db.signatures \cup {} /\ {} \in SUBSET (Heights \X Nat)
      OBVIOUS
    <2>3. db.valStats \in [Hashes \X Hours -> [proposed : Nat, signed : Nat]]
      BY DEF TypeInv, TypeOK, TablesType
    <2> QED
      BY <2>1, <2>2, <2>3 DEF TypeInv, IsTables
  <1>3. CASE Now.commit
    <2> DEFINE s == {<<Height, i>> : i \in DOMAIN Now.signers}
    <2>1. db' = [db EXCEPT !.blocks = @ \cup {BlockRow}, !.signatures = @ \cup s,
                           !.valStats = ValidatorStats(db)]
      BY <1>3 DEF CommitBlock
    <2>2. Now.signers \in Seq([address : Addresses, flag : Nat])
      BY <1>1, Constants DEF Now
    <2>3. s \in SUBSET (Heights \X Nat)
      BY <1>1, <2>2
    <2>4. ValidatorStats(db) \in [Hashes \X Hours -> [proposed : Nat, signed : Nat]]
      <3>1. \A n : Signed(db, n) \in Nat
        <4> SUFFICES ASSUME NEW n PROVE Signed(db, n) \in Nat
          OBVIOUS
        <4> DEFINE S == {i \in DOMAIN Now.signers :
                            Now.signers[i].flag = 2 /\ Credited(db, Now.signers[i].address, n)}
        <4>1. DOMAIN Now.signers = 1 .. Len(Now.signers) /\ Len(Now.signers) \in Nat
          BY <2>2
        <4>2. IsFiniteSet(1 .. Len(Now.signers))
          BY <4>1, FS_Interval
        <4>3. S \in SUBSET (1 .. Len(Now.signers))
          BY <4>1
        <4>4. IsFiniteSet(S)
          BY <4>2, <4>3, FS_Subset
        <4>5. Cardinality(S) \in Nat
          BY <4>4, FS_CardinalityType
        <4> QED
          BY <4>5 DEF Signed
      <3>2. db.valStats \in [Hashes \X Hours -> [proposed : Nat, signed : Nat]]
        BY DEF TypeInv, TypeOK, TablesType
      <3>3. ASSUME NEW x \in Hashes \X Hours, NEW credit \in {0, 1}, NEW signed \in Nat
            PROVE  [proposed |-> db.valStats[x].proposed + credit,
                    signed |-> db.valStats[x].signed + signed] \in [proposed : Nat, signed : Nat]
        BY <3>2
      <3> QED
        BY <3>1, <3>2, <3>3 DEF ValidatorStats
    <2> QED
      BY <2>1, <2>3, <2>4 DEF TypeInv, IsTables
  <1> QED
    BY <1>2, <1>3

NewRow(v) == [hash |-> Mb, block |-> Height, vb |-> v, type |-> M.type, height |-> M.height,
              gas |-> M.gas, price |-> M.price]

LEMMA CommitRowTables ==
    ASSUME TypeInv, CommitRow
    PROVE  \E v \in Hashes :
              /\ IsVb(v)
              /\ db'.microblocks = db.microblocks \cup {NewRow(v)}
              /\ db'.blocks = db.blocks /\ db'.signatures = db.signatures
              /\ db'.sections = db.sections /\ db'.vbs = db.vbs
              /\ db'.rows = db.rows /\ db'.column = db.column /\ db'.mbStats = db.mbStats
              /\ db'.valStats = db.valStats /\ db'.power = db.power /\ db'.powers = db.powers
              /\ IsTables(db')
  <1>1. PICK v \in Hashes :
            /\ IsVb(v)
            /\ db' = [db EXCEPT !.microblocks = @ \cup {NewRow(v)}]
    BY DEF CommitRow, NewRow
  <1> QED
    BY <1>1 DEF TypeInv, IsTables

NewSections == {[microblock |-> Mb, index |-> SectionIndex(Mb, i), vb |-> Vb, type |-> M.type,
                 tag |-> M.sections[i].tag, height |-> M.height] : i \in Custom(Mb)}

LEMMA SaveCustomSectionsTables ==
    ASSUME TypeInv, SaveCustomSections
    PROVE  /\ db'.sections = db.sections \cup NewSections
           /\ db'.blocks = db.blocks /\ db'.signatures = db.signatures
           /\ db'.microblocks = db.microblocks /\ db'.vbs = db.vbs
           /\ db'.rows = db.rows /\ db'.column = db.column /\ db'.mbStats = db.mbStats
           /\ db'.valStats = db.valStats /\ db'.power = db.power /\ db'.powers = db.powers
           /\ IsTables(db')
  <1>1. db' = [db EXCEPT !.sections = @ \cup NewSections]
    BY DEF SaveCustomSections, NewSections
  <1> QED
    BY <1>1 DEF TypeInv, IsTables

LEMMA SyncModifiedAccountsTables ==
    ASSUME TypeInv, SyncModifiedAccounts
    PROVE  /\ db'.rows = db.rows \cup ({"account"} \X Now.modified)
           /\ db'.blocks = db.blocks /\ db'.signatures = db.signatures
           /\ db'.microblocks = db.microblocks /\ db'.sections = db.sections /\ db'.vbs = db.vbs
           /\ db'.column = db.column /\ db'.mbStats = db.mbStats
           /\ db'.valStats = db.valStats /\ db'.power = db.power /\ db'.powers = db.powers
           /\ IsTables(db')
  <1>1. db' = [db EXCEPT !.rows = @ \cup ({"account"} \X Now.modified)]
    BY DEF SyncModifiedAccounts
  <1> QED
    BY <1>1 DEF TypeInv, IsTables

\* The row of the object in process, when it has one, gets the declared columns.
LEMMA SaveObjectTables ==
    ASSUME TypeInv, SaveObject
    PROVE  /\ \/ Declared = {} /\ db'.rows = db.rows /\ db'.column = db.column
              \/ /\ Declared # {}
                 /\ db'.rows = db.rows \cup {<<M.type, Vb>>}
                 /\ db'.column = [db.column EXCEPT ![Vb] =
                       [k \in Kinds |-> IF k \in Declared THEN Value(k) ELSE @[k]]]
           /\ db'.blocks = db.blocks /\ db'.signatures = db.signatures
           /\ db'.microblocks = db.microblocks /\ db'.sections = db.sections /\ db'.vbs = db.vbs
           /\ db'.mbStats = db.mbStats /\ db'.valStats = db.valStats
           /\ db'.power = db.power /\ db'.powers = db.powers
           /\ IsTables(db')
  <1>1. CASE Declared = {}
    BY <1>1 DEF SaveObject, TypeInv, IsTables
  <1>2. CASE Declared # {}
    <2> DEFINE c == [db.column EXCEPT ![Vb] =
                        [k \in Kinds |-> IF k \in Declared THEN Value(k) ELSE @[k]]]
    <2>1. db' = [db EXCEPT !.rows = @ \cup {<<M.type, Vb>>}, !.column = c]
      BY <1>2 DEF SaveObject
    <2> HIDE DEF c
    <2>2. db'.rows = db.rows \cup {<<M.type, Vb>>} /\ db'.column = c
      BY <2>1 DEF TypeInv, IsTables
    <2>3. /\ db'.blocks = db.blocks /\ db'.signatures = db.signatures
          /\ db'.microblocks = db.microblocks /\ db'.sections = db.sections /\ db'.vbs = db.vbs
          /\ db'.mbStats = db.mbStats /\ db'.valStats = db.valStats
          /\ db'.power = db.power /\ db'.powers = db.powers
          /\ IsTables(db')
      BY <2>1 DEF TypeInv, IsTables
    <2> QED
      BY <1>2, <2>2, <2>3 DEF c
  <1> QED
    BY <1>1, <1>2

LEMMA UpdateMicroblockStatsTables ==
    ASSUME TypeInv, UpdateMicroblockStats
    PROVE  /\ db'.mbStats = [db.mbStats EXCEPT ![Bucket] = @ + 1]
           /\ db'.blocks = db.blocks /\ db'.signatures = db.signatures
           /\ db'.microblocks = db.microblocks /\ db'.sections = db.sections /\ db'.vbs = db.vbs
           /\ db'.rows = db.rows /\ db'.column = db.column
           /\ db'.valStats = db.valStats /\ db'.power = db.power /\ db'.powers = db.powers
           /\ IsTables(db')
  <1> DEFINE s == [db.mbStats EXCEPT ![Bucket] = @ + 1]
  <1>1. db' = [db EXCEPT !.mbStats = s]
    BY DEF UpdateMicroblockStats
  <1> HIDE DEF s
  <1>2. /\ db'.mbStats = s
        /\ db'.blocks = db.blocks /\ db'.signatures = db.signatures
        /\ db'.microblocks = db.microblocks /\ db'.sections = db.sections /\ db'.vbs = db.vbs
        /\ db'.rows = db.rows /\ db'.column = db.column
        /\ db'.valStats = db.valStats /\ db'.power = db.power /\ db'.powers = db.powers
        /\ IsTables(db')
    BY <1>1 DEF TypeInv, IsTables
  <1> QED
    BY <1>2 DEF s

\* The head after the microblock in process.
NewHead(old) ==
    IF M.height = 1
    THEN [type |-> M.type, height |-> 1, last |-> Mb, created |-> M.hour, modified |-> M.hour]
    ELSE IF old = NoVb THEN old
    ELSE [old EXCEPT !.height = M.height, !.last = Mb, !.modified = M.hour]

LEMMA UpdateVirtualBlockchainTables ==
    ASSUME TypeInv, UpdateVirtualBlockchain
    PROVE  /\ db'.vbs = [db.vbs EXCEPT ![Vb] = NewHead(@)]
           /\ db'.blocks = db.blocks /\ db'.signatures = db.signatures
           /\ db'.microblocks = db.microblocks /\ db'.sections = db.sections
           /\ db'.rows = db.rows /\ db'.column = db.column /\ db'.mbStats = db.mbStats
           /\ db'.valStats = db.valStats /\ db'.power = db.power /\ db'.powers = db.powers
           /\ IsTables(db')
  <1> DEFINE s == [db.vbs EXCEPT ![Vb] = NewHead(@)]
  <1>1. db' = [db EXCEPT !.vbs = s]
    BY DEF UpdateVirtualBlockchain, NewHead
  <1> HIDE DEF s
  <1>2. /\ db'.vbs = s
        /\ db'.blocks = db.blocks /\ db'.signatures = db.signatures
        /\ db'.microblocks = db.microblocks /\ db'.sections = db.sections
        /\ db'.rows = db.rows /\ db'.column = db.column /\ db'.mbStats = db.mbStats
        /\ db'.valStats = db.valStats /\ db'.power = db.power /\ db'.powers = db.powers
        /\ IsTables(db')
    BY <1>1 DEF TypeInv, IsTables
  <1> QED
    BY <1>2 DEF s

Totalled(b) == IF b.height = Height THEN [b EXCEPT !.microblocks = Len(Now.micros), !.fees = fees]
                                    ELSE b

LEMMA TotalsTables ==
    ASSUME TypeInv, CommitBlockMicroblocksAndFees
    PROVE  /\ db'.blocks = {Totalled(b) : b \in db.blocks}
           /\ db'.signatures = db.signatures
           /\ db'.microblocks = db.microblocks /\ db'.sections = db.sections /\ db'.vbs = db.vbs
           /\ db'.rows = db.rows /\ db'.column = db.column /\ db'.mbStats = db.mbStats
           /\ db'.valStats = db.valStats /\ db'.power = db.power /\ db'.powers = db.powers
           /\ IsTables(db')
  <1> DEFINE s == {Totalled(b) : b \in db.blocks}
  <1>1. db' = [db EXCEPT !.blocks = s]
    BY DEF CommitBlockMicroblocksAndFees, Totalled
  <1> HIDE DEF s
  <1>2. /\ db'.blocks = s
        /\ db'.signatures = db.signatures
        /\ db'.microblocks = db.microblocks /\ db'.sections = db.sections /\ db'.vbs = db.vbs
        /\ db'.rows = db.rows /\ db'.column = db.column /\ db'.mbStats = db.mbStats
        /\ db'.valStats = db.valStats /\ db'.power = db.power /\ db'.powers = db.powers
        /\ IsTables(db')
    BY <1>1 DEF TypeInv, IsTables
  <1> QED
    BY <1>2 DEF s

\* The listed validators, and what follows from the node f gives to each of them: the
\* nodes in the set, their powers, and the changes.
Listed == {v \in Now.validators : NodesAt(db, v.address) # {}}
DefinedBy(f) == {f[v] : v \in Listed}
PowerBy(f, n) == (CHOOSE v \in Listed : f[v] = n).power
ChangedBy(f) == {n \in DefinedBy(f) :
                    ~\E p \in CurrentPowers(db) : p.node = n /\ p.power = PowerBy(f, n)}
NewBy(f) == [n \in ChangedBy(f) \cup Dropped(DefinedBy(f)) |->
                IF n \in DefinedBy(f) THEN PowerBy(f, n) ELSE 0]
NewRows(f) == {[node |-> n, height |-> Height, hour |-> PowersHour, power |-> NewBy(f)[n]] :
                  n \in DOMAIN NewBy(f)}

LEMMA SyncVotingPowersTables ==
    ASSUME TypeInv, SyncVotingPowers
    PROVE  \E f \in [Listed -> Hashes] :
              /\ \A v \in Listed : f[v] \in NodesAt(db, v.address)
              /\ db'.power = [n \in Hashes |-> IF n \in DOMAIN NewBy(f) THEN NewBy(f)[n] ELSE db.power[n]]
              /\ db'.powers = db.powers \cup NewRows(f)
              /\ db'.blocks = db.blocks /\ db'.signatures = db.signatures
              /\ db'.microblocks = db.microblocks /\ db'.sections = db.sections
              /\ db'.vbs = db.vbs
              /\ db'.rows = db.rows /\ db'.column = db.column /\ db'.mbStats = db.mbStats
              /\ db'.valStats = db.valStats
              /\ IsTables(db')
  <1>1. PICK f \in [Listed -> Hashes] :
          /\ \A v \in Listed : f[v] \in NodesAt(db, v.address)
          /\ db' = [db EXCEPT
                    !.power = [n \in Hashes |-> IF n \in DOMAIN NewBy(f) THEN NewBy(f)[n] ELSE @[n]],
                    !.powers = @ \cup NewRows(f)]
    BY Zenon DEF SyncVotingPowers, Listed, DefinedBy, PowerBy, ChangedBy, NewBy, NewRows
  <1> DEFINE power1 == [n \in Hashes |-> IF n \in DOMAIN NewBy(f) THEN NewBy(f)[n] ELSE db.power[n]]
             powers1 == db.powers \cup NewRows(f)
  <1>2. db' = [db EXCEPT !.power = power1, !.powers = powers1]
    BY <1>1, Zenon
  <1>3. /\ db'.power = power1 /\ db'.powers = powers1
        /\ db'.blocks = db.blocks /\ db'.signatures = db.signatures
        /\ db'.microblocks = db.microblocks /\ db'.sections = db.sections
        /\ db'.vbs = db.vbs
        /\ db'.rows = db.rows /\ db'.column = db.column /\ db'.mbStats = db.mbStats
        /\ db'.valStats = db.valStats
        /\ IsTables(db')
    <2> HIDE DEF power1, powers1
    <2> QED
      BY <1>2 DEF TypeInv, IsTables
  <1> QED
    BY <1>1, <1>3

LEMMA NewPowers ==
    ASSUME TypeInv, at # "idle", NEW f \in [Listed -> Hashes]
    PROVE  /\ DOMAIN NewBy(f) \subseteq Hashes
           /\ \A n \in DOMAIN NewBy(f) : NewBy(f)[n] \in Nat
  <1>1. DefinedBy(f) \subseteq Hashes
    BY DEF DefinedBy
  <1>2. Dropped(DefinedBy(f)) \subseteq Hashes
    BY DEF Dropped, CurrentPowers, TypeInv, TypeOK, TablesType
  <1>3. \A v \in Listed : v.power \in Nat
    <2>1. Now.validators \subseteq [address : Addresses, power : Nat]
      BY Block_, Constants DEF Now
    <2> QED
      BY <2>1 DEF Listed
  <1>4. \A n \in DefinedBy(f) : PowerBy(f, n) \in Nat
    <2> SUFFICES ASSUME NEW n \in DefinedBy(f) PROVE PowerBy(f, n) \in Nat
      OBVIOUS
    <2>1. \E v \in Listed : f[v] = n
      BY DEF DefinedBy
    <2>2. (CHOOSE v \in Listed : f[v] = n) \in Listed
      BY <2>1
    <2> QED
      BY <1>3, <2>2 DEF PowerBy
  <1>5. DOMAIN NewBy(f) \subseteq Hashes
    BY <1>1, <1>2 DEF NewBy, ChangedBy
  <1>6. \A n \in DOMAIN NewBy(f) : NewBy(f)[n] \in Nat
    BY <1>4 DEF NewBy
  <1> QED
    BY <1>5, <1>6

-----------------------------------------------------------------------------
(* Type correctness *)

LEMMA TypesInit == Init => TypeInv
  <1> SUFFICES ASSUME Init PROVE TypeInv
    OBVIOUS
  <1>1. TablesType(EmptyTables) /\ IsTables(EmptyTables) /\ Columns(EmptyTables)
    BY DEF EmptyTables, TablesType, IsTables, Columns, NoVb, Types, Ids
  <1> QED
    BY <1>1, Constants DEF Init, TypeInv, TypeOK, Control, Storing

LEMMA CommitBlockTypes ==
    ASSUME TypeInv, CommitBlock
    PROVE  TypeInv'
  <1>1. Height \in Heights /\ indexed \in Nat /\ Height' = Height
    BY Constants DEF TypeInv, TypeOK, CommitBlock, Height, Heights
  <1>2. BlockRow \in [height : Heights, hour : Hours, microblocks : Nat, fees : Nat]
    BY <1>1, Constants DEF BlockRow, Now
  <1>3. TablesType(db')
    BY <1>2, CommitBlockTables DEF TypeInv, TypeOK, TablesType
  <1>4. Columns(db')
    BY CommitBlockTables DEF TypeInv, Columns
  <1>5. BlockRow \in db'.blocks /\ BlockRow.height = Height'
    BY <1>1, CommitBlockTables DEF BlockRow
  <1> QED
    BY <1>3, <1>4, <1>5, CommitBlockTables DEF TypeInv, TypeOK, Control, Storing, CommitBlock

LEMMA SyncModifiedAccountsTypes ==
    ASSUME TypeInv, SyncModifiedAccounts
    PROVE  TypeInv'
  <1>1. Height \in Heights /\ Now.micros \in Seq(Hashes) /\ Now' = Now /\ Height' = Height
    BY Block_ DEF SyncModifiedAccounts, Now, Height
  <1>2. {"account"} \X Now.modified \subseteq Types \X Hashes
    BY <1>1, Constants DEF Now, Types
  <1>3. TablesType(db')
    BY <1>2, SyncModifiedAccountsTables DEF TypeInv, TypeOK, TablesType
  <1>4. Columns(db')
    BY SyncModifiedAccountsTables DEF TypeInv, Columns
  <1>5. Now.micros # <<>> => 1 \in 1 .. Len(Now.micros)
    BY <1>1
  <1>6. Control'
    BY <1>1, <1>5, SyncModifiedAccountsTables DEF TypeInv, Control, Storing, SyncModifiedAccounts
  <1>7. at' \in {"totals", "row"} /\ next' \in Nat /\ fees' \in Nat
    BY DEF SyncModifiedAccounts
  <1> QED
    BY <1>3, <1>4, <1>6, <1>7, SyncModifiedAccountsTables
    DEF TypeInv, TypeOK, SyncModifiedAccounts

LEMMA CommitRowTypes ==
    ASSUME TypeInv, CommitRow
    PROVE  TypeInv'
  <1>1. Mb \in Hashes /\ Height \in Heights
    BY InProcess, Block_ DEF CommitRow, Storing
  <1>2. PICK v \in Hashes : db'.microblocks = db.microblocks \cup {NewRow(v)}
    BY CommitRowTables
  <1>3. NewRow(v) \in [hash : Hashes, block : Heights, vb : Hashes, type : Types,
                       height : Nat, gas : Nat, price : Nat]
    BY <1>1, Constants DEF NewRow, M
  <1>4. TablesType(db') /\ Columns(db')
    BY <1>2, <1>3, CommitRowTables DEF TypeInv, TypeOK, TablesType, Columns
  <1>5. Control'
    BY CommitRowTables DEF TypeInv, Control, Storing, CommitRow, Now, Height
  <1> QED
    BY <1>4, <1>5, CommitRowTables DEF TypeInv, TypeOK, CommitRow

LEMMA SaveCustomSectionsTypes ==
    ASSUME TypeInv, RowPending, SaveCustomSections
    PROVE  TypeInv'
  <1>1. Mb \in Hashes /\ Vb \in Hashes
    BY InProcess, VbIs DEF SaveCustomSections, Storing, HasRow
  <1>2. NewSections \subseteq [microblock : Hashes, index : Nat, vb : Hashes, type : Types,
                               tag : Tags \ {Null}, height : Nat]
    <2> SUFFICES ASSUME NEW i \in Custom(Mb)
                 PROVE  [microblock |-> Mb, index |-> SectionIndex(Mb, i), vb |-> Vb,
                         type |-> M.type, tag |-> M.sections[i].tag, height |-> M.height]
                          \in [microblock : Hashes, index : Nat, vb : Hashes, type : Types,
                               tag : Tags \ {Null}, height : Nat]
      BY DEF NewSections
    <2>1. i \in DOMAIN Micro[Mb].sections /\ i \in Nat
      BY <1>1, Constants DEF Custom
    <2>2. Micro[Mb].sections[i].tag \in Tags \ {Null}
      BY <1>1, <2>1 DEF Tags, Custom
    <2> QED
      BY <1>1, <2>1, <2>2, Constants DEF SectionIndex, M
  <1>3. TablesType(db') /\ Columns(db')
    BY <1>2, SaveCustomSectionsTables DEF TypeInv, TypeOK, TablesType, Columns
  <1>4. Control'
    BY SaveCustomSectionsTables DEF TypeInv, Control, Storing, SaveCustomSections, Now, Height
  <1> QED
    BY <1>3, <1>4, SaveCustomSectionsTables DEF TypeInv, TypeOK, SaveCustomSections

LEMMA SaveObjectTypes ==
    ASSUME TypeInv, RowPending, SaveObject
    PROVE  TypeInv'
  <1>1. Mb \in Hashes /\ Vb \in Hashes
    BY InProcess, VbIs DEF SaveObject, Storing, HasRow
  <1>2. <<M.type, Vb>> \in Types \X Hashes
    BY <1>1, Constants DEF M
  <1>3. db'.rows \subseteq Types \X Hashes
    BY <1>2, SaveObjectTables DEF TypeInv, TypeOK, TablesType
  <1>4. Columns(db')
    BY <1>1, SaveObjectTables DEF TypeInv, Columns
  <1>5. TablesType(db')
    BY <1>3, <1>4, SaveObjectTables DEF TypeInv, TypeOK, TablesType, Columns
  <1>6. Control'
    BY SaveObjectTables DEF TypeInv, Control, Storing, SaveObject, Now, Height
  <1> QED
    BY <1>4, <1>5, <1>6, SaveObjectTables DEF TypeInv, TypeOK, SaveObject

LEMMA UpdateMicroblockStatsTypes ==
    ASSUME TypeInv, UpdateMicroblockStats
    PROVE  TypeInv'
  <1> DEFINE D == Hours \X Types \X BOOLEAN
  <1>1. db'.mbStats \in [D -> Nat]
    <2>1. db.mbStats \in [D -> Nat]
      BY DEF TypeInv, TypeOK, TablesType
    <2> HIDE DEF D
    <2> QED
      BY <2>1, UpdateMicroblockStatsTables
  <1>2. TablesType(db') /\ Columns(db')
    BY <1>1, UpdateMicroblockStatsTables DEF TypeInv, TypeOK, TablesType, Columns
  <1>3. Control'
    BY UpdateMicroblockStatsTables DEF TypeInv, Control, Storing, UpdateMicroblockStats, Now, Height
  <1> QED
    BY <1>2, <1>3, UpdateMicroblockStatsTables DEF TypeInv, TypeOK, UpdateMicroblockStats

VbRow == [type : Types, height : Nat, last : Ids, created : Nat, modified : Nat]

LEMMA NewHeadTyped ==
    ASSUME Mb \in Hashes, NEW old \in VbRow
    PROVE  /\ NewHead(old) \in VbRow
           /\ NewHead(old) # old \/ M.height = 1 => NewHead(old).height = M.height
           /\ M.height = 1 \/ old # NoVb => NewHead(old).height = M.height /\ NewHead(old).last = Mb
  <1>1. M.height \in Nat /\ M.hour \in Nat /\ M.type \in Types
    BY Constants DEF M
  <1>2. PICK t \in Types, h \in Nat, l \in Ids, c \in Nat, m \in Nat :
            old = [type |-> t, height |-> h, last |-> l, created |-> c, modified |-> m]
    BY DEF VbRow
  <1> DEFINE new == [old EXCEPT !.height = M.height, !.last = Mb, !.modified = M.hour]
  <1>3. new = [type |-> t, height |-> M.height, last |-> Mb, created |-> c, modified |-> M.hour]
    <2> DEFINE r1 == [type |-> t, height |-> M.height, last |-> l, created |-> c, modified |-> m]
               r2 == [type |-> t, height |-> M.height, last |-> Mb, created |-> c, modified |-> m]
    <2>1. new = [[[old EXCEPT !.height = M.height] EXCEPT !.last = Mb] EXCEPT !.modified = M.hour]
      OBVIOUS
    <2>2. [old EXCEPT !.height = M.height] = r1
      BY <1>2
    <2>3. [r1 EXCEPT !.last = Mb] = r2
      OBVIOUS
    <2>4. [r2 EXCEPT !.modified = M.hour]
             = [type |-> t, height |-> M.height, last |-> Mb, created |-> c, modified |-> M.hour]
      OBVIOUS
    <2> HIDE DEF r1, r2, new
    <2> QED
      BY <2>1, <2>2, <2>3, <2>4
  <1>4. new \in VbRow /\ new.height = M.height /\ new.last = Mb
    BY <1>1, <1>3 DEF VbRow, Ids
  <1> QED
    BY <1>1, <1>4 DEF NewHead, VbRow, Ids

LEMMA UpdateVirtualBlockchainTypes ==
    ASSUME TypeInv, RowPending, UpdateVirtualBlockchain
    PROVE  TypeInv'
  <1>1. Mb \in Hashes /\ Vb \in Hashes /\ next \in DOMAIN Now.micros
    BY InProcess, VbIs DEF UpdateVirtualBlockchain, Storing, HasRow
  <1>2. db.vbs \in [Hashes -> VbRow]
    BY DEF TypeInv, TypeOK, TablesType, VbRow
  <1>3. NewHead(db.vbs[Vb]) \in VbRow
    BY <1>1, <1>2, NewHeadTyped
  <1>4. db'.vbs \in [Hashes -> VbRow]
    BY <1>1, <1>2, <1>3, UpdateVirtualBlockchainTables
  <1>5. TablesType(db') /\ Columns(db')
    BY <1>4, UpdateVirtualBlockchainTables DEF TypeInv, TypeOK, TablesType, Columns, VbRow
  <1>6. fees' \in Nat
    <2>1. M.gas \in Nat /\ M.price \in Nat
      BY <1>1, Constants DEF M
    <2>2. M.gas * M.price \in Nat
      BY <2>1
    <2> QED
      BY <2>2 DEF UpdateVirtualBlockchain, TypeInv, TypeOK
  <1>7. at' \in {"row", "totals"} /\ next' \in Nat
    BY DEF UpdateVirtualBlockchain, TypeInv, TypeOK
  <1>8. Control'
    <2>1. Now.micros \in Seq(Hashes) /\ Now' = Now /\ Height' = Height
      BY Block_ DEF UpdateVirtualBlockchain, Now, Height
    <2>2. at' = "row" => next' \in 1 .. Len(Now.micros)
      BY <1>1, <2>1 DEF UpdateVirtualBlockchain
    <2> QED
      BY <1>7, <2>1, <2>2, UpdateVirtualBlockchainTables
      DEF TypeInv, Control, Storing, UpdateVirtualBlockchain
  <1> QED
    BY <1>5, <1>6, <1>7, <1>8, UpdateVirtualBlockchainTables
    DEF TypeInv, TypeOK, UpdateVirtualBlockchain

LEMMA TotalledRow ==
    ASSUME NEW b \in [height : Heights, hour : Hours, microblocks : Nat, fees : Nat],
           Len(Now.micros) \in Nat, fees \in Nat
    PROVE  /\ Totalled(b) \in [height : Heights, hour : Hours, microblocks : Nat, fees : Nat]
           /\ Totalled(b).height = b.height
  <1>1. PICK h \in Heights, o \in Hours, m \in Nat, f \in Nat :
            b = [height |-> h, hour |-> o, microblocks |-> m, fees |-> f]
    OBVIOUS
  <1> DEFINE n == [b EXCEPT !.microblocks = Len(Now.micros), !.fees = fees]
  <1>2. n = [height |-> h, hour |-> o, microblocks |-> Len(Now.micros), fees |-> fees]
    <2> DEFINE r == [height |-> h, hour |-> o, microblocks |-> Len(Now.micros), fees |-> f]
    <2>1. n = [[b EXCEPT !.microblocks = Len(Now.micros)] EXCEPT !.fees = fees]
      OBVIOUS
    <2>2. [b EXCEPT !.microblocks = Len(Now.micros)] = r
      BY <1>1
    <2>3. [r EXCEPT !.fees = fees]
             = [height |-> h, hour |-> o, microblocks |-> Len(Now.micros), fees |-> fees]
      OBVIOUS
    <2> HIDE DEF r, n
    <2> QED
      BY <2>1, <2>2, <2>3
  <1> QED
    BY <1>2 DEF Totalled

LEMMA TotalsTypes ==
    ASSUME TypeInv, CommitBlockMicroblocksAndFees
    PROVE  /\ TypeInv'
           /\ \A b \in db.blocks : \E c \in db'.blocks : c.height = b.height
  <1>1. Len(Now.micros) \in Nat /\ fees \in Nat /\ Height' = Height
    BY Block_ DEF TypeInv, TypeOK, CommitBlockMicroblocksAndFees, Height
  <1>2. \A b \in db.blocks :
            /\ Totalled(b) \in [height : Heights, hour : Hours, microblocks : Nat, fees : Nat]
            /\ Totalled(b).height = b.height
    BY <1>1, TotalledRow DEF TypeInv, TypeOK, TablesType
  <1>3. \A b \in db.blocks : \E c \in db'.blocks : c.height = b.height
    BY <1>2, TotalsTables
  <1>4. TablesType(db') /\ Columns(db')
    BY <1>2, TotalsTables DEF TypeInv, TypeOK, TablesType, Columns
  <1>5. Control'
    BY <1>1, <1>3, TotalsTables DEF TypeInv, Control, Storing, CommitBlockMicroblocksAndFees
  <1> QED
    BY <1>3, <1>4, <1>5, TotalsTables DEF TypeInv, TypeOK, CommitBlockMicroblocksAndFees

LEMMA SyncVotingPowersTypes ==
    ASSUME TypeInv, SyncVotingPowers
    PROVE  TypeInv'
  <1>1. at # "idle" /\ Height \in Heights /\ Now.hour \in Hours
    BY Block_ DEF SyncVotingPowers
  <1>2. PICK f \in [Listed -> Hashes] :
          /\ db'.power = [n \in Hashes |-> IF n \in DOMAIN NewBy(f) THEN NewBy(f)[n] ELSE db.power[n]]
          /\ db'.powers = db.powers \cup NewRows(f)
    BY SyncVotingPowersTables
  <1>3. DOMAIN NewBy(f) \subseteq Hashes /\ \A n \in DOMAIN NewBy(f) : NewBy(f)[n] \in Nat
    BY <1>1, NewPowers
  <1>4. NewRows(f) \subseteq [node : Hashes, height : Heights, hour : Hours \cup {0}, power : Nat]
    BY <1>1, <1>3 DEF NewRows, PowersHour
  <1>5. db'.power \in [Hashes -> Nat]
    BY <1>2, <1>3 DEF TypeInv, TypeOK, TablesType
  <1>6. TablesType(db') /\ Columns(db')
    BY <1>2, <1>4, <1>5, SyncVotingPowersTables DEF TypeInv, TypeOK, TablesType, Columns
  <1>7. Control'
    BY SyncVotingPowersTables DEF TypeInv, Control, Storing, SyncVotingPowers, Now, Height
  <1> QED
    BY <1>6, <1>7, SyncVotingPowersTables DEF TypeInv, TypeOK, SyncVotingPowers

LEMMA CommitTypes ==
    ASSUME TypeInv, Commit
    PROVE  TypeInv'
  <1>1. Height \in 0 .. MaxHeight
    BY Block_, Constants DEF Commit, Heights
  <1> QED
    BY <1>1 DEF TypeInv, TypeOK, Control, Storing, Commit

LEMMA FailTypes ==
    ASSUME TypeInv, Fail
    PROVE  TypeInv'
  <1>1. faults' \in 0 .. MaxFaults
    BY Constants DEF TypeInv, TypeOK, Fail
  <1> QED
    BY <1>1 DEF TypeInv, TypeOK, Control, Storing, Fail, Rollback

LEMMA StutterTypes ==
    ASSUME TypeInv, UNCHANGED vars
    PROVE  TypeInv'
  BY DEF TypeInv, TypeOK, Control, Storing, vars, Now, Height

-----------------------------------------------------------------------------
(* References between the tables *)

LEMMA ResolveInit == Init => Resolve(db) /\ Resolve(saved)
  <1> SUFFICES ASSUME Init PROVE Resolve(EmptyTables)
    BY DEF Init
  <1> QED
    BY DEF EmptyTables, Resolve, SectionsResolve, HeadsResolve, BlocksResolve, OwnersResolve

\* The rows of every object but the one in process, and all references between the
\* other tables, survive a step that only adds to them.
LEMMA CommitBlockResolves ==
    ASSUME TypeInv, Resolve(db), CommitBlock
    PROVE  Resolve(db')
  BY CommitBlockTables DEF Resolve, SectionsResolve, HeadsResolve, BlocksResolve, OwnersResolve

LEMMA SyncModifiedAccountsResolves ==
    ASSUME TypeInv, Resolve(db), SyncModifiedAccounts
    PROVE  Resolve(db')
  <1>1. OwnersResolve(db')
    <2> SUFFICES ASSUME NEW v \in Hashes, <<"organization", v>> \in db'.rows
                 PROVE  <<"account", db'.column[v]["ORG_CREATION"]>> \in db'.rows
      BY DEF OwnersResolve
    <2>1. <<"organization", v>> \in db.rows
      BY SyncModifiedAccountsTables
    <2> QED
      BY <2>1, SyncModifiedAccountsTables DEF Resolve, OwnersResolve
  <1> QED
    BY <1>1, SyncModifiedAccountsTables
    DEF Resolve, SectionsResolve, HeadsResolve, BlocksResolve

LEMMA CommitRowResolves ==
    ASSUME TypeInv, Resolve(db), CommitRow
    PROVE  Resolve(db')
  <1>1. PICK v \in Hashes : db'.microblocks = db.microblocks \cup {NewRow(v)}
    BY CommitRowTables
  <1>2. \E b \in db.blocks : b.height = NewRow(v).block
    BY DEF NewRow, TypeInv, Control, CommitRow
  <1>3. db.microblocks \subseteq db'.microblocks
    BY <1>1
  <1>4. SectionsResolve(db')
    BY <1>3, CommitRowTables DEF Resolve, SectionsResolve
  <1>5. HeadsResolve(db')
    BY <1>3, CommitRowTables DEF Resolve, HeadsResolve
  <1>6. BlocksResolve(db')
    BY <1>1, <1>2, CommitRowTables DEF Resolve, BlocksResolve
  <1>7. OwnersResolve(db')
    BY CommitRowTables DEF Resolve, OwnersResolve
  <1> QED
    BY <1>4, <1>5, <1>6, <1>7 DEF Resolve

LEMMA SaveCustomSectionsResolves ==
    ASSUME TypeInv, Resolve(db), RowsLinked(db), RowPending, SaveCustomSections
    PROVE  Resolve(db')
  <1>1. PICK m \in db.microblocks : m.hash = Mb /\ m.vb = Vb
    BY VbIs DEF SaveCustomSections, HasRow
  <1>2. m.height = M.height
    BY <1>1 DEF RowsLinked, FromChain, M
  <1>3. \A s \in NewSections : m.hash = s.microblock /\ m.vb = s.vb /\ m.height = s.height
    BY <1>1, <1>2 DEF NewSections
  <1>4. SectionsResolve(db')
    BY <1>3, SaveCustomSectionsTables DEF Resolve, SectionsResolve
  <1> QED
    BY <1>4, SaveCustomSectionsTables DEF Resolve, HeadsResolve, BlocksResolve, OwnersResolve

\* Only an organization has an owner, and gets its row with it.
LEMMA SaveObjectResolves ==
    ASSUME TypeInv, Resolve(db), RowPending, SaveObject
    PROVE  Resolve(db')
  <1>1. Mb \in Hashes /\ Vb \in Hashes /\ M.type \in Types
    BY InProcess, VbIs, Constants DEF SaveObject, Storing, HasRow, M
  <1>2. CASE Declared = {}
    BY <1>2, SaveObjectTables
    DEF Resolve, SectionsResolve, HeadsResolve, BlocksResolve, OwnersResolve
  <1>3. CASE Declared # {}
    <2>1. /\ db'.rows = db.rows \cup {<<M.type, Vb>>}
          /\ db'.column = [db.column EXCEPT ![Vb] =
                [k \in Kinds |-> IF k \in Declared THEN Value(k) ELSE @[k]]]
      BY <1>3, SaveObjectTables
    <2>2. "ORG_CREATION" \in Declared => M.type = "organization"
      BY <1>1, Constants DEF Declared
    <2>3. Declared \subseteq Kinds
      BY <1>1, Constants DEF Declared
    <2>4. ASSUME NEW v \in Hashes, <<"organization", v>> \in db'.rows
          PROVE  <<"account", db'.column[v]["ORG_CREATION"]>> \in db'.rows
      <3>1. CASE v # Vb
        <4>1. <<"organization", v>> \in db.rows
          BY <2>1, <2>4, <3>1
        <4>2. db'.column[v] = db.column[v]
          BY <2>1, <2>4, <3>1 DEF TypeInv, Columns
        <4> QED
          BY <2>1, <4>1, <4>2 DEF Resolve, OwnersResolve
      <3>2. CASE v = Vb /\ "ORG_CREATION" \in Declared
        <4>1. db'.column[v]["ORG_CREATION"] = Value("ORG_CREATION")
          BY <1>1, <2>1, <3>2, Constants DEF TypeInv, Columns
        <4>2. <<"account", Value("ORG_CREATION")>> \in db.rows
          BY <3>2 DEF SaveObject, Refused
        <4> QED
          BY <2>1, <4>1, <4>2
      <3>3. CASE v = Vb /\ "ORG_CREATION" \notin Declared
        <4>1. db'.column[v]["ORG_CREATION"] = db.column[v]["ORG_CREATION"]
          BY <1>1, <2>1, <3>3, Constants DEF TypeInv, Columns
        <4>2. <<"organization", v>> \in db.rows
          <5>1. CASE M.type # "organization"
            BY <2>1, <2>4, <3>3, <5>1
          <5>2. CASE M.type = "organization"
            <6>1. ~(Required(M.type) \subseteq Declared)
              BY <3>3, <5>2, Constants
            <6> QED
              BY <1>3, <3>3, <5>2, <6>1 DEF SaveObject, Refused
          <5> QED
            BY <5>1, <5>2
        <4> QED
          BY <2>1, <4>1, <4>2 DEF Resolve, OwnersResolve
      <3> QED
        BY <3>1, <3>2, <3>3
    <2>5. OwnersResolve(db')
      BY <2>4 DEF OwnersResolve
    <2> QED
      BY <2>5, SaveObjectTables DEF Resolve, SectionsResolve, HeadsResolve, BlocksResolve
  <1> QED
    BY <1>2, <1>3

LEMMA UpdateMicroblockStatsResolves ==
    ASSUME TypeInv, Resolve(db), UpdateMicroblockStats
    PROVE  Resolve(db')
  BY UpdateMicroblockStatsTables
  DEF Resolve, SectionsResolve, HeadsResolve, BlocksResolve, OwnersResolve

LEMMA UpdateVirtualBlockchainResolves ==
    ASSUME TypeInv, Resolve(db), RowPending, UpdateVirtualBlockchain
    PROVE  Resolve(db')
  <1>1. Mb \in Hashes /\ Vb \in Hashes
    BY InProcess, VbIs DEF UpdateVirtualBlockchain, Storing, HasRow
  <1>2. PICK m \in db.microblocks : m.hash = Mb /\ m.vb = Vb
    BY VbIs DEF UpdateVirtualBlockchain, HasRow
  <1>3. db.vbs \in [Hashes -> VbRow]
    BY DEF TypeInv, TypeOK, TablesType, VbRow
  <1>4. NewHead(db.vbs[Vb]) # NoVb => NewHead(db.vbs[Vb]).last = Mb
    BY <1>1, <1>3, NewHeadTyped DEF NewHead
  <1>5. HeadsResolve(db')
    <2> SUFFICES ASSUME NEW v \in Hashes, db'.vbs[v] # NoVb
                 PROVE  \E k \in db'.microblocks : k.hash = db'.vbs[v].last /\ k.vb = v
      BY DEF HeadsResolve
    <2>1. CASE v = Vb
      BY <1>1, <1>2, <1>3, <1>4, <2>1, UpdateVirtualBlockchainTables
    <2>2. CASE v # Vb
      BY <1>3, <2>2, UpdateVirtualBlockchainTables DEF Resolve, HeadsResolve
    <2> QED
      BY <2>1, <2>2
  <1> QED
    BY <1>5, UpdateVirtualBlockchainTables DEF Resolve, SectionsResolve, BlocksResolve, OwnersResolve

LEMMA TotalsResolves ==
    ASSUME TypeInv, Resolve(db), CommitBlockMicroblocksAndFees
    PROVE  Resolve(db')
  <1>1. BlocksResolve(db')
    BY TotalsTypes, TotalsTables DEF Resolve, BlocksResolve
  <1> QED
    BY <1>1, TotalsTables DEF Resolve, SectionsResolve, HeadsResolve, OwnersResolve

LEMMA SyncVotingPowersResolves ==
    ASSUME TypeInv, Resolve(db), SyncVotingPowers
    PROVE  Resolve(db')
  <1>1. /\ db'.blocks = db.blocks /\ db'.microblocks = db.microblocks
        /\ db'.sections = db.sections /\ db'.vbs = db.vbs
        /\ db'.rows = db.rows /\ db'.column = db.column
    BY SyncVotingPowersTables
  <1> QED
    BY <1>1 DEF Resolve, SectionsResolve, HeadsResolve, BlocksResolve, OwnersResolve

-----------------------------------------------------------------------------
(* Heads of virtual blockchains *)

\* Steps that neither store a microblock nor move a head.
SameRows == db'.microblocks = db.microblocks /\ db'.vbs = db.vbs

LEMMA RowsInit == Init => RowsInv
  <1> SUFFICES ASSUME Init PROVE RowsInv
    OBVIOUS
  <1>1. db.microblocks = {} /\ saved.microblocks = {} /\ at = "idle"
    BY DEF Init, EmptyTables
  <1>2. \A v \in Hashes : db.vbs[v].height = 0 /\ saved.vbs[v].height = 0
    BY DEF Init, EmptyTables, NoVb
  <1>3. \A v \in Hashes : \A p : HeadOf(db, p, v) /\ HeadOf(saved, p, v)
    BY <1>1, <1>2 DEF HeadOf, Counted
  <1> QED
    BY <1>1, <1>3 DEF RowsInv, RowsLinked, Located, Heads, RowPending, HasRow

\* What holds of the microblocks of the open transaction.
OpenRows == RowsLinked(db) /\ Heads(db, Pending) /\ RowPending
            /\ \A m \in db.microblocks : \E h \in Heights : \E i \in Nat :
                  InBlock(m, h, i) /\ IsStored(h, i)

LEMMA OpenRowsSuffice ==
    ASSUME RowsInv, UNCHANGED <<saved, indexed>>, OpenRows'
    PROVE  RowsInv'
  BY DEF RowsInv, OpenRows, RowsLinked, Located, Heads, HeadOf, Counted, InBlock

\* A step within the transaction that stays on the microblock, or has none.
LEMMA SameRowsKept ==
    ASSUME TypeInv, RowsInv, SameRows, UNCHANGED indexed,
           Pending' = Pending,
           RowPending',
           \A h \in Heights, i \in Nat : IsStored(h, i) => IsStored(h, i)'
    PROVE  OpenRows'
  <1>1. RowsLinked(db')
    BY DEF RowsInv, RowsLinked, SameRows
  <1>2. Heads(db', Pending)
    BY DEF RowsInv, Heads, HeadOf, Counted, SameRows
  <1>3. \A m \in db'.microblocks : \E h \in Heights : \E i \in Nat :
            InBlock(m, h, i) /\ IsStored(h, i)'
    BY DEF RowsInv, Located, SameRows
  <1>4. Heads(db', Pending')
    BY <1>2
  <1> QED
    BY <1>1, <1>3, <1>4 DEF OpenRows, InBlock

LEMMA CommitBlockRows ==
    ASSUME TypeInv, RowsInv, CommitBlock
    PROVE  RowsInv'
  <1>1. SameRows /\ UNCHANGED <<saved, indexed, next>> /\ at = "idle" /\ at' = "accounts"
    BY CommitBlockTables DEF SameRows, CommitBlock
  <1>2. Pending' = Pending /\ RowPending'
    BY <1>1 DEF Pending, RowPending, HasRow
  <1>3. \A h \in Heights, i \in Nat : IsStored(h, i) => IsStored(h, i)'
    BY <1>1 DEF IsStored, Height, HasRow, Done
  <1> QED
    BY <1>1, <1>2, <1>3, SameRowsKept, OpenRowsSuffice

LEMMA SyncModifiedAccountsRows ==
    ASSUME TypeInv, RowsInv, SyncModifiedAccounts
    PROVE  RowsInv'
  <1>1. SameRows /\ UNCHANGED <<saved, indexed>> /\ at = "accounts" /\ at' \in {"totals", "row"}
        /\ next = 0 /\ next' = 1
    BY SyncModifiedAccountsTables DEF SameRows, SyncModifiedAccounts, TypeInv, Control
  <1>2. Pending' = Pending /\ RowPending'
    BY <1>1 DEF Pending, RowPending, HasRow
  <1>3. \A h \in Heights, i \in Nat : IsStored(h, i) => IsStored(h, i)'
    BY <1>1 DEF IsStored, Height, HasRow, Done
  <1> QED
    BY <1>1, <1>2, <1>3, SameRowsKept, OpenRowsSuffice

\* From the row of a microblock to its head, nothing else changes.
LEMMA MicroblockStepRows ==
    ASSUME TypeInv, RowsInv, SameRows, UNCHANGED <<saved, indexed, next>>,
           at \in HasRow, at' \in HasRow
    PROVE  RowsInv'
  <1>1. Mb' = Mb
    BY DEF Mb, Now, Height
  <1>2. Pending' = Pending
    BY <1>1 DEF Pending
  <1>3. RowPending'
    BY <1>1 DEF RowsInv, RowPending, SameRows
  <1>4. \A h \in Heights, i \in Nat : IsStored(h, i) => IsStored(h, i)'
    BY DEF IsStored, Height, HasRow, Done
  <1> QED
    BY <1>2, <1>3, <1>4, SameRowsKept, OpenRowsSuffice

\* After the last microblock.
LEMMA BlockStepRows ==
    ASSUME TypeInv, RowsInv, SameRows, UNCHANGED <<saved, indexed, next>>,
           at \in Done, at' \in Done
    PROVE  RowsInv'
  <1>1. Pending' = Pending /\ RowPending'
    BY DEF Pending, RowPending, HasRow, Done
  <1>2. \A h \in Heights, i \in Nat : IsStored(h, i) => IsStored(h, i)'
    BY DEF IsStored, Height, HasRow, Done
  <1> QED
    BY <1>1, <1>2, SameRowsKept, OpenRowsSuffice

\* The microblock in process has no row yet.
LEMMA NotStoredYet ==
    ASSUME TypeInv, RowsInv, at = "row", NEW m \in db.microblocks
    PROVE  m.hash # Mb
  <1> SUFFICES ASSUME m.hash = Mb PROVE FALSE
    OBVIOUS
  <1>1. next \in DOMAIN Now.micros /\ next \in Nat /\ Height \in Heights /\ indexed \in Nat
    BY InProcess, Block_ DEF Storing
  <1>2. PICK h \in Heights : \E i \in Nat : InBlock(m, h, i) /\ IsStored(h, i)
    BY DEF RowsInv, Located
  <1>3. PICK i \in Nat : InBlock(m, h, i) /\ IsStored(h, i)
    BY <1>2
  <1>4. h = Height /\ i = next
    BY <1>1, <1>3, VirtualBlockchainAssumption DEF InBlock, Mb, Now
  <1> QED
    BY <1>1, <1>3, <1>4 DEF IsStored, Height, HasRow, Done

\* It comes right after the head of its virtual blockchain: a row above the microblock
\* it extends would extend that one too.
LEMMA ExtendsHead ==
    ASSUME TypeInv, RowsInv, at = "row", NEW v \in Hashes, IsVb(v)
    PROVE  M.height = db.vbs[v].height + 1
  <1>1. Mb \in Hashes /\ M.height \in Nat \ {0}
    BY InProcess, Constants DEF Storing, M
  <1>2. db.vbs[v].height \in Nat
    BY DEF TypeInv, TypeOK, TablesType
  <1>3. HeadOf(db, {}, v) /\ RowsLinked(db)
    BY DEF RowsInv, Heads, Pending, HasRow
  <1>4. CASE M.height = 1
    <2>1. v = Mb
      BY <1>4 DEF IsVb
    <2>2. ASSUME db.vbs[v].height # 0 PROVE FALSE
      <3>1. PICK m \in db.microblocks : m.vb = v /\ m.height = 1
        BY <1>2, <1>3, <2>2 DEF HeadOf, Counted
      <3>2. m.hash = Mb
        BY <1>3, <2>1, <3>1 DEF RowsLinked, FromChain
      <3> QED
        BY <3>2, NotStoredYet
    <2> QED
      BY <1>4, <2>2
  <1>5. CASE M.height # 1
    <2>1. PICK p \in db.microblocks : p.hash = M.prev /\ p.vb = v
      BY <1>5 DEF IsVb
    <2>2. p.height \in Nat /\ M.height = p.height + 1
      <3>1. p.height = Micro[M.prev].height
        BY <1>3, <2>1 DEF RowsLinked, FromChain
      <3>2. M.height = Micro[M.prev].height + 1
        BY <1>1, <1>5, VirtualBlockchainAssumption DEF M
      <3> QED
        BY <3>1, <3>2 DEF TypeInv, TypeOK, TablesType
    <2>3. p.height <= db.vbs[v].height
      BY <1>3, <2>1 DEF HeadOf, Counted
    <2>4. ASSUME p.height < db.vbs[v].height PROVE FALSE
      <3>1. PICK r \in db.microblocks : r.vb = v /\ r.height = M.height
        BY <1>1, <1>2, <1>3, <2>2, <2>4 DEF HeadOf, Counted
      <3>2. PICK q \in db.microblocks : q.hash = Micro[r.hash].prev /\ q.vb = v
        BY <1>3, <1>5, <3>1 DEF RowsLinked
      <3>3. r.hash \in Hashes /\ Micro[r.hash].height = M.height
        BY <1>3, <3>1 DEF RowsLinked, FromChain, TypeInv, TypeOK, TablesType
      <3>4. q.height = p.height
        <4>1. q.height = Micro[Micro[r.hash].prev].height
          BY <1>3, <3>2 DEF RowsLinked, FromChain
        <4>2. Micro[r.hash].height = Micro[Micro[r.hash].prev].height + 1
          BY <1>5, <3>3, VirtualBlockchainAssumption
        <4>3. q.height \in Nat
          BY DEF TypeInv, TypeOK, TablesType
        <4> QED
          BY <2>2, <3>3, <4>1, <4>2, <4>3
      <3>5. q = p
        BY <1>3, <2>1, <3>2, <3>4 DEF RowsLinked
      <3>6. r.hash = Mb
        BY <1>1, <1>5, <2>1, <3>2, <3>3, <3>5, VirtualBlockchainAssumption DEF M
      <3> QED
        BY <3>6, NotStoredYet
    <2> QED
      BY <1>2, <2>2, <2>3, <2>4
  <1> QED
    BY <1>4, <1>5

LEMMA CommitRowRows ==
    ASSUME TypeInv, RowsInv, CommitRow
    PROVE  RowsInv'
  <1>1. PICK v \in Hashes : /\ IsVb(v)
                            /\ db'.microblocks = db.microblocks \cup {NewRow(v)}
                            /\ db'.vbs = db.vbs
    BY CommitRowTables
  <1> DEFINE r == NewRow(v)
  <1>2. /\ at = "row" /\ at' = "sections" /\ UNCHANGED <<saved, indexed, next>>
        /\ Mb \in Hashes /\ Mb' = Mb /\ M.height \in Nat \ {0}
        /\ next \in DOMAIN Now.micros /\ next \in Nat /\ Height \in Heights
    BY InProcess, Block_, Constants DEF CommitRow, Storing, Mb, M, Now, Height
  <1>3. r.hash = Mb /\ r.vb = v /\ r.height = M.height
    BY DEF NewRow
  <1>4. \A m \in db.microblocks : m.hash # Mb
    BY <1>2, NotStoredYet
  <1>5. M.height = db.vbs[v].height + 1 /\ db.vbs[v].height \in Nat
    BY <1>1, <1>2, ExtendsHead DEF TypeInv, TypeOK, TablesType
  <1>6. \A m \in db.microblocks : m.vb = v => m.height <= db.vbs[v].height /\ m.height \in Nat
    BY <1>2 DEF RowsInv, Heads, HeadOf, Counted, Pending, HasRow, TypeInv, TypeOK, TablesType
  <1> HIDE DEF r
  <1>7. RowsLinked(db')
    <2>1. FromChain(r)
      BY <1>1, <1>3 DEF FromChain, IsVb, M
    <2>2. r.height # 1 => \E p \in db.microblocks : p.hash = Micro[r.hash].prev /\ p.vb = r.vb
      BY <1>1, <1>3 DEF IsVb, M
    <2>3. \A m \in db.microblocks : ~(m.vb = r.vb /\ m.height = r.height)
      BY <1>3, <1>5, <1>6
    <2>4. db'.microblocks = db.microblocks \cup {r} /\ RowsLinked(db)
      BY <1>1 DEF RowsInv, r
    <2>5. \A m \in db'.microblocks : FromChain(m)
      BY <2>1, <2>4 DEF RowsLinked
    <2>6. \A m \in db'.microblocks : m.height # 1 =>
             \E p \in db'.microblocks : p.hash = Micro[m.hash].prev /\ p.vb = m.vb
      BY <2>2, <2>4 DEF RowsLinked
    <2>7. \A m, k \in db'.microblocks : m.hash = k.hash => m = k
      BY <1>3, <1>4, <2>4 DEF RowsLinked
    <2>8. \A m, k \in db'.microblocks : (m.vb = k.vb /\ m.height = k.height) => m = k
      BY <2>3, <2>4 DEF RowsLinked
    <2> QED
      BY <2>5, <2>6, <2>7, <2>8 DEF RowsLinked
  <1>8. Heads(db', Pending')
    <2>1. Pending' = {Mb} /\ Pending = {}
      BY <1>2 DEF Pending, HasRow
    <2>2. \A w \in Hashes : Counted(db', {Mb}, w) = Counted(db, {}, w)
      BY <1>1, <1>3, <1>4 DEF Counted, r
    <2>3. \A w \in Hashes : HeadOf(db', {Mb}, w) <=> HeadOf(db, {}, w)
      BY <1>1, <2>2 DEF HeadOf
    <2>4. Heads(db', {Mb})
      BY <2>1, <2>3 DEF RowsInv, Heads
    <2> QED
      BY <2>1, <2>4
  <1>9. RowPending'
    <2>1. r \in db'.microblocks /\ r.hash = Mb'
      BY <1>1, <1>2, <1>3 DEF r
    <2>2. \A m \in db'.microblocks : m.hash = Mb => m = r
      BY <1>1, <1>4 DEF r
    <2>3. r.height = db'.vbs[r.vb].height + 1
      BY <1>1, <1>3, <1>5
    <2> QED
      BY <1>2, <2>1, <2>2, <2>3 DEF RowPending
  <1>10. \A m \in db'.microblocks : \E h \in Heights : \E i \in Nat :
            InBlock(m, h, i) /\ IsStored(h, i)'
    <2>1. \A h \in Heights, i \in Nat : IsStored(h, i) => IsStored(h, i)'
      BY <1>2 DEF IsStored, Height, HasRow, Done
    <2>2. \A h \in Heights, i \in Nat : (h = Height /\ i = next)
             => InBlock(r, h, i) /\ IsStored(h, i)'
      BY <1>2, <1>3 DEF InBlock, IsStored, Height, HasRow, Mb, Now
    <2>3. \A m \in db.microblocks : \E h \in Heights : \E i \in Nat :
            InBlock(m, h, i) /\ IsStored(h, i)
      BY DEF RowsInv, Located
    <2>4. ASSUME NEW m \in db.microblocks
          PROVE  \E h \in Heights : \E i \in Nat : InBlock(m, h, i) /\ IsStored(h, i)'
      BY <2>1, <2>3
    <2>5. db'.microblocks = db.microblocks \cup {r}
      BY <1>1 DEF r
    <2>6. \E h \in Heights : \E i \in Nat : InBlock(r, h, i) /\ IsStored(h, i)'
      BY <1>2, <2>2
    <2> QED
      BY <2>4, <2>5, <2>6
  <1>11. OpenRows'
    BY <1>7, <1>8, <1>9, <1>10 DEF OpenRows, InBlock
  <1> QED
    BY <1>2, <1>11, OpenRowsSuffice

\* The head moves to the row of the microblock in process, which it counts from now on.
LEMMA HeadMoves ==
    ASSUME TypeInv, RowsInv, UpdateVirtualBlockchain
    PROVE  Heads(db', {})
  <1>1. /\ Mb \in Hashes /\ Vb \in Hashes /\ M.height \in Nat \ {0} /\ at \in HasRow
        /\ Pending = {Mb}
    BY InProcess, VbIs, Constants DEF UpdateVirtualBlockchain, Storing, HasRow, M, RowsInv, Pending
  <1>2. PICK r \in db.microblocks : r.hash = Mb /\ r.vb = Vb
    BY <1>1, VbIs DEF RowsInv
  <1>3. /\ \A m \in db.microblocks : m.hash = Mb => m = r
        /\ r.height = M.height /\ M.height = db.vbs[Vb].height + 1
    BY <1>1, <1>2 DEF RowsInv, RowsLinked, FromChain, RowPending, M
  <1>4. db.vbs \in [Hashes -> VbRow] /\ db.vbs[Vb].height \in Nat
    BY <1>1 DEF TypeInv, TypeOK, TablesType, VbRow
  <1>5. \A w \in Hashes : HeadOf(db, {Mb}, w)
    BY <1>1 DEF RowsInv, Heads
  <1>6. M.height = 1 \/ db.vbs[Vb] # NoVb
    <2>1. CASE M.height # 1
      BY <1>3, <1>4, <2>1 DEF NoVb
    <2> QED
      BY <2>1
  <1>7. /\ db'.vbs = [db.vbs EXCEPT ![Vb] = NewHead(@)]
        /\ db'.microblocks = db.microblocks
    BY UpdateVirtualBlockchainTables
  <1>8. db'.vbs[Vb].height = M.height /\ db'.vbs[Vb].last = Mb
    BY <1>1, <1>4, <1>6, <1>7, NewHeadTyped
  <1>9. ASSUME NEW w \in Hashes, w # Vb PROVE HeadOf(db', {}, w)
    <2>1. db'.vbs[w] = db.vbs[w]
      BY <1>4, <1>7, <1>9
    <2>2. Counted(db', {}, w) = Counted(db, {Mb}, w)
      BY <1>2, <1>3, <1>7, <1>9 DEF Counted
    <2> QED
      BY <1>5, <2>1, <2>2 DEF HeadOf
  <1>10. HeadOf(db', {}, Vb)
    <2>1. Counted(db', {}, Vb) = Counted(db, {Mb}, Vb) \cup {r}
      BY <1>2, <1>3, <1>7 DEF Counted
    <2>2. \A m \in Counted(db, {Mb}, Vb) : m.height <= db.vbs[Vb].height /\ m.height \in Nat
      BY <1>1, <1>5 DEF HeadOf, Counted, TypeInv, TypeOK, TablesType
    <2>3. \A m \in Counted(db, {Mb}, Vb) : m.height < M.height
      BY <1>3, <1>4, <2>2
    <2>4. /\ \A m \in Counted(db', {}, Vb) : m.height <= M.height
          /\ \A m \in Counted(db', {}, Vb) : m.height = M.height => m.hash = Mb
      <3> SUFFICES ASSUME NEW m \in Counted(db', {}, Vb)
                   PROVE  m.height <= M.height /\ (m.height = M.height => m.hash = Mb)
        OBVIOUS
      <3>1. CASE m = r
        BY <1>1, <1>2, <1>3, <3>1
      <3>2. CASE m \in Counted(db, {Mb}, Vb)
        BY <1>1, <2>2, <2>3, <3>2
      <3> QED
        BY <2>1, <3>1, <3>2
    <2>5. ASSUME NEW k \in 1 .. M.height PROVE \E m \in Counted(db', {}, Vb) : m.height = k
      <3>1. CASE k = M.height
        BY <1>3, <2>1, <3>1
      <3>2. CASE k # M.height
        <4>1. k \in 1 .. db.vbs[Vb].height
          BY <1>1, <1>3, <1>4, <3>2
        <4> QED
          BY <1>1, <1>5, <2>1, <4>1 DEF HeadOf
      <3> QED
        BY <3>1, <3>2
    <2> QED
      BY <1>8, <2>4, <2>5 DEF HeadOf
  <1> QED
    BY <1>9, <1>10 DEF Heads

LEMMA UpdateVirtualBlockchainRows ==
    ASSUME TypeInv, RowsInv, UpdateVirtualBlockchain
    PROVE  RowsInv'
  <1>1. /\ db'.microblocks = db.microblocks /\ UNCHANGED <<saved, indexed>>
        /\ at = "head" /\ at' \in {"row", "totals"}
        /\ next \in DOMAIN Now.micros /\ next \in Nat
        /\ Now.micros \in Seq(Hashes)
    BY InProcess, Block_, UpdateVirtualBlockchainTables DEF UpdateVirtualBlockchain, Storing
  <1>2. Pending' = {} /\ RowPending'
    BY <1>1 DEF Pending, RowPending, HasRow
  <1>3. Heads(db', Pending')
    BY <1>2, HeadMoves
  <1>4. RowsLinked(db')
    BY <1>1 DEF RowsInv, RowsLinked
  <1>5. \A h \in Heights, i \in Nat : IsStored(h, i) => IsStored(h, i)'
    BY <1>1 DEF IsStored, Height, HasRow, Done, UpdateVirtualBlockchain
  <1>6. \A m \in db'.microblocks : \E h \in Heights : \E i \in Nat :
            InBlock(m, h, i) /\ IsStored(h, i)'
    BY <1>1, <1>5 DEF RowsInv, Located
  <1>7. OpenRows'
    BY <1>2, <1>3, <1>4, <1>6 DEF OpenRows, InBlock
  <1> QED
    BY <1>1, <1>7, OpenRowsSuffice

LEMMA CommitRows ==
    ASSUME TypeInv, RowsInv, Commit
    PROVE  RowsInv'
  <1>1. /\ at = "commit" /\ at' = "idle" /\ next' = 0
        /\ indexed' = Height /\ indexed \in Nat /\ saved' = db /\ db' = db
    BY Block_ DEF Commit
  <1>2. Pending = {} /\ Pending' = {} /\ RowPending'
    BY <1>1 DEF Pending, RowPending, HasRow
  <1>3. \A h \in Heights, i \in Nat : IsStored(h, i) => h <= indexed'
    BY <1>1 DEF IsStored, Height, Heights, Done, HasRow
  <1>4. Located'
    <2>1. \A m \in db.microblocks : \E h \in Heights : \E i \in Nat :
             InBlock(m, h, i) /\ h <= indexed'
      BY <1>3 DEF RowsInv, Located
    <2> QED
      BY <1>1, <2>1 DEF Located, IsStored, InBlock
  <1>5. RowsLinked(db') /\ RowsLinked(saved') /\ Heads(db', Pending') /\ Heads(saved', {})
    BY <1>1, <1>2 DEF RowsInv
  <1> QED
    BY <1>2, <1>4, <1>5 DEF RowsInv

LEMMA FailRows ==
    ASSUME TypeInv, RowsInv, Fail
    PROVE  RowsInv'
  <1>1. at' = "idle" /\ indexed' = indexed /\ saved' = saved /\ db' = saved
    BY DEF Fail, Rollback
  <1>2. Pending' = {} /\ RowPending'
    BY <1>1 DEF Pending, RowPending, HasRow
  <1>3. Located'
    BY <1>1 DEF RowsInv, Located, IsStored, InBlock
  <1>4. RowsLinked(db') /\ RowsLinked(saved') /\ Heads(db', Pending') /\ Heads(saved', {})
    BY <1>1, <1>2 DEF RowsInv
  <1> QED
    BY <1>2, <1>3, <1>4 DEF RowsInv

-----------------------------------------------------------------------------
(* The voting power history *)

LEMMA PowersInit == Init => PowersInv
  BY DEF Init, EmptyTables, PowersInv, PowersOf

LEMMA SamePowers ==
    ASSUME PowersInv, db'.powers = db.powers, UNCHANGED <<saved, indexed>>,
           at # "commit", at' # "commit"
    PROVE  PowersInv'
  BY DEF PowersInv, PowersOf, Adjacent

\* New rows lie above all others, one for each node, and differ from the last one.
LEMMA SyncVotingPowersHistory ==
    ASSUME TypeInv, PowersInv, SyncVotingPowers
    PROVE  PowersInv'
  <1>1. PICK f \in [Listed -> Hashes] : db'.powers = db.powers \cup NewRows(f)
    BY SyncVotingPowersTables
  <1>2. /\ at = "powers" /\ at' = "commit" /\ UNCHANGED <<saved, indexed>>
        /\ indexed \in Nat /\ Height = indexed + 1 /\ Height' = Height
    BY Block_ DEF SyncVotingPowers, Height
  <1>3. \A p \in db.powers : p.height \in Nat /\ p.height < Height
    <2>1. \A p \in db.powers : p.height \in Nat
      BY DEF TypeInv, TypeOK, TablesType, Heights
    <2> QED
      BY <1>2, <2>1 DEF PowersInv
  <1>4. \A q \in NewRows(f) : /\ q.height = Height /\ q.node \in DOMAIN NewBy(f)
                              /\ q = [node |-> q.node, height |-> Height, hour |-> PowersHour,
                                      power |-> NewBy(f)[q.node]]
                              /\ q.power = NewBy(f)[q.node]
    BY DEF NewRows
  <1>5. \A p, q \in db'.powers : (p.node = q.node /\ p.height = q.height) => p = q
    <2> SUFFICES ASSUME NEW p \in db'.powers, NEW q \in db'.powers,
                        p.node = q.node, p.height = q.height
                 PROVE  p = q
      OBVIOUS
    <2>1. CASE p \in db.powers /\ q \in db.powers
      BY <2>1 DEF PowersInv, PowersOf
    <2>2. CASE p \in NewRows(f) /\ q \in NewRows(f)
      <3>1. /\ p = [node |-> p.node, height |-> Height, hour |-> PowersHour,
                    power |-> NewBy(f)[p.node]]
            /\ q = [node |-> q.node, height |-> Height, hour |-> PowersHour,
                    power |-> NewBy(f)[q.node]]
        BY <1>4, <2>2, Zenon
      <3> QED
        BY <3>1, Zenon
    <2>3. CASE (p \in db.powers /\ q \in NewRows(f)) \/ (p \in NewRows(f) /\ q \in db.powers)
      BY <1>2, <1>3, <1>4, <2>3
    <2> QED
      BY <1>1, <2>1, <2>2, <2>3
  <1>6. ASSUME NEW p \in db'.powers, NEW q \in db'.powers, Adjacent(db', p, q)
        PROVE  p.power # q.power
    <2>1. p.node = q.node /\ p.height < q.height
      BY <1>6 DEF Adjacent
    <2>2. p \in db.powers
      BY <1>1, <1>2, <1>3, <1>4, <2>1
    <2>3. CASE q \in db.powers
      <3>1. Adjacent(db, p, q)
        BY <1>1, <1>6 DEF Adjacent
      <3> QED
        BY <2>2, <2>3, <3>1 DEF PowersInv, PowersOf
    <2>4. CASE q \in NewRows(f)
      <3>1. \A r \in db.powers : r.node = p.node => r.height <= p.height
        <4> SUFFICES ASSUME NEW r \in db.powers, r.node = p.node, ~(r.height <= p.height)
                     PROVE  FALSE
          OBVIOUS
        <4>1. p.height < r.height /\ r.height < q.height
          BY <1>3, <1>4, <2>2, <2>4
        <4> QED
          BY <1>1, <1>6, <4>1 DEF Adjacent
      <3>2. p \in CurrentPowers(db)
        BY <2>2, <3>1 DEF CurrentPowers
      <3>3. q.node \in DOMAIN NewBy(f) /\ q.power = NewBy(f)[q.node]
        BY <1>4, <2>4
      <3>4. CASE q.node \in DefinedBy(f)
        <4>1. q.power = PowerBy(f, q.node)
          BY <3>3, <3>4 DEF NewBy
        <4>2. q.node \in ChangedBy(f)
          BY <3>3, <3>4 DEF NewBy, Dropped
        <4> QED
          BY <2>1, <3>2, <4>1, <4>2 DEF ChangedBy
      <3>5. CASE q.node \notin DefinedBy(f)
        <4>1. q.power = 0
          BY <3>3, <3>5 DEF NewBy
        <4>2. q.node \in Dropped(DefinedBy(f))
          BY <3>3, <3>5 DEF NewBy, ChangedBy
        <4>3. PICK r \in CurrentPowers(db) : r.node = q.node /\ r.power # 0
          BY <4>2 DEF Dropped
        <4>4. r \in db.powers /\ r.height = p.height
          BY <1>3, <2>1, <2>2, <3>1, <4>3 DEF CurrentPowers
        <4>5. r = p
          BY <2>1, <2>2, <4>3, <4>4 DEF PowersInv, PowersOf
        <4> QED
          BY <4>1, <4>3, <4>5
      <3> QED
        BY <3>4, <3>5
    <2> QED
      BY <1>1, <2>3, <2>4
  <1>7. \A p \in db'.powers : p.height <= Height
    BY <1>1, <1>2, <1>3, <1>4
  <1>8. PowersOf(db')
    BY <1>5, <1>6 DEF PowersOf
  <1> QED
    BY <1>2, <1>7, <1>8 DEF PowersInv

LEMMA CommitPowers ==
    ASSUME PowersInv, Commit
    PROVE  PowersInv'
  BY DEF PowersInv, Commit, Height

LEMMA FailPowers ==
    ASSUME PowersInv, Fail
    PROVE  PowersInv'
  BY DEF PowersInv, Fail, Rollback

-----------------------------------------------------------------------------
(* Each step keeps the invariant *)

LEMMA InvInit == Init => IInv
  BY TypesInit, ResolveInit, RowsInit, PowersInit DEF IInv

\* A step within the transaction leaves the committed tables alone.
LEMMA OpenStep ==
    ASSUME IInv, UNCHANGED saved, TypeInv', Resolve(db'), RowsInv', PowersInv'
    PROVE  IInv'
  BY DEF IInv

LEMMA InvNext ==
    ASSUME IInv, [Next]_vars
    PROVE  IInv'
  <1> USE DEF IInv
  <1>1. TypeInv /\ Resolve(db) /\ Resolve(saved) /\ RowsInv /\ PowersInv
    OBVIOUS
  <1>2. RowPending /\ RowsLinked(db)
    BY DEF RowsInv
  <1> USE <1>1, <1>2
  <1> HIDE DEF IInv
  <1>3. CASE CommitBlock
    <2>1. UNCHANGED <<saved, indexed>> /\ at = "idle" /\ at' = "accounts" /\ db'.powers = db.powers
      BY <1>3, CommitBlockTables DEF CommitBlock
    <2> QED
      BY <1>3, <2>1, CommitBlockTypes, CommitBlockResolves, CommitBlockRows, SamePowers, OpenStep
  <1>4. CASE SyncModifiedAccounts
    <2>1. /\ UNCHANGED <<saved, indexed>> /\ at = "accounts" /\ at' # "commit"
          /\ db'.powers = db.powers
      BY <1>4, SyncModifiedAccountsTables DEF SyncModifiedAccounts
    <2> QED
      BY <1>4, <2>1, SyncModifiedAccountsTypes, SyncModifiedAccountsResolves,
         SyncModifiedAccountsRows, SamePowers, OpenStep
  <1>5. CASE CommitRow
    <2>1. UNCHANGED <<saved, indexed>> /\ at = "row" /\ at' = "sections" /\ db'.powers = db.powers
      BY <1>5, CommitRowTables DEF CommitRow
    <2> QED
      BY <1>5, <2>1, CommitRowTypes, CommitRowResolves, CommitRowRows, SamePowers, OpenStep
  <1>6. CASE SaveCustomSections
    <2>1. /\ UNCHANGED <<saved, indexed, next>> /\ at = "sections" /\ at' = "object"
          /\ db'.powers = db.powers /\ SameRows
      BY <1>6, SaveCustomSectionsTables DEF SaveCustomSections, SameRows
    <2>2. RowsInv'
      BY <2>1, MicroblockStepRows DEF HasRow
    <2> QED
      BY <1>6, <2>1, <2>2, SaveCustomSectionsTypes, SaveCustomSectionsResolves, SamePowers, OpenStep
  <1>7. CASE SaveObject
    <2>1. /\ UNCHANGED <<saved, indexed, next>> /\ at = "object" /\ at' = "stats"
          /\ db'.powers = db.powers /\ SameRows
      BY <1>7, SaveObjectTables DEF SaveObject, SameRows
    <2>2. RowsInv'
      BY <2>1, MicroblockStepRows DEF HasRow
    <2> QED
      BY <1>7, <2>1, <2>2, SaveObjectTypes, SaveObjectResolves, SamePowers, OpenStep
  <1>8. CASE UpdateMicroblockStats
    <2>1. /\ UNCHANGED <<saved, indexed, next>> /\ at = "stats" /\ at' = "head"
          /\ db'.powers = db.powers /\ SameRows
      BY <1>8, UpdateMicroblockStatsTables DEF UpdateMicroblockStats, SameRows
    <2>2. RowsInv'
      BY <2>1, MicroblockStepRows DEF HasRow
    <2> QED
      BY <1>8, <2>1, <2>2, UpdateMicroblockStatsTypes, UpdateMicroblockStatsResolves, SamePowers,
         OpenStep
  <1>9. CASE UpdateVirtualBlockchain
    <2>1. /\ UNCHANGED <<saved, indexed>> /\ at = "head" /\ at' # "commit"
          /\ db'.powers = db.powers
      BY <1>9, UpdateVirtualBlockchainTables DEF UpdateVirtualBlockchain
    <2> QED
      BY <1>9, <2>1, UpdateVirtualBlockchainTypes, UpdateVirtualBlockchainResolves,
         UpdateVirtualBlockchainRows, SamePowers, OpenStep
  <1>10. CASE CommitBlockMicroblocksAndFees
    <2>1. /\ UNCHANGED <<saved, indexed, next>> /\ at = "totals" /\ at' = "powers"
          /\ db'.powers = db.powers /\ SameRows
      BY <1>10, TotalsTables DEF CommitBlockMicroblocksAndFees, SameRows
    <2>2. RowsInv'
      BY <2>1, BlockStepRows DEF Done
    <2> QED
      BY <1>10, <2>1, <2>2, TotalsTypes, TotalsResolves, SamePowers, OpenStep
  <1>11. CASE SyncVotingPowers
    <2>1. /\ UNCHANGED <<saved, indexed, next>> /\ at = "powers" /\ at' = "commit" /\ SameRows
      BY <1>11, SyncVotingPowersTables DEF SyncVotingPowers, SameRows
    <2>2. RowsInv'
      BY <2>1, BlockStepRows DEF Done
    <2> QED
      BY <1>11, <2>1, <2>2, SyncVotingPowersTypes, SyncVotingPowersResolves,
         SyncVotingPowersHistory, OpenStep
  <1>12. CASE Commit
    <2>1. Resolve(db') /\ Resolve(saved')
      BY <1>12 DEF Commit
    <2> QED
      BY <1>12, <2>1, CommitTypes, CommitRows, CommitPowers DEF IInv
  <1>13. CASE Fail
    <2>1. Resolve(db') /\ Resolve(saved')
      BY <1>13 DEF Fail, Rollback
    <2> QED
      BY <1>13, <2>1, FailTypes, FailRows, FailPowers DEF IInv
  <1>14. CASE UNCHANGED vars
    <2>1. UNCHANGED <<db, saved, at, next, fees, indexed, faults>>
      BY <1>14 DEF vars
    <2>2. RowsInv'
      BY <2>1 DEF RowsInv, RowsLinked, Located, Heads, HeadOf, Counted, Pending, RowPending, Mb, Now,
                  Height, IsStored, InBlock
    <2> QED
      BY <1>14, <2>1, <2>2, StutterTypes DEF IInv, PowersInv, Height
  <1> QED
    BY <1>3, <1>4, <1>5, <1>6, <1>7, <1>8, <1>9, <1>10, <1>11, <1>12, <1>13, <1>14 DEF Next

\* The rows of a virtual blockchain are as many as its head is high: their heights are
\* 1 up to the head, each once.
LEMMA HeadCounts ==
    ASSUME TypeInv, RowsInv
    PROVE  HeadsMatch
  <1> SUFFICES ASSUME NEW v \in Hashes
               PROVE  LET own == {m \in saved.microblocks : m.vb = v}
                      IN  /\ {m.height : m \in own} = 1 .. Cardinality(own)
                          /\ saved.vbs[v].height = Cardinality(own)
                          /\ \A m \in own : m.height = Cardinality(own)
                                               => saved.vbs[v].last = m.hash
    BY DEF HeadsMatch
  <1> DEFINE own == {m \in saved.microblocks : m.vb = v}
             top == saved.vbs[v].height
             f == [m \in own |-> m.height]
  <1>1. top \in Nat
    BY DEF TypeInv, TypeOK, TablesType
  <1>2. /\ \A m \in own : m.height <= top
        /\ \A m \in own : m.height = top => m.hash = saved.vbs[v].last
        /\ \A k \in 1 .. top : \E m \in own : m.height = k
    BY DEF RowsInv, Heads, HeadOf, Counted
  <1>3. \A m \in own : m.height \in 1 .. top
    <2>1. \A m \in own : m.height \in Nat \ {0}
      <3>1. \A m \in own : m.hash \in Hashes
        BY DEF TypeInv, TypeOK, TablesType
      <3>2. \A m \in own : m.height = Micro[m.hash].height
        BY DEF RowsInv, RowsLinked, FromChain
      <3> QED
        BY <3>1, <3>2, Constants
    <2> QED
      BY <1>1, <1>2, <2>1
  <1>4. \A m, k \in own : m.height = k.height => m = k
    BY DEF RowsInv, RowsLinked
  <1>5. {m.height : m \in own} = 1 .. top
    BY <1>2, <1>3
  <1> HIDE DEF own, top
  <1>6. f \in Bijection(own, 1 .. top)
    BY <1>2, <1>3, <1>4 DEF Bijection, Injection, Surjection, IsInjective
  <1>7. IsFiniteSet(1 .. top) /\ Cardinality(1 .. top) = top
    BY <1>1, FS_Interval
  <1>8. ExistsBijection(1 .. top, own)
    BY <1>6, Fun_ExistsBijSymmetric DEF ExistsBijection
  <1>9. Cardinality(own) = top
    BY <1>7, <1>8, FS_Bijection
  <1> QED
    BY <1>2, <1>5, <1>9 DEF own, top

LEMMA Invariance == Spec => []IInv
  <1>1. Init => IInv
    BY InvInit
  <1>2. IInv /\ [Next]_vars => IInv'
    BY InvNext
  <1> QED
    BY <1>1, <1>2, PTL DEF Spec

-----------------------------------------------------------------------------
(* Theorems *)

\* The tables hold values of their columns, whatever the chain and the faults are.
THEOREM TypeCorrect == Spec => []TypeOK
  <1>1. IInv => TypeOK
    BY DEF IInv, TypeInv
  <1> QED
    BY <1>1, Invariance, PTL

\* A handler that reads between two steps of a transaction meets no row that refers to
\* one that is not there.
THEOREM References == Spec => []ReferencesResolve
  <1>1. IInv => ReferencesResolve
    BY DEF IInv, Resolve, SectionsResolve, HeadsResolve, BlocksResolve, OwnersResolve,
           ReferencesResolve
  <1> QED
    BY <1>1, Invariance, PTL

\* The head of a virtual blockchain is its last microblock, and its height counts them,
\* however often a block was rolled back and indexed again.
THEOREM HeadsAreLast == Spec => []HeadsMatch
  <1>1. IInv => HeadsMatch
    BY HeadCounts DEF IInv
  <1> QED
    BY <1>1, Invariance, PTL

\* The voting power history of a node has a row for each change of its power, and no
\* other: a power that comes back after a rollback is not recorded twice.
THEOREM HistoryOfChanges == Spec => []PowersAreChanges
  <1>1. IInv => PowersAreChanges
    BY DEF IInv, PowersInv, PowersOf, Adjacent, PowersAreChanges
  <1> QED
    BY <1>1, Invariance, PTL
=============================================================================
