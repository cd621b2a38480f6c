---------------------------- MODULE StateCommit ----------------------------
(***************************************************************************)
(* The tables StateCommitService and SyncService.syncVotingPowers() fill,  *)
(* in the transaction of one block: the block row, the statistics of its   *)
(* validators, then for each microblock its row, its custom sections, the  *)
(* row of the object it declares, the microblock statistics and the head   *)
(* of its virtual blockchain, at last the totals of the block and the      *)
(* voting powers.  Every step is awaited: between two of them the HTTP     *)
(* handlers read the tables through the same connection.                   *)
(*                                                                         *)
(* AccountSync has the inside of syncModifiedAccounts(), BlockStore the    *)
(* microblock file.  The chain is external data.                           *)
(***************************************************************************)
EXTENDS Integers, Sequences, FiniteSets, FiniteSetsExt, Functions

CONSTANTS
    Hashes,      \* of microblocks; the first one's is the id of the virtual blockchain
    Addresses,   \* of CometBFT keys
    Micro,       \* Micro[m]: [prev, type, height, hour, gas, price, sections]
    Block,       \* Block[h]: [commit, proposer, signers, validators, hour, modified, micros]
    MaxHeight,   \* bound: blocks of the chain
    Null,
    MaxFaults    \* bound: failures of the transaction

Heights == 1 .. MaxHeight
Types   == {"account", "node", "organization", "application", "protocol"}
Hours   == {Block[h].hour : h \in Heights} \cup {Micro[m].hour : m \in Hashes}

\* The sections that fill columns of an object's row.  ORG_DESCRIPTION stands for
\* name, city, country and website, the key declaration for key, type and address.
AccountSections      == {"ACCOUNT_PUBLIC_KEY"}
NodeSections         == {"VN_CREATION", "VN_COMETBFT_PUBLIC_KEY_DECLARATION", "VN_RPC_ENDPOINT"}
OrganizationSections == {"ORG_CREATION", "ORG_DESCRIPTION"}
ApplicationSections  == {"APP_CREATION", "APP_DESCRIPTION"}
Kinds == AccountSections \cup NodeSections \cup OrganizationSections \cup ApplicationSections

SectionsOf(type) ==
    CASE type = "account"      -> AccountSections
      [] type = "node"         -> NodeSections
      [] type = "organization" -> OrganizationSections
      [] type = "application"  -> ApplicationSections
      [] OTHER                 -> {}

\* Columns without a default: an insert that does not give them all is refused.
NodeColumns         == NodeSections
OrganizationColumns == OrganizationSections
ApplicationColumns  == ApplicationSections
Required(type) ==
    CASE type = "node"         -> NodeColumns
      [] type = "organization" -> OrganizationColumns
      [] type = "application"  -> ApplicationColumns
      [] OTHER                 -> {}

\* What the node answers is well formed.
ASSUME ChainAssumption ==
    /\ MaxHeight \in Nat /\ MaxFaults \in Nat
    /\ IsFiniteSet(Hashes) /\ Null \notin Addresses
    /\ \A m \in Hashes :
          /\ Micro[m].type \in Types
          /\ Micro[m].height \in Nat \ {0}
          /\ Micro[m].hour \in Nat /\ Micro[m].gas \in Nat /\ Micro[m].price \in Nat
          /\ DOMAIN Micro[m].sections \subseteq Nat /\ IsFiniteSet(DOMAIN Micro[m].sections)
    /\ \A h \in Heights :
          /\ Block[h].hour \in Nat
          /\ Block[h].signers \in Seq([address : Addresses, flag : Nat])
          /\ Block[h].validators \subseteq [address : Addresses, power : Nat]
          /\ Block[h].modified \subseteq Hashes
          /\ Block[h].micros \in Seq(Hashes)

\* The address of a validator is that of its key: CometBFT lists a validator once in
\* the set of a block, and with one signature in its commit.
ASSUME ValidatorAssumption ==
    \A h \in Heights :
        /\ Block[h].commit => Block[h].proposer \in Addresses
        /\ IsFiniteSet(Block[h].validators)
        /\ \A v, w \in Block[h].validators : v.address = w.address => v = w
        /\ \A i, j \in DOMAIN Block[h].signers :
              (/\ Block[h].signers[i].flag = 2 /\ Block[h].signers[j].flag = 2
               /\ Block[h].signers[i].address = Block[h].signers[j].address) => i = j

\* A microblock is in one block, extends another one of its type unless it is the first
\* of its virtual blockchain, and is extended by one at most.
ASSUME VirtualBlockchainAssumption ==
    /\ \A g, h \in Heights : \A i \in DOMAIN Block[g].micros, j \in DOMAIN Block[h].micros :
          Block[g].micros[i] = Block[h].micros[j] => g = h /\ i = j
    /\ \A m \in Hashes : Micro[m].height # 1 =>
          /\ Micro[m].prev \in Hashes
          /\ Micro[m].height = Micro[Micro[m].prev].height + 1
          /\ Micro[m].type = Micro[Micro[m].prev].type
    /\ \A m, k \in Hashes :
          (Micro[m].height # 1 /\ Micro[k].height # 1 /\ Micro[m].prev = Micro[k].prev) => m = k

\* The time of the blocks of a CometBFT chain does not go back.
ASSUME TimeAssumption ==
    \A g, h \in Heights : g <= h => Block[g].hour <= Block[h].hour

VARIABLES
    db,        \* the tables, as the transaction and the HTTP handlers see them
    saved,     \* the tables, as committed
    at,        \* the step the transaction is at, "idle" between transactions
    next,      \* index of the microblock in process
    fees,      \* feesInAtomics
    indexed,   \* last block committed
    faults

vars == <<db, saved, at, next, fees, indexed, faults>>

NoVb == [type |-> "protocol", height |-> 0, last |-> Null, created |-> 0, modified |-> 0]

EmptyTables ==
    [blocks      |-> {},   \* BlockEntity
     signatures  |-> {},   \* BlockSignatureEntity
     microblocks |-> {},   \* MicroblockEntity
     sections    |-> {},   \* CustomSectionEntity
     vbs         |-> [v \in Hashes |-> NoVb],   \* VirtualBlockchainEntity
     rows        |-> {},   \* <<type, id>>: that object has a row in its table
     column      |-> [v \in Hashes |-> [k \in Kinds |-> Null]],
     mbStats     |-> [s \in Hours \X Types \X BOOLEAN |-> 0],   \* MicroblockStatsEntity
     valStats    |-> [s \in Hashes \X Hours |-> [proposed |-> 0, signed |-> 0]],
     power       |-> [v \in Hashes |-> 0],   \* ValidatorNodeEntity.currentVotingPower
     powers      |-> {}]   \* VotingPowerEntity

Init ==
    /\ db = EmptyTables /\ saved = EmptyTables
    /\ at = "idle" /\ next = 0 /\ fees = 0
    /\ indexed = 0 /\ faults = 0

Height == indexed + 1
Now    == Block[Height]
Mb     == Now.micros[next]
M      == Micro[Mb]

-----------------------------------------------------------------------------
(* commitBlock() *)

NodesAt(d, address) ==
    {n \in Hashes : /\ <<"node", n>> \in d.rows
                    /\ d.column[n]["VN_COMETBFT_PUBLIC_KEY_DECLARATION"] = address}

\* Mutant of Credited: every node that declares the address counts.
CreditedAll(d, address, n) == n \in NodesAt(d, address)

\* updateValidatorStats(): only an address that one node declares counts.
Credited(d, address, n) == NodesAt(d, address) = {n}

Signed(d, n) ==
    Cardinality({i \in DOMAIN Now.signers :
                    Now.signers[i].flag = 2 /\ Credited(d, Now.signers[i].address, n)})

ValidatorStats(d) ==
    [s \in DOMAIN d.valStats |->
        IF s[2] # Now.hour THEN d.valStats[s]
        ELSE [proposed |-> d.valStats[s].proposed
                              + (IF Credited(d, Now.proposer, s[1]) THEN 1 ELSE 0),
              signed   |-> d.valStats[s].signed + Signed(d, s[1])]]

BlockRow == [height |-> Height, hour |-> Now.hour, microblocks |-> 0, fees |-> 0]

CommitBlock ==
    /\ at = "idle"
    /\ indexed < MaxHeight
    /\ Now.commit \/ Height = 1
    /\ db' = IF ~Now.commit
             THEN [db EXCEPT !.blocks = @ \cup {BlockRow}]
             ELSE [db EXCEPT !.blocks = @ \cup {BlockRow},
                             !.signatures = @ \cup {<<Height, i>> : i \in DOMAIN Now.signers},
                             !.valStats = ValidatorStats(db)]
    /\ at' = "accounts"
    /\ UNCHANGED <<saved, next, fees, indexed, faults>>

\* syncModifiedAccounts(): the modified accounts have a row.
SyncModifiedAccounts ==
    /\ at = "accounts"
    /\ db' = [db EXCEPT !.rows = @ \cup ({"account"} \X Now.modified)]
    /\ next' = 1 /\ fees' = 0
    /\ at' = IF Now.micros = <<>> THEN "totals" ELSE "row"
    /\ UNCHANGED <<saved, indexed, faults>>

-----------------------------------------------------------------------------
(* commitMicroblock() *)

\* Mutant of IsVb: the hash of the previous microblock is taken for the identifier.
IsPrevious(v) == v = (IF M.height = 1 THEN Mb ELSE M.prev)

\* The virtual blockchain of the microblock: its own, or the one of the previous
\* microblock, which must have a row.
IsVb(v) == IF M.height = 1 THEN v = Mb ELSE \E p \in db.microblocks : p.hash = M.prev /\ p.vb = v

CommitRow ==
    /\ at = "row"
    /\ \E v \in Hashes :
          /\ IsVb(v)
          /\ db' = [db EXCEPT !.microblocks =
                       @ \cup {[hash |-> Mb, block |-> Height, vb |-> v,
                                type |-> M.type, height |-> M.height,
                                gas |-> M.gas, price |-> M.price]}]
    /\ at' = "sections"
    /\ UNCHANGED <<saved, next, fees, indexed, faults>>

\* virtualBlockchainId, from the row on
Vb == CHOOSE v \in Hashes : \E m \in db.microblocks : m.hash = Mb /\ m.vb = v

\* Mutant of Custom: the format of the section is not looked at.
AnyCustom(m) == {i \in DOMAIN Micro[m].sections : Micro[m].sections[i].kind = "CUSTOM"}

\* The custom sections whose only field is a tag.
Custom(m) == {i \in DOMAIN Micro[m].sections : Micro[m].sections[i].kind = "CUSTOM"
                                               /\ Micro[m].sections[i].tag # Null}

\* Mutant of SectionIndex: only the custom sections are counted.
CustomIndex(m, i) == Cardinality({j \in Custom(m) : j <= i})
SectionIndex(m, i) == i

SaveCustomSections ==
    /\ at = "sections"
    /\ db' = [db EXCEPT !.sections =
                 @ \cup {[microblock |-> Mb, index |-> SectionIndex(Mb, i), vb |-> Vb,
                          type |-> M.type, tag |-> M.sections[i].tag, height |-> M.height] :
                            i \in Custom(Mb)}]
    /\ at' = "object"
    /\ UNCHANGED <<saved, next, fees, indexed, faults>>

\* The sections of the microblock that its type looks at, and the last one of a kind.
Declared == {k \in SectionsOf(M.type) : \E i \in DOMAIN M.sections : M.sections[i].kind = k}
Value(k) == M.sections[Max({i \in DOMAIN M.sections : M.sections[i].kind = k})].value

\* saveAccount(), saveValidatorNode(), saveOrganization(), saveApplication() are
\* refused when a column is missing, or the account of an organization has no row.
Refused ==
    \/ Declared # {} /\ <<M.type, Vb>> \notin db.rows /\ ~(Required(M.type) \subseteq Declared)
    \/ "ORG_CREATION" \in Declared /\ <<"account", Value("ORG_CREATION")>> \notin db.rows

SaveObject ==
    /\ at = "object"
    /\ ~Refused
    /\ db' = IF Declared = {} THEN db
             ELSE [db EXCEPT !.rows = @ \cup {<<M.type, Vb>>},
                             !.column[Vb] = [k \in Kinds |-> IF k \in Declared THEN Value(k)
                                                                               ELSE @[k]]]
    /\ at' = "stats"
    /\ UNCHANGED <<saved, next, fees, indexed, faults>>

\* Mutant of Bucket: the statistics of a virtual blockchain's first microblock are
\* kept with those of the others.
AnyBucket == <<M.hour, M.type, FALSE>>
\* Mutant of Bucket: the hour is that of the block.
BlockBucket == <<Now.hour, M.type, M.height = 1>>
Bucket == <<M.hour, M.type, M.height = 1>>

UpdateMicroblockStats ==
    /\ at = "stats"
    /\ db' = [db EXCEPT !.mbStats[Bucket] = @ + 1]
    /\ at' = "head"
    /\ UNCHANGED <<saved, next, fees, indexed, faults>>

UpdateVirtualBlockchain ==
    /\ at = "head"
    /\ db' = [db EXCEPT !.vbs[Vb] =
                 IF M.height = 1
                 THEN [type |-> M.type, height |-> 1, last |-> Mb,
                       created |-> M.hour, modified |-> M.hour]
                 ELSE IF @ = NoVb THEN @
                 ELSE [@ EXCEPT !.height = M.height, !.last = Mb, !.modified = M.hour]]
    /\ fees' = fees + M.gas * M.price
    /\ IF next < Len(Now.micros) THEN next' = next + 1 /\ at' = "row"
                                 ELSE at' = "totals" /\ UNCHANGED next
    /\ UNCHANGED <<saved, indexed, faults>>

-----------------------------------------------------------------------------
(* commitBlockMicroblocksAndFees(), syncVotingPowers() and COMMIT *)

CommitBlockMicroblocksAndFees ==
    /\ at = "totals"
    /\ db' = [db EXCEPT !.blocks =
                 {IF b.height = Height
                  THEN [b EXCEPT !.microblocks = Len(Now.micros), !.fees = fees] ELSE b : b \in @}]
    /\ at' = "powers"
    /\ UNCHANGED <<saved, next, fees, indexed, faults>>

\* Mutant of CurrentPowers: the rows of all heights.
AllPowers(d) == d.powers

\* QueryService.getCurrentVotingPowers(): the last row of each node.
CurrentPowers(d) == {p \in d.powers : \A q \in d.powers : q.node = p.node => q.height <= p.height}

\* Mutant of Dropped: nodes that left the validator set keep their power.
NeverDropped(defined) == {}

\* Former validators that are not among those of the block any more.
Dropped(defined) == {p.node : p \in {p \in CurrentPowers(db) : p.node \notin defined /\ p.power # 0}}

\* blockTimestamp: the genesis block has no commit, and counts as time 0.
PowersHour == IF Now.commit THEN Now.hour ELSE 0

\* A validator whose address several nodes declare stands for one of them.
SyncVotingPowers ==
    /\ at = "powers"
    /\ LET listed == {v \in Now.validators : NodesAt(db, v.address) # {}}
       IN  \E nodeOf \in [listed -> Hashes] :
             LET defined == {nodeOf[v] : v \in listed}
                 Power(n) == (CHOOSE v \in listed : nodeOf[v] = n).power
                 changed == {n \in defined :
                                ~\E p \in CurrentPowers(db) : p.node = n /\ p.power = Power(n)}
                 new == [n \in changed \cup Dropped(defined) |->
                            IF n \in defined THEN Power(n) ELSE 0]
             IN  /\ \A v \in listed : nodeOf[v] \in NodesAt(db, v.address)
                 /\ db' = [db EXCEPT
                       !.power = [n \in Hashes |-> IF n \in DOMAIN new THEN new[n] ELSE @[n]],
                       !.powers = @ \cup {[node |-> n, height |-> Height, hour |-> PowersHour,
                                           power |-> new[n]] : n \in DOMAIN new}]
    /\ at' = "commit"
    /\ UNCHANGED <<saved, next, fees, indexed, faults>>

Commit ==
    /\ at = "commit"
    /\ saved' = db
    /\ indexed' = Height
    /\ at' = "idle" /\ next' = 0 /\ fees' = 0
    /\ UNCHANGED <<db, faults>>

\* Mutant of Rollback: the custom sections were saved outside of the transaction.
KeepSections == db' = [saved EXCEPT !.sections = db.sections]

Rollback == db' = saved

\* The step throws, whenever it is tried; a call of any step throws; the process dies.
Throws ==
    \/ at = "row" /\ ~\E v \in Hashes : IsVb(v)
    \/ at = "object" /\ Refused

Fail ==
    /\ at # "idle"
    /\ \/ Throws /\ UNCHANGED faults
       \/ faults < MaxFaults /\ faults' = faults + 1
    /\ Rollback
    /\ at' = "idle" /\ next' = 0 /\ fees' = 0
    /\ UNCHANGED <<saved, indexed>>

-----------------------------------------------------------------------------

Next ==
    \/ CommitBlock
    \/ SyncModifiedAccounts
    \/ CommitRow
    \/ SaveCustomSections
    \/ SaveObject
    \/ UpdateMicroblockStats
    \/ UpdateVirtualBlockchain
    \/ CommitBlockMicroblocksAndFees
    \/ SyncVotingPowers
    \/ Commit
    \/ Fail

Spec == Init /\ [][Next]_vars

-----------------------------------------------------------------------------
(* Properties *)

Ids  == Hashes \cup {Null}
Tags == UNION {{Micro[m].sections[i].tag : i \in DOMAIN Micro[m].sections} : m \in Hashes}
TablesType(d) ==
    /\ d.blocks \subseteq [height : Heights, hour : Hours, microblocks : Nat, fees : Nat]
    /\ d.signatures \subseteq Heights \X Nat
    /\ d.microblocks \subseteq [hash : Hashes, block : Heights, vb : Hashes, type : Types,
                                height : Nat, gas : Nat, price : Nat]
    /\ d.sections \subseteq [microblock : Hashes, index : Nat, vb : Hashes, type : Types,
                             tag : Tags \ {Null}, height : Nat]
    /\ d.vbs \in [Hashes -> [type : Types, height : Nat, last : Ids, created : Nat, modified : Nat]]
    /\ d.rows \subseteq Types \X Hashes
    /\ DOMAIN d.column = Hashes
    /\ d.mbStats \in [Hours \X Types \X BOOLEAN -> Nat]
    /\ d.valStats \in [Hashes \X Hours -> [proposed : Nat, signed : Nat]]
    /\ d.power \in [Hashes -> Nat]
    /\ d.powers \subseteq [node : Hashes, height : Heights, hour : Hours \cup {0}, power : Nat]
TypeOK ==
    /\ TablesType(db) /\ TablesType(saved)
    /\ at \in {"idle", "accounts", "row", "sections", "object", "stats", "head", "totals",
               "powers", "commit"}
    /\ next \in Nat /\ fees \in Nat
    /\ indexed \in 0 .. MaxHeight
    /\ faults \in 0 .. MaxFaults

\* The HTTP handlers, which also see the rows of the open transaction, never meet a
\* custom section or a head of a virtual blockchain whose microblock has no row, a
\* microblock without its block, or an organization without its account: the
\* handlers answer "internal error: microblock not found" to the first of these.
ReferencesResolve ==
    /\ \A s \in db.sections :
          \E m \in db.microblocks : m.hash = s.microblock /\ m.vb = s.vb /\ m.height = s.height
    /\ \A v \in Hashes : db.vbs[v] # NoVb =>
          \E m \in db.microblocks : m.hash = db.vbs[v].last /\ m.vb = v
    /\ \A m \in db.microblocks : \E b \in db.blocks : b.height = m.block
    /\ \A v \in Hashes : <<"organization", v>> \in db.rows =>
                            <<"account", db.column[v]["ORG_CREATION"]>> \in db.rows

\* The microblocks of a virtual blockchain are numbered without a gap and its head is
\* the last one, whatever was rolled back and indexed again.
HeadsMatch ==
    \A v \in Hashes :
        LET own == {m \in saved.microblocks : m.vb = v}
        IN  /\ {m.height : m \in own} = 1 .. Cardinality(own)
            /\ saved.vbs[v].height = Cardinality(own)
            /\ \A m \in own : m.height = Cardinality(own) => saved.vbs[v].last = m.hash

\* The totals agree with the rows they count, those of a bucket with the microblocks
\* of its hour, its type and its kind: no microblock is counted twice after a rollback,
\* nor in the bucket of another hour or type.
TotalsAddUp ==
    /\ \A b \in saved.blocks :
          LET own == {m \in saved.microblocks : m.block = b.height}
          IN  /\ b.microblocks = Cardinality(own)
              /\ b.fees = SumFunction([m \in own |-> m.gas * m.price])
    /\ \A hour \in Hours, t \in Types, g \in BOOLEAN :
          saved.mbStats[<<hour, t, g>>]
             = Cardinality({m \in saved.microblocks :
                               m.type = t /\ (m.height = 1) = g /\ Micro[m.hash].hour = hour})

\* The key of a node after block h, from the chain itself.
Declares(m) == {i \in DOMAIN Micro[m].sections :
                   /\ Micro[m].type = "node"
                   /\ Micro[m].sections[i].kind = "VN_COMETBFT_PUBLIC_KEY_DECLARATION"}
KeyOf(n, h) ==
    LET declaring == {m \in saved.microblocks : m.vb = n /\ m.block <= h /\ Declares(m.hash) # {}}
        newest == CHOOSE m \in declaring : \A k \in declaring : k.height <= m.height
    IN  IF declaring = {} THEN Null
        ELSE Micro[newest.hash].sections[Max(Declares(newest.hash))].value
Users(address, h) == {n \in Hashes : KeyOf(n, h) = address}

OnlyUser(address, h, n) == Users(address, h) = {n}

\* A block counts once, as proposed and as signed, in its own hour, for the one node
\* that used the key when the block was made: a key declared in the block itself, or by
\* two nodes, counts for nobody, and a rolled back block counts once it is indexed again.
BlocksCounted ==
    at = "idle" => \A n \in Hashes, hour \in Hours :
        LET made == {h \in 1 .. indexed : Block[h].commit /\ Block[h].hour = hour}
        IN  /\ saved.valStats[<<n, hour>>].proposed
                  = Cardinality({h \in made : OnlyUser(Block[h].proposer, h - 1, n)})
            /\ saved.valStats[<<n, hour>>].signed
                  = Cardinality({h \in made : \E i \in DOMAIN Block[h].signers :
                                    /\ Block[h].signers[i].flag = 2
                                    /\ OnlyUser(Block[h].signers[i].address, h - 1, n)})

\* The voting power of a node, its column, is that of its last row, and the power of a
\* key in the validator set of the last block, 0 when the set does not have it, is that
\* of exactly one node of those that declare the key, no one can say which; the others,
\* and a node whose key is no address, have none.
PowersFollowSet ==
    at = "idle" /\ indexed > 0 =>
        /\ \A n \in Hashes : \A p \in saved.powers :
              (p.node = n /\ \A q \in saved.powers : q.node = n => q.height <= p.height)
                 => p.power = saved.power[n]
        /\ \A a \in Addresses : Users(a, indexed) # {} =>
              \E n \in Users(a, indexed) :
                 /\ saved.power[n] = SumFunction(
                       [v \in {v \in Block[indexed].validators : v.address = a} |-> v.power])
                 /\ \A m \in Users(a, indexed) \ {n} : saved.power[m] = 0
        /\ \A n \in Hashes : KeyOf(n, indexed) \notin Addresses => saved.power[n] = 0

\* "update former known validators which are not in the list returned by Comet anymore
\* but still have a voting power greater than 0": power 0 is written for a node only
\* when the set does not have the key the node used until then.
DroppedLeftSet ==
    \A p \in saved.powers : p.power = 0 =>
        ~\E v \in Block[p.height].validators : v.address = KeyOf(p.node, p.height - 1)

\* A row of the voting power history is a change of the power of its node.
PowersAreChanges ==
    \A p, q \in saved.powers :
        (/\ p.node = q.node /\ p.height < q.height
         /\ ~\E r \in saved.powers : r.node = p.node /\ p.height < r.height /\ r.height < q.height)
           => p.power # q.power
=============================================================================
