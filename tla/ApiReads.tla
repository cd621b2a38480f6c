------------------------------ MODULE ApiReads ------------------------------
(***************************************************************************)
(* What the HTTP API answers from the tables of StateCommit: the lists,    *)
(* the aggregates, the certificates, the rewards and the search, and a     *)
(* client that walks a list page by page while blocks are indexed.  The    *)
(* handlers read through the connection of the open transaction: db.       *)
(*                                                                         *)
(* A query is a record of the parameters given; a limit, an offset or a    *)
(* filter that is not given is not in its DOMAIN.                          *)
(***************************************************************************)
EXTENDS StateCommit

CONSTANTS
    MAX_LIMIT, MAX_OFFSET,
    HourTicks,     \* MS_IN_HOUR
    Limits,        \* limits a client asks for
    Floors,        \* bound: last block when a walk starts
    RewardTimes    \* start_time and end_time of reward queries, in ticks

ASSUME QueryAssumption ==
    /\ MAX_LIMIT \in Nat /\ MAX_OFFSET \in Nat
    /\ Limits \subseteq Nat /\ Floors \subseteq Nat
    /\ HourTicks \in Nat \ {0} /\ RewardTimes \subseteq Int
    /\ Null # "__cert__"

VARIABLES
    walk,   \* the walk: [order, limit, offset, more, floor, rolledBack]
    page,   \* blocks of the page whose signatures are not read yet
    seen    \* blocks the client has received: [row, signatures]

readVars == <<walk, page, seen>>
allVars  == <<vars, readVars>>

NoWalk == [order |-> "ASC", limit |-> 0, offset |-> 0, more |-> FALSE, floor |-> 0,
           rolledBack |-> FALSE]

-----------------------------------------------------------------------------
(* Queries *)

Given(q, f) == f \in DOMAIN q
Is(q, f, value) == Given(q, f) => q[f] = value

\* range()
InRange(q, gte, lte, value) ==
    (Given(q, gte) => q[gte] <= value) /\ (Given(q, lte) => value <= q[lte])

\* Rows in a total order, which is a set of pairs.
InOrder(rows, before) ==
    [i \in 1 .. Cardinality(rows) |->
        CHOOSE r \in rows : Cardinality({s \in rows : <<s, r>> \in before}) = i - 1]

\* checkSortConsistency(), and the heights that exclude each other
SortRefused(q)    == Given(q, "order") /\ ~Given(q, "sort")
HeightsRefused(q) == Given(q, "height") /\ (Given(q, "height_gte") \/ Given(q, "height_lte"))

Blocks(d, q) ==
    {b \in d.blocks : /\ Is(q, "height", b.height)
                      /\ InRange(q, "height_gte", "height_lte", b.height)
                      /\ InRange(q, "timestamp_gte", "timestamp_lte", b.hour)}

Microblocks(d, q) ==
    {m \in d.microblocks : /\ Is(q, "hash", m.hash)
                           /\ Is(q, "block_height", m.block)
                           /\ Is(q, "vb_id", m.vb)}

Objects(d, type) == {v \in Hashes : <<type, v>> \in d.rows}

Accounts(d, q) ==
    {v \in Objects(d, "account") : /\ Is(q, "id", v)
                                   /\ Is(q, "public_key", d.column[v]["ACCOUNT_PUBLIC_KEY"])}

Organizations(d, q) ==
    {v \in Objects(d, "organization") : /\ Is(q, "vb_id", v)
                                        /\ Is(q, "account_id", d.column[v]["ORG_CREATION"])
                                        /\ Is(q, "name", d.column[v]["ORG_DESCRIPTION"])}

Applications(d, q) ==
    {v \in Objects(d, "application") : /\ Is(q, "vb_id", v)
                                       /\ Is(q, "organization_id", d.column[v]["APP_CREATION"])
                                       /\ Is(q, "name", d.column[v]["APP_DESCRIPTION"])}

\* Mutant of MinimumPower: every node is taken for a validator.
AnyPower == 0
\* is_validator: MoreThanOrEqual(1)
MinimumPower == 1

ValidatorNodes(d, q) ==
    {v \in Objects(d, "node") :
        /\ Is(q, "vb_id", v)
        /\ Is(q, "organization_id", d.column[v]["VN_CREATION"])
        /\ Is(q, "address", d.column[v]["VN_COMETBFT_PUBLIC_KEY_DECLARATION"])
        /\ (Given(q, "is_validator") /\ q["is_validator"]) => d.power[v] >= MinimumPower}

VirtualBlockchains(d, q) ==
    {v \in Hashes : d.vbs[v] # NoVb /\ Is(q, "vb_id", v) /\ Is(q, "type", d.vbs[v].type)}

VotingPowers(d, q) == {p \in d.powers : Is(q, "node_id", p.node)}

-----------------------------------------------------------------------------
(* Aggregates *)

\* getChain(), with QueryService.getVirtualBlockchainCounts()
ChainHeight(d) == Max({b.height : b \in d.blocks} \cup {0})
ObjectCount(d, type) == Cardinality(VirtualBlockchains(d, [type |-> type]))

\* getGasPrice()
GasPrice(d, q) ==
    LET read == {m \in d.microblocks : InRange(q, "height_gte", "height_lte", m.block)}
        prices == {m.price : m \in read}
    IN  [microblocks |-> Cardinality(read),
         min |-> IF read = {} THEN Null ELSE Min(prices),
         max |-> IF read = {} THEN Null ELSE Max(prices)]

\* getMicroblockStats() and getValidatorStats(); the time range selects whole hours.
MicroblockCount(d, q, type, genesis) ==
    SumFunction([h \in {h \in Hours : InRange(q, "timestamp_gte", "timestamp_lte", h)} |->
                    d.mbStats[<<h, type, genesis>>]])
ValidatorCount(d, q, n, stat) ==
    SumFunction([h \in {h \in Hours : InRange(q, "timestamp_gte", "timestamp_lte", h)} |->
                    d.valStats[<<n, h>>][stat]])

-----------------------------------------------------------------------------
(* VirtualBlockchainService *)

SectionOrder(r, s) == r.height < s.height \/ (r.height = s.height /\ r.index < s.index)
SectionRows(d, v, tag) == {s \in d.sections : s.vb = v /\ s.tag = tag}

\* The stored section that the row points at; its bytes are those of the chain.
Stored(row) == Micro[row.microblock].sections[row.index]
Invalid(row) ==
    \/ row.index \notin DOMAIN Micro[row.microblock].sections
    \/ Stored(row).kind # "CUSTOM" \/ Stored(row).tag # row.tag

\* getOrganizationCertificates(), or its error
CertificatesFail(d, v) ==
    \E s \in SectionRows(d, v, "__cert__") :
        \/ s.type # "organization"
        \/ ~\E m \in d.microblocks : m.hash = s.microblock
        \/ Invalid(s)
Certificates(d, v) ==
    LET rows == {s \in SectionRows(d, v, "__cert__") : Stored(s).value = "__jwt__"}
    IN  InOrder(rows, {p \in rows \X rows : SectionOrder(p[1], p[2])})

-----------------------------------------------------------------------------
(* NodeRewardService: a reward is counted in ticks of uptime times voting power *)

Lower(a, b) == IF a <= b THEN a ELSE b
RoundToHour(tick) == HourTicks * (tick \div HourTicks)

\* getAccruedRewardForPeriod(): the hours in which the node proposed a block
PeriodReward(d, n, power, start, end) ==
    LET up == {t \in start .. end - 1 :
                  /\ (t - start) % HourTicks = 0
                  /\ t \div HourTicks \in Hours
                  /\ d.valStats[<<n, t \div HourTicks>>].proposed > 0}
    IN  SumFunction([t \in up |-> (Lower(t + HourTicks, end) - t) * power])

\* Mutant of LaterHour: the hour of the update, even when it is before start_time.
UpdateHour(last, hour) == hour
LaterHour(last, hour) == IF last <= hour THEN hour ELSE last

PowerUpdates(d, n) ==
    LET rows == VotingPowers(d, [node_id |-> n])
    IN  InOrder(rows, {p \in rows \X rows : p[1].height < p[2].height})

\* getAccruedRewardToDate(), summed
AccruedReward(d, n, start, end) ==
    LET updates == PowerUpdates(d, n)
        sum[i \in 0 .. Len(updates)] ==
            IF i = 0 THEN [last |-> RoundToHour(start), power |-> 0, total |-> 0]
            ELSE LET r == sum[i - 1]
                     hour == HourTicks * updates[i].hour
                 IN  [last |-> LaterHour(r.last, hour), power |-> updates[i].power,
                      total |-> r.total + PeriodReward(d, n, r.power, r.last, hour)]
        all == sum[Len(updates)]
    IN  all.total + PeriodReward(d, n, all.power, all.last, end)

-----------------------------------------------------------------------------
(* Search *)

SearchTypes == {"account", "application", "block", "microblock", "node", "organization", "vb"}

\* A query string is a hash [hexa], a height [integer] or part of a name [text];
\* hashes of blocks are left out.
AsId(q)   == IF Given(q, "hexa") THEN {q.hexa} ELSE {}
AsName(q) == [name |-> IF Given(q, "text") THEN q.text ELSE Null]

SearchAccounts(d, q)      == AsId(q) \cap Accounts(d, <<>>)
SearchApplications(d, q)  == (AsId(q) \cap Applications(d, <<>>)) \cup Applications(d, AsName(q))
SearchBlocks(d, q)        == {b.height : b \in {b \in d.blocks : Given(q, "integer") /\ b.height = q.integer}}
SearchMicroblocks(d, q)   == AsId(q) \cap {m.hash : m \in d.microblocks}
SearchNodes(d, q)         == AsId(q) \cap ValidatorNodes(d, <<>>)
SearchOrganizations(d, q) == (AsId(q) \cap Organizations(d, <<>>)) \cup Organizations(d, AsName(q))
SearchVirtualBlockchains(d, q) == AsId(q) \cap VirtualBlockchains(d, <<>>)

SearchResults(d, q, type) ==
    CASE type = "account"      -> SearchAccounts(d, q)
      [] type = "application"  -> SearchApplications(d, q)
      [] type = "block"        -> SearchBlocks(d, q)
      [] type = "microblock"   -> SearchMicroblocks(d, q)
      [] type = "node"         -> SearchNodes(d, q)
      [] type = "organization" -> SearchOrganizations(d, q)
      [] type = "vb"           -> SearchVirtualBlockchains(d, q)

\* search(), for a limit that is not reached: each type is searched if it is the one
\* asked for, or "all" is.
Search(d, query) ==
    UNION {{<<type, id>> : id \in SearchResults(d, query.q, type)} :
              type \in {t \in SearchTypes : Given(query, "type") /\ query.type \in {t, "all"}}}

-----------------------------------------------------------------------------
(* A walk over /blocks sorted by height *)

\* Mutant of HasMore: a full page is not followed by another.
NeverMore(rest, limit) == FALSE
HasMore(rest, limit) == Len(rest) > limit

Limit(limit) == Lower(MAX_LIMIT, limit)
Skip(offset) == Lower(offset, MAX_OFFSET)

Sorted(rows, order) ==
    InOrder(rows, {p \in rows \X rows : IF order = "ASC" THEN p[1].height < p[2].height
                                                        ELSE p[2].height < p[1].height})

\* find(): limit + 1 rows are taken, to know whether there are more.
Found(rows, order, offset, limit) ==
    LET sorted == Sorted(rows, order)
        taken == SubSeq(sorted, Skip(offset) + 1, Lower(Skip(offset) + limit + 1, Len(sorted)))
    IN  [items |-> SubSeq(taken, 1, Lower(limit, Len(taken))), hasMore |-> HasMore(taken, limit)]

StartWalk(order, limit) ==
    /\ walk = NoWalk /\ indexed \in Floors
    /\ walk' = [order |-> order, limit |-> Limit(limit), offset |-> 0, more |-> TRUE,
                floor |-> indexed, rolledBack |-> FALSE]
    /\ UNCHANGED <<vars, page, seen>>

\* The client asks for the next page, unless the offset would not be followed.
FetchPage ==
    /\ walk.more /\ page = <<>> /\ walk.offset <= MAX_OFFSET
    /\ LET query == [sort |-> "height", order |-> walk.order]
           found == Found(Blocks(db, query), walk.order, walk.offset, walk.limit)
       IN  /\ ~SortRefused(query) /\ ~HeightsRefused(query)
           /\ page' = found.items
           /\ walk' = [walk EXCEPT !.more = found.hasMore, !.offset = @ + walk.limit]
    /\ UNCHANGED <<vars, seen>>

\* BlockSignatureEntity.find(), for one block of the page after the other
ReadSignatures ==
    /\ page # <<>>
    /\ seen' = Append(seen, [row |-> Head(page),
                             signatures |-> {s \in db.signatures : s[1] = Head(page).height}])
    /\ page' = Tail(page)
    /\ UNCHANGED <<vars, walk>>

InitReads == Init /\ walk = NoWalk /\ page = <<>> /\ seen = <<>>

TableStep ==
    /\ Next
    /\ walk' = IF walk # NoWalk /\ Fail THEN [walk EXCEPT !.rolledBack = TRUE] ELSE walk
    /\ UNCHANGED <<page, seen>>

NextReads ==
    \/ TableStep
    \/ \E order \in {"ASC", "DESC"}, limit \in Limits : StartWalk(order, limit)
    \/ FetchPage
    \/ ReadSignatures

SpecReads == InitReads /\ [][NextReads]_allVars

-----------------------------------------------------------------------------
(* Properties *)

\* A walk in ascending order gets every block once and in order, whatever is indexed
\* or rolled back meanwhile.  In descending order new blocks push the others to the
\* next page, so that some come twice; none is missed unless the last block is rolled
\* back during the walk.  Blocks committed before the walk come complete.
Whole(item) ==
    LET b == Block[item.row.height]
    IN  /\ item.row.microblocks = Len(b.micros)
        /\ Cardinality(item.signatures) = IF b.commit THEN Len(b.signers) ELSE 0
WalkExact ==
    LET heights == {seen[i].row.height : i \in DOMAIN seen}
    IN  /\ walk.order = "ASC" => \A i \in DOMAIN seen : seen[i].row.height = i
        /\ (~walk.more /\ page = <<>> /\ (walk.order = "ASC" \/ ~walk.rolledBack))
              => 1 .. walk.floor \subseteq heights
        /\ \A i \in DOMAIN seen : seen[i].row.height <= walk.floor => Whole(seen[i])

\* The answers of different endpoints differ by the microblock in process only: its
\* row comes first, its statistics next, its virtual blockchain last, and the last
\* block is the only one that may still be rolled back.
AnswersOrdered ==
    /\ ChainHeight(db) \in {indexed, Height}
    /\ \A t \in Types :
          LET count == ObjectCount(db, t)
              genesis == MicroblockCount(db, <<>>, t, TRUE)
          IN  count <= genesis /\ genesis <= count + 1
    /\ LET counted == SumFunction([k \in Types \X BOOLEAN |-> MicroblockCount(db, <<>>, k[1], k[2])])
           rows == GasPrice(db, <<>>).microblocks
       IN  counted <= rows /\ rows <= counted + 1
    /\ GasPrice(db, [height_lte |-> indexed]).microblocks
          = SumFunction([b \in Blocks(db, [height_lte |-> indexed]) |-> b.microblocks])

\* What the node demands of a chain: the first microblock of an organization, a node or
\* an application declares it.
ObjectTypes == {"organization", "node", "application"}
GenesisDeclares ==
    \A m \in Hashes : (Micro[m].height = 1 /\ Micro[m].type \in ObjectTypes) =>
        \E i \in DOMAIN Micro[m].sections : Micro[m].sections[i].kind \in SectionsOf(Micro[m].type)

\* Between transactions, the identifiers in an answer are found by the endpoints they
\* lead to, the validators are the nodes whose last voting power is not 0, and a search
\* finds an object and its virtual blockchain together, or neither.
Matches(id) == Search(db, [q |-> [hexa |-> id], type |-> "all"])
AnswersLink ==
    at = "idle" =>
        /\ \A m \in Microblocks(db, <<>>) : VirtualBlockchains(db, [vb_id |-> m.vb]) # {}
        /\ \A v \in VirtualBlockchains(db, <<>>) :
              Cardinality(Microblocks(db, [vb_id |-> v])) = db.vbs[v].height
        /\ \A t \in ObjectTypes :
              Objects(db, t) = VirtualBlockchains(db, [type |-> t])
        /\ \A v \in Hashes, t \in ObjectTypes :
              <<t, v>> \in Matches(v) <=> <<"vb", v>> \in Matches(v) /\ db.vbs[v].type = t
        /\ \A o \in Organizations(db, <<>>) : Accounts(db, [id |-> db.column[o]["ORG_CREATION"]]) # {}
        /\ \A n \in Hashes :
              n \in ValidatorNodes(db, [is_validator |-> TRUE])
                 <=> \E p \in VotingPowers(db, [node_id |-> n]) :
                        /\ p.power # 0
                        /\ \A r \in VotingPowers(db, [node_id |-> n]) : r.height <= p.height

\* The certificates of an organization are served at every instant, also while one of
\* its microblocks is being stored: those of the indexed blocks, in order.
Certified(v) ==
    UNION {{<<row.hash, i>> :
              i \in {i \in DOMAIN Micro[row.hash].sections :
                       LET section == Micro[row.hash].sections[i]
                       IN  section.kind = "CUSTOM" /\ section.tag = "__cert__" /\ section.value = "__jwt__"}} :
              row \in {row \in saved.microblocks : row.vb = v}}
CertificatesServed ==
    \A v \in Objects(db, "organization") :
        LET served == Certificates(db, v)
        IN  /\ ~CertificatesFail(db, v)
            /\ Certified(v) \subseteq {<<served[i].microblock, served[i].index>> : i \in DOMAIN served}
            /\ \A i, j \in DOMAIN served : i < j => SectionOrder(served[i], served[j])

\* For each hour in which the node proposed a block, from the one of tick start to tick
\* end, the ticks of the hour before end at the power the node had last in that hour or
\* before it.
PowerIn(n, hour) ==
    LET until == {p \in saved.powers : p.node = n /\ p.hour <= hour}
    IN  IF until = {} THEN 0
        ELSE (CHOOSE p \in until : \A r \in until : r.height <= p.height).power
RewardUntil(n, start, end) ==
    LET up == {hour \in Hours : /\ RoundToHour(start) <= HourTicks * hour
                                /\ HourTicks * hour < end
                                /\ saved.valStats[<<n, hour>>].proposed > 0}
    IN  SumFunction([hour \in up |->
           (Lower(HourTicks * (hour + 1), end) - HourTicks * hour) * PowerIn(n, hour)])

\* The accrued reward counts no hour twice and each at the right power, whatever the
\* times of the query and of the changes of power.  The time it counts starts with the
\* hour of start_time, so before start_time by less than an hour, and ends at end_time
\* or, when it is later, at the last change of the node's power.
LastCounted(n, end) == Max({end} \cup {HourTicks * p.hour : p \in VotingPowers(saved, [node_id |-> n])})
RewardMatchesHours ==
    at = "idle" => \A n \in Objects(db, "node"), start, end \in RewardTimes :
        AccruedReward(db, n, start, end) = RewardUntil(n, start, LastCounted(n, end))

\* "End timestamp in milliseconds": the time after end_time is not counted.
RewardEndsAtEndTime ==
    at = "idle" => \A n \in Objects(db, "node"), start, end \in RewardTimes :
        AccruedReward(db, n, start, end) = RewardUntil(n, start, end)
=============================================================================
