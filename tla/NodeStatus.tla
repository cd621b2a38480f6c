----------------------------- MODULE NodeStatus -----------------------------
(***************************************************************************)
(* NodeStatusService: the status of validator nodes, fetched from their    *)
(* RPC endpoints on request and cached.  A request that finds no recent    *)
(* status starts an update, or joins the pending one; the update mutates   *)
(* the cached object while other handlers read it.  The callers are the    *)
(* HTTP handlers, onModuleInit() before the server listens, and            *)
(* saveValidatorNode(), inside the transaction of a block.                 *)
(*                                                                         *)
(* Time is counted in ticks and kept as ages, which stop growing at Cap; a *)
(* database query takes less than a tick.  The endpoints are external.     *)
(***************************************************************************)
EXTENDS Integers

CONSTANTS
    Nodes,      \* ids of validator nodes
    Urls,       \* RPC endpoints
    Handlers,   \* HTTP requests served at the same time
    Sync,       \* the synchronizer
    None,
    MIN_REFRESH_DELAY, MAX_FETCH_DELAY,   \* in ticks
    MaxFaults   \* bound: failures of queries and ends of the process

Callers == Handlers \cup {Sync}

\* Any older age is as good as this one.
Cap  == MIN_REFRESH_DELAY + 2 * MAX_FETCH_DELAY + 1
Ages == 0 .. Cap
Spaced == MIN_REFRESH_DELAY + 1

ASSUME NodeStatusAssumption ==
    /\ MIN_REFRESH_DELAY \in Nat /\ MAX_FETCH_DELAY \in Nat \ {0} /\ MaxFaults \in Nat
    /\ Sync \notin Handlers /\ None \notin Nodes \cup Urls \cup Callers

VARIABLES
    endpoint,   \* ValidatorNodeEntity.rpcEndpoint as every query sees it, None: no row
    saved,      \* the same, as committed
    changed,    \* changed[n]: age of the last change of endpoint[n]
    tx,         \* node whose microblock the open transaction stores
    cached,     \* nodes that have an entry in cache
    object,     \* object[n]: the cached object, or the one that its first update fills
    update,     \* update[c]: the call of updateNodeStatus() that c made
    pending,    \* pendingUpdates: node -> the caller whose update it is
    waiting,    \* waiting[c]: [on, age], on: the caller whose update c awaits
    boot,       \* nodes updateAll() has not updated yet
    lastFetch,  \* lastFetch[n]: age of the last GET /status for node n, at most Spaced
    faults

rowVars == <<endpoint, saved, changed, tx>>
vars    == <<rowVars, cached, object, update, pending, waiting, boot, lastFetch, faults>>

\* [status, age of the answer it rests on, endpoint it is about, age of
\* statusTimestamp, the last update found no row].  "Ok" stands for OK and SYNC.
Blank == [status |-> "Unknown", info |-> Cap, url |-> None, stamp |-> Cap, orphan |-> FALSE]

NoUpdate   == [node |-> None, step |-> "none", left |-> 0, url |-> None]
NotWaiting == [on |-> None, age |-> 0]

\* A process that starts: nothing is cached, updateAll() has every node to do.
Empty(rows) ==
    /\ cached' = {} /\ object' = [n \in Nodes |-> Blank]
    /\ update' = [c \in Callers |-> NoUpdate]
    /\ pending' = [n \in Nodes |-> None]
    /\ waiting' = [c \in Callers |-> NotWaiting]
    /\ boot' = {n \in Nodes : rows[n] # None}

Init ==
    /\ endpoint \in [Nodes -> Urls \cup {None}] /\ saved = endpoint
    /\ changed = [n \in Nodes |-> Cap] /\ tx = None
    /\ cached = {} /\ object = [n \in Nodes |-> Blank]
    /\ update = [c \in Callers |-> NoUpdate]
    /\ pending = [n \in Nodes |-> None]
    /\ waiting = [c \in Callers |-> NotWaiting]
    /\ boot = {n \in Nodes : endpoint[n] # None}
    /\ lastFetch = [n \in Nodes |-> Spaced]
    /\ faults = 0

-----------------------------------------------------------------------------
(* updateNodeStatus(), called by c *)

Running(c) == update[c] # NoUpdate
Node(c)    == update[c].node

StartUpdate(c, n) ==
    /\ update' = [update EXCEPT ![c] = [node |-> n, step |-> "row", left |-> 0, url |-> None]]
    /\ object' = IF n \in cached THEN object ELSE [object EXCEPT ![n] = Blank]

\* Mutant of Forget: the entry is only removed by the next update.
KeepPending(n) == UNCHANGED pending
\* this.pendingUpdates.delete(id)
Forget(n) == pending' = [pending EXCEPT ![n] = None]

\* Mutant of Awaits: the request that started the update is the only one to get it.
Starter(w, c) == w = c
Awaits(w, c)  == waiting[w].on = c

\* Those that await the update of c get its result, or its error.
Settle(c) ==
    /\ update' = [update EXCEPT ![c] = NoUpdate]
    /\ waiting' = [w \in Callers |-> IF Awaits(w, c) THEN NotWaiting ELSE waiting[w]]
    /\ Forget(Node(c))

\* The update ends with the object o.  updateAll() stores it without a timestamp.
Finish(c, o) ==
    /\ object' = [object EXCEPT ![Node(c)] = IF boot = {} THEN [o EXCEPT !.stamp = 0] ELSE o]
    /\ cached' = cached \cup {Node(c)}
    /\ boot' = boot \ {Node(c)}
    /\ Settle(c)

\* Mutant of Target: the endpoint of an earlier update is used again.
KnownUrl(n) == IF n \in cached /\ object[n].url # None THEN object[n].url ELSE endpoint[n]
Target(n)   == endpoint[n]

\* Mutant of Deadline: the signal of the first call is not renewed for the second.
NoDeadline == Cap + 1
Deadline == MAX_FETCH_DELAY

Fetch(c, step, url) ==
    update' = [update EXCEPT ![c] = [@ EXCEPT !.step = step, !.left = Deadline, !.url = url]]

\* findOne()
ReadRow(c) ==
    /\ update[c].step = "row"
    /\ LET n == Node(c) IN
       IF endpoint[n] = None
       THEN /\ Finish(c, [object[n] EXCEPT !.orphan = TRUE])
            /\ UNCHANGED lastFetch
       ELSE /\ Fetch(c, "status", Target(n))
            /\ lastFetch' = [lastFetch EXCEPT ![n] = 0]
            /\ UNCHANGED <<cached, object, pending, waiting, boot>>
    /\ UNCHANGED <<rowVars, faults>>

\* The object when the update ends early.  (Moniker, height and so on stay in it, but
\* nothing is claimed of them.)
Failed(c, status) == [object[Node(c)] EXCEPT !.status = status, !.info = Cap,
                                             !.url = update[c].url, !.orphan = FALSE]

\* Mutants of Thrown: the error is only logged.
Swallowed(c) == [object[Node(c)] EXCEPT !.url = update[c].url, !.orphan = FALSE]
Thrown(c) == Failed(c, "Down")

\* GET /status: an answer without node information, an HTTP error, or all of it.
StatusArrives(c) ==
    /\ update[c].step = "status" /\ update[c].left > 0
    /\ \/ \E status \in {"Down", "Bad"} : Finish(c, Failed(c, status))
       \/ /\ object' = [object EXCEPT ![Node(c)] = [Failed(c, "Ok") EXCEPT !.info = 0]]
          /\ Fetch(c, "mempool", update[c].url)
          /\ UNCHANGED <<cached, pending, waiting, boot>>
    /\ UNCHANGED <<rowVars, lastFetch, faults>>

\* GET /num_unconfirmed_txs
MempoolArrives(c) ==
    /\ update[c].step = "mempool" /\ update[c].left > 0
    /\ Finish(c, object[Node(c)])
    /\ UNCHANGED <<rowVars, lastFetch, faults>>

\* Either fetch throws: the time is over, no connection, no JSON.
FetchThrows(c) ==
    /\ update[c].step \in {"status", "mempool"}
    /\ Finish(c, Thrown(c))
    /\ UNCHANGED <<rowVars, lastFetch, faults>>

-----------------------------------------------------------------------------
(* getNodeStatus() *)

\* Mutant of Joined: pendingUpdates.set() is missing.
NobodysUpdate(n) == None
Joined(n) == pending[n]

\* The answer is not immediate.
Request(c, n) ==
    /\ boot = {} /\ waiting[c] = NotWaiting
    /\ n \in cached => object[n].stamp > MIN_REFRESH_DELAY
    /\ waiting' = [waiting EXCEPT ![c].on = IF Joined(n) = None THEN c ELSE Joined(n)]
    /\ IF Joined(n) = None
       THEN /\ ~Running(c)
            /\ StartUpdate(c, n)
            /\ pending' = [pending EXCEPT ![n] = c]
       ELSE UNCHANGED <<update, object, pending>>
    /\ UNCHANGED <<rowVars, cached, boot, lastFetch, faults>>

\* updateAll(): one node after the other.
BootUpdate(n) ==
    /\ n \in boot /\ ~Running(Sync)
    /\ StartUpdate(Sync, n)
    /\ UNCHANGED <<rowVars, cached, pending, waiting, boot, lastFetch, faults>>

-----------------------------------------------------------------------------
(* The transaction of a block: saveValidatorNode() *)

Changes(rows) ==
    /\ endpoint' = rows
    /\ changed' = [n \in Nodes |-> IF rows[n] # endpoint[n] THEN 0 ELSE changed[n]]

SaveNode(n, url) ==
    /\ boot = {} /\ tx = None
    /\ tx' = n
    /\ Changes([endpoint EXCEPT ![n] = url])
    /\ UNCHANGED <<saved, cached, object, update, pending, waiting, boot, lastFetch, faults>>

\* await getCurrentNodeStatus()
AskStatus == tx # None /\ Request(Sync, tx)

EndTransaction ==
    /\ tx # None /\ waiting[Sync] = NotWaiting
    /\ tx' = None
    /\ \/ saved' = endpoint /\ UNCHANGED <<endpoint, changed>>
       \/ UNCHANGED saved /\ Changes(saved)
    /\ UNCHANGED <<cached, object, update, pending, waiting, boot, lastFetch, faults>>

-----------------------------------------------------------------------------
(* Faults and time *)

\* findOne() rejects: so do the requests, and the transaction that awaits one of them.
QueryFails(c) ==
    /\ boot = {} /\ update[c].step = "row"
    /\ faults < MaxFaults /\ faults' = faults + 1
    /\ Settle(c)
    /\ IF waiting[Sync].on = c
       THEN tx' = None /\ Changes(saved)
       ELSE UNCHANGED <<tx, endpoint, changed>>
    /\ UNCHANGED <<saved, cached, object, boot, lastFetch>>

\* The process ends, as it does when updateAll() rejects, and starts again.
ProcessEnds ==
    /\ faults < MaxFaults /\ faults' = faults + 1
    /\ tx' = None /\ Changes(saved) /\ UNCHANGED saved
    /\ Empty(saved)
    /\ lastFetch' = [n \in Nodes |-> Spaced]

Older(age) == IF age < Cap THEN age + 1 ELSE Cap

Tick ==
    /\ \A c \in Callers : Running(c) => update[c].left > 0
    /\ changed' = [n \in Nodes |-> Older(changed[n])]
    /\ lastFetch' = [n \in Nodes |-> IF lastFetch[n] < Spaced THEN lastFetch[n] + 1 ELSE Spaced]
    /\ object' = [n \in Nodes |-> [object[n] EXCEPT !.info = Older(@), !.stamp = Older(@)]]
    /\ update' = [c \in Callers |-> IF Running(c) THEN [update[c] EXCEPT !.left = @ - 1] ELSE NoUpdate]
    /\ waiting' = [c \in Callers |-> IF waiting[c] = NotWaiting THEN NotWaiting
                                     ELSE [waiting[c] EXCEPT !.age = Older(@)]]
    /\ UNCHANGED <<endpoint, saved, tx, cached, pending, boot, faults>>

-----------------------------------------------------------------------------

Advance(c) == ReadRow(c) \/ StatusArrives(c) \/ MempoolArrives(c) \/ FetchThrows(c)

Next ==
    \/ \E c \in Callers : Advance(c) \/ QueryFails(c)
    \/ \E c \in Handlers, n \in Nodes : Request(c, n)
    \/ \E n \in Nodes : BootUpdate(n)
    \/ \E n \in Nodes, url \in Urls : SaveNode(n, url)
    \/ AskStatus
    \/ EndTransaction
    \/ ProcessEnds
    \/ Tick

Spec == Init /\ [][Next]_vars

\* Time passes, the database answers, a fetch returns or throws, updateAll() goes on.
FairSpec ==
    /\ Spec
    /\ WF_vars(Tick)
    /\ \A c \in Callers : WF_vars(Advance(c))
    /\ \A n \in Nodes : WF_vars(BootUpdate(n))

-----------------------------------------------------------------------------
(* Properties *)

Object == [status : {"Unknown", "Ok", "Down", "Bad"}, info : Ages, url : Urls \cup {None},
           stamp : Ages, orphan : BOOLEAN]
Update == [node : Nodes \cup {None}, step : {"none", "row", "status", "mempool"},
           left : 0 .. MAX_FETCH_DELAY, url : Urls \cup {None}]

TypeOK ==
    /\ endpoint \in [Nodes -> Urls \cup {None}] /\ saved \in [Nodes -> Urls \cup {None}]
    /\ changed \in [Nodes -> Ages] /\ tx \in Nodes \cup {None}
    /\ cached \subseteq Nodes /\ object \in [Nodes -> Object]
    /\ update \in [Callers -> Update]
    /\ pending \in [Nodes -> Callers \cup {None}]
    /\ waiting \in [Callers -> [on : Callers \cup {None}, age : Ages]]
    /\ boot \subseteq Nodes
    /\ lastFetch \in [Nodes -> 0 .. Spaced]
    /\ faults \in 0 .. MaxFaults

\* Concurrent requests share one update: pendingUpdates holds exactly the updates
\* that run, so that none is fetched twice and none is awaited after its end.
PendingIsRunning ==
    /\ boot = {} => \A c \in Callers, n \in Nodes : pending[n] = c <=> Running(c) /\ Node(c) = n
    /\ \A c \in Callers : waiting[c] # NotWaiting => Running(waiting[c].on)

\* Nobody, and so no transaction of a block, waits for the endpoint of a node longer
\* than two timeouts, whoever started the update.
WaitsBounded == \A c \in Callers : waiting[c].age <= 2 * MAX_FETCH_DELAY

\* A cached status that says the node answers rests on an answer given at most one
\* timeout before its timestamp, even while an update is changing it.  (An update that
\* finds no row stamps the former status again: a rolled back node.)
StampHonest ==
    \A n \in cached : (object[n].status = "Ok" /\ ~object[n].orphan /\ object[n].stamp < Cap)
                         => object[n].info <= object[n].stamp + MAX_FETCH_DELAY

\* A status is about the endpoint the node declares now, unless that endpoint
\* appeared, or was rolled back, less than two timeouts before the timestamp.
EndpointFollowed ==
    \A n \in cached :
        (/\ endpoint[n] # None /\ ~object[n].orphan
         /\ changed[n] > object[n].stamp + 2 * MAX_FETCH_DELAY)
            => object[n].url = endpoint[n]

\* A fetch begins only after the refresh delay since the last one, however many
\* requests there are and however that one ended.  (A status of updateAll() has no
\* timestamp: the first request repeats it.)
FetchBegins(n) == \E c \in Callers : /\ update[c].step = "row" /\ update'[c].step = "status"
                                     /\ Node(c) = n
FetchesSpaced ==
    [][\A n \in Nodes : FetchBegins(n) =>
          lastFetch[n] > MIN_REFRESH_DELAY \/ object[n].stamp = Cap]_vars

\* Every request is answered, and updateAll() lets the server start.
AllAnswered ==
    /\ \A c \in Callers : waiting[c] # NotWaiting ~> waiting[c] = NotWaiting
    /\ <>(boot = {})
=============================================================================
