-------------------------- MODULE NodeStatus_proofs --------------------------
(* Type correctness, the agreement of pendingUpdates with the updates that    *)
(* run, and the bound on what a caller waits, for any number of nodes,        *)
(* endpoints and requests and for any delays.                                 *)
EXTENDS NodeStatus, TLAPS

-----------------------------------------------------------------------------
(* The inductive invariant *)

Steps == {"row", "status", "mempool"}

\* An update that runs is for a node; a query takes no time.
WellFormed(c) ==
    Running(c) => /\ Node(c) \in Nodes
                  /\ update[c].step \in Steps
                  /\ update[c].step = "row" => update[c].left = 0

\* Before the server listens only updateAll() updates, and nobody waits.
BootAlone ==
    boot # {} => /\ \A n \in Nodes : pending[n] = None
                 /\ \A c \in Callers : waiting[c] = NotWaiting
                 /\ \A c \in Callers : Running(c) => c = Sync /\ Node(c) \in boot

Matched == \A c \in Callers, n \in Nodes : pending[n] = c <=> Running(c) /\ Node(c) = n

\* The time the update of c has taken is at most this.
Spent(c) == CASE update[c].step = "row"     -> 0
              [] update[c].step = "status"  -> MAX_FETCH_DELAY - update[c].left
              [] update[c].step = "mempool" -> 2 * MAX_FETCH_DELAY - update[c].left

\* Who waits does so for an update that runs, and not longer than it runs.
WaitsFor(w) == waiting[w] # NotWaiting => /\ waiting[w].on \in Callers
                                          /\ Running(waiting[w].on)
                                          /\ waiting[w].age <= Spent(waiting[w].on)

IInv ==
    /\ TypeOK
    /\ \A c \in Callers : WellFormed(c)
    /\ BootAlone
    /\ boot = {} => Matched
    /\ \A w \in Callers : WaitsFor(w)

Promised == TypeOK /\ PendingIsRunning /\ WaitsBounded

-----------------------------------------------------------------------------

LEMMA Constants ==
    /\ Sync \in Callers /\ None \notin Callers /\ None \notin Nodes
    /\ MIN_REFRESH_DELAY \in Nat /\ MAX_FETCH_DELAY \in Nat \ {0} /\ MaxFaults \in Nat
    /\ Cap \in Nat /\ 0 \in Ages /\ Cap \in Ages /\ Spaced \in Nat
    /\ Blank \in Object
    /\ NoUpdate \in Update /\ NotWaiting \in [on : Callers \cup {None}, age : Ages]
  <1>1. /\ Sync \in Callers /\ None \notin Callers /\ None \notin Nodes
        /\ MIN_REFRESH_DELAY \in Nat /\ MAX_FETCH_DELAY \in Nat \ {0} /\ MaxFaults \in Nat
    BY NodeStatusAssumption DEF Callers
  <1>2. Cap \in Nat /\ 0 \in Ages /\ Cap \in Ages /\ Spaced \in Nat
    BY <1>1 DEF Cap, Ages, Spaced
  <1> QED
    BY <1>1, <1>2 DEF Blank, Object, NoUpdate, Update, NotWaiting

LEMMA OlderTyped == ASSUME NEW age \in Ages
                    PROVE  Older(age) \in Ages /\ Older(age) <= age + 1
  BY Constants DEF Older, Ages

LEMMA SpentBounded ==
    ASSUME TypeOK, NEW c \in Callers, WellFormed(c), Running(c)
    PROVE  Spent(c) \in 0 .. 2 * MAX_FETCH_DELAY
  <1>1. update[c].left \in 0 .. MAX_FETCH_DELAY /\ MAX_FETCH_DELAY \in Nat
    BY Constants DEF TypeOK, Update
  <1>2. update[c].step \in Steps
    BY DEF WellFormed
  <1> QED
    BY <1>1, <1>2 DEF Spent, Steps

LEMMA Implies == IInv => Promised
  <1> SUFFICES ASSUME IInv PROVE Promised
    OBVIOUS
  <1>1. TypeOK
    BY DEF IInv
  <1>2. PendingIsRunning
    BY DEF IInv, Matched, WaitsFor, PendingIsRunning
  <1>3. ASSUME NEW w \in Callers
        PROVE  waiting[w].age <= 2 * MAX_FETCH_DELAY
    <2>1. CASE waiting[w] = NotWaiting
      BY <2>1, Constants DEF NotWaiting
    <2>2. CASE waiting[w] # NotWaiting
      <3> DEFINE c == waiting[w].on
      <3>1. c \in Callers /\ Running(c) /\ waiting[w].age <= Spent(c) /\ WellFormed(c)
        BY <2>2 DEF IInv, WaitsFor
      <3>2. Spent(c) \in 0 .. 2 * MAX_FETCH_DELAY
        BY <1>1, <3>1, SpentBounded
      <3>3. waiting[w].age \in Nat
        BY <1>1, Constants DEF TypeOK, Ages
      <3> QED
        BY <3>1, <3>2, <3>3, Constants
    <2> QED
      BY <2>1, <2>2
  <1> QED
    BY <1>1, <1>2, <1>3 DEF Promised, WaitsBounded

LEMMA InitHolds == Init => IInv
  <1> SUFFICES ASSUME Init PROVE IInv
    OBVIOUS
  <1>1. TypeOK
    BY Constants DEF Init, TypeOK
  <1>2. \A c \in Callers : ~Running(c) /\ waiting[c] = NotWaiting
    BY DEF Init, Running
  <1>3. \A n \in Nodes : pending[n] = None
    BY DEF Init
  <1> QED
    BY <1>1, <1>2, <1>3, Constants DEF IInv, WellFormed, BootAlone, Matched, WaitsFor
-----------------------------------------------------------------------------
(* What the end, the progress and the start of an update do to the invariant *)

LEMMA EndKeeps ==
    ASSUME IInv, TypeOK', NEW c \in Callers, Running(c), Settle(c), boot' = boot \ {Node(c)}
    PROVE  IInv'
  <1>1. TypeOK /\ WellFormed(c) /\ Node(c) \in Nodes /\ None \notin Callers
    BY Constants DEF IInv, WellFormed
  <1>2. update' = [update EXCEPT ![c] = NoUpdate] /\ update \in [Callers -> Update]
    BY <1>1 DEF Settle, TypeOK
  <1>3. pending' = [pending EXCEPT ![Node(c)] = None] /\ pending \in [Nodes -> Callers \cup {None}]
    BY <1>1 DEF Settle, Forget, TypeOK
  <1>4. ASSUME NEW d \in Callers
        PROVE  /\ ~Running(c)'
               /\ d # c => update'[d] = update[d]
               /\ waiting'[d] = IF waiting[d].on = c THEN NotWaiting ELSE waiting[d]
    BY <1>2 DEF Running, Settle, Awaits
  <1>5. \A d \in Callers : WellFormed(d)'
    BY <1>4 DEF IInv, WellFormed, Running, Node
  <1>6. BootAlone'
    <2> SUFFICES ASSUME boot' # {} PROVE BootAlone'
      BY DEF BootAlone
    <2>1. /\ \A n \in Nodes : pending[n] = None
          /\ \A d \in Callers : waiting[d] = NotWaiting
          /\ \A d \in Callers : Running(d) => d = Sync /\ Node(d) \in boot
      BY DEF IInv, BootAlone
    <2>2. \A n \in Nodes : pending'[n] = None
      BY <2>1, <1>3
    <2>3. \A d \in Callers : waiting'[d] = NotWaiting
      BY <2>1, <1>4
    <2>4. \A d \in Callers : ~Running(d)'
      BY <2>1, <1>4 DEF Running
    <2> QED
      BY <2>2, <2>3, <2>4 DEF BootAlone
  <1>7. boot' = {} => Matched'
    <2>1. CASE boot = {}
      <3> SUFFICES ASSUME NEW d \in Callers, NEW n \in Nodes
                   PROVE  pending'[n] = d <=> Running(d)' /\ Node(d)' = n
        BY DEF Matched
      <3>1. /\ pending[n] = d <=> Running(d) /\ Node(d) = n
            /\ pending[Node(c)] = c
        BY <2>1, <1>1 DEF IInv, Matched
      <3>2. pending'[n] = IF n = Node(c) THEN None ELSE pending[n]
        BY <1>3
      <3>3. CASE d = c
        BY <3>1, <3>2, <3>3, <1>1, <1>4
      <3>4. CASE d # c
        <4>1. Running(d)' = Running(d) /\ Node(d)' = Node(d)
          BY <3>4, <1>4 DEF Running, Node
        <4> QED
          BY <3>1, <3>2, <3>4, <4>1, <1>1
      <3> QED
        BY <3>3, <3>4
    <2>2. CASE boot # {}
      <3>1. \A n \in Nodes : pending'[n] = None
        BY <2>2, <1>3 DEF IInv, BootAlone
      <3>2. \A d \in Callers : ~Running(d)'
        BY <2>2, <1>4 DEF IInv, BootAlone, Running
      <3> QED
        BY <3>1, <3>2, <1>1 DEF Matched
    <2> QED
      BY <2>1, <2>2
  <1>8. \A w \in Callers : WaitsFor(w)'
    <2> SUFFICES ASSUME NEW w \in Callers, waiting'[w] # NotWaiting PROVE WaitsFor(w)'
      BY DEF WaitsFor
    <2>1. waiting'[w] = waiting[w] /\ waiting[w].on # c
      BY <1>4
    <2>2. /\ waiting[w].on \in Callers /\ Running(waiting[w].on)
          /\ waiting[w].age <= Spent(waiting[w].on)
      BY <2>1 DEF IInv, WaitsFor
    <2>3. update'[waiting[w].on] = update[waiting[w].on]
      BY <1>4, <2>1, <2>2
    <2> QED
      BY <2>1, <2>2, <2>3 DEF WaitsFor, Running, Spent
  <1> QED
    BY <1>5, <1>6, <1>7, <1>8 DEF IInv

LEMMA FetchKeeps ==
    ASSUME IInv, TypeOK', NEW c \in Callers, NEW step \in {"status", "mempool"}, NEW url,
           step = "status"  => update[c].step = "row",
           step = "mempool" => update[c].step = "status",
           Running(c), Fetch(c, step, url), UNCHANGED <<pending, waiting, boot>>
    PROVE  IInv'
  <1>1. TypeOK /\ WellFormed(c) /\ Node(c) \in Nodes
    BY DEF IInv, WellFormed
  <1>2. update \in [Callers -> Update]
    BY <1>1 DEF TypeOK
  <1>3. \A d \in Callers : d # c => update'[d] = update[d]
    BY <1>2 DEF Fetch
  <1>4. /\ update'[c].step = step /\ update'[c].left = MAX_FETCH_DELAY
        /\ update'[c].node = update[c].node
    BY <1>2 DEF Fetch, Deadline, Update
  <1>5. \A d \in Callers : Running(d)' = Running(d) /\ Node(d)' = Node(d)
    BY <1>3, <1>4 DEF Running, Node, NoUpdate
  <1>6. \A d \in Callers : WellFormed(d)'
    <2> SUFFICES ASSUME NEW d \in Callers, Running(d)' PROVE WellFormed(d)'
      BY DEF WellFormed
    <2>1. WellFormed(d) /\ Running(d)
      BY <1>5 DEF IInv
    <2> QED
      BY <2>1, <1>3, <1>4, <1>5 DEF WellFormed, Steps
  <1>7. BootAlone'
    BY <1>5 DEF IInv, BootAlone
  <1>8. boot' = {} => Matched'
    BY <1>5 DEF IInv, Matched
  <1>9. \A w \in Callers : WaitsFor(w)'
    <2> SUFFICES ASSUME NEW w \in Callers, waiting[w] # NotWaiting PROVE WaitsFor(w)'
      BY DEF WaitsFor
    <2> DEFINE d == waiting[w].on
    <2>1. d \in Callers /\ Running(d) /\ waiting[w].age <= Spent(d)
      BY DEF IInv, WaitsFor
    <2>2. waiting[w].age <= Spent(d)'
      <3>1. CASE d # c
        BY <2>1, <3>1, <1>3 DEF Spent
      <3>2. CASE d = c
        <4>1. update[c].left \in 0 .. MAX_FETCH_DELAY /\ MAX_FETCH_DELAY \in Nat
              /\ waiting[w].age \in Nat
          BY <1>1, Constants DEF TypeOK, Update, Ages
        <4>2. CASE step = "status"
          <5>1. Spent(c) = 0
            BY <4>2 DEF Spent
          <5>2. Spent(c)' = 0
            BY <4>2, <4>1, <1>4, Constants DEF Spent
          <5> QED
            BY <5>1, <5>2, <2>1, <3>2
        <4>3. CASE step = "mempool"
          <5>1. Spent(c) = MAX_FETCH_DELAY - update[c].left
            BY <4>3 DEF Spent
          <5>2. Spent(c)' = 2 * MAX_FETCH_DELAY - MAX_FETCH_DELAY
            BY <4>3, <1>4, Constants DEF Spent
          <5> QED
            BY <5>1, <5>2, <4>1, <2>1, <3>2
        <4> QED
          BY <4>2, <4>3
      <3> QED
        BY <3>1, <3>2
    <2> QED
      BY <2>1, <2>2, <1>5 DEF WaitsFor
  <1> QED
    BY <1>6, <1>7, <1>8, <1>9 DEF IInv

LEMMA StartKeeps ==
    ASSUME IInv, NEW c \in Callers, NEW n \in Nodes, ~Running(c), StartUpdate(c, n)
    PROVE  /\ update' \in [Callers -> Update] /\ object' \in [Nodes -> Object]
           /\ Running(c)' /\ Node(c)' = n /\ Spent(c)' = 0
           /\ \A d \in Callers : d # c => update'[d] = update[d]
           /\ \A d \in Callers : WellFormed(d)'
  <1>1. update \in [Callers -> Update] /\ object \in [Nodes -> Object]
    BY DEF IInv, TypeOK
  <1>2. update'[c] = [node |-> n, step |-> "row", left |-> 0, url |-> None]
    BY <1>1 DEF StartUpdate
  <1>3. [node |-> n, step |-> "row", left |-> 0, url |-> None] \in Update
    BY Constants DEF Update
  <1>4. update' \in [Callers -> Update] /\ object' \in [Nodes -> Object]
    BY <1>1, <1>3, Constants DEF StartUpdate
  <1>5. Running(c)' /\ Node(c)' = n /\ Spent(c)' = 0
    BY <1>2 DEF Running, Node, Spent, NoUpdate
  <1>6. \A d \in Callers : d # c => update'[d] = update[d]
    BY <1>1 DEF StartUpdate
  <1>7. ASSUME NEW d \in Callers
        PROVE  WellFormed(d)'
    <2>1. CASE d = c
      BY <1>2, <1>5, <2>1 DEF WellFormed, Steps
    <2>2. CASE d # c
      BY <1>6, <2>2 DEF IInv, WellFormed, Running, Node
    <2> QED
      BY <2>1, <2>2
  <1> QED
    BY <1>4, <1>5, <1>6, <1>7

LEMMA BootStep == ASSUME IInv, NEW n \in Nodes, BootUpdate(n) PROVE IInv'
  <1>1. n \in boot /\ ~Running(Sync) /\ StartUpdate(Sync, n) /\ Sync \in Callers
    BY Constants DEF BootUpdate
  <1>2. /\ update' \in [Callers -> Update] /\ object' \in [Nodes -> Object]
        /\ Running(Sync)' /\ Node(Sync)' = n
        /\ \A d \in Callers : d # Sync => update'[d] = update[d]
        /\ \A d \in Callers : WellFormed(d)'
    BY <1>1, StartKeeps
  <1>3. TypeOK'
    BY <1>2 DEF IInv, TypeOK, BootUpdate, rowVars
  <1>4. BootAlone'
    BY <1>1, <1>2 DEF IInv, BootAlone, BootUpdate, Running, Node
  <1>5. \A w \in Callers : WaitsFor(w)'
    BY <1>1 DEF IInv, BootAlone, BootUpdate, WaitsFor
  <1>6. boot' # {}
    BY <1>1 DEF BootUpdate
  <1> QED
    BY <1>2, <1>3, <1>4, <1>5, <1>6 DEF IInv

\* A request that finds no pending update starts one, any other joins it.
LEMMA RequestStep == ASSUME IInv, NEW c \in Callers, NEW n \in Nodes, Request(c, n) PROVE IInv'
  <1>1. /\ boot = {} /\ boot' = {} /\ waiting[c] = NotWaiting
        /\ UNCHANGED <<rowVars, cached, lastFetch, faults>>
        /\ waiting' = [waiting EXCEPT ![c].on = IF pending[n] = None THEN c ELSE pending[n]]
        /\ TypeOK /\ Matched /\ None \notin Callers
    BY Constants DEF IInv, Request, Joined
  <1>2. pending \in [Nodes -> Callers \cup {None}]
        /\ waiting \in [Callers -> [on : Callers \cup {None}, age : Ages]]
    BY <1>1 DEF TypeOK
  <1> DEFINE new == IF pending[n] = None THEN c ELSE pending[n]
  <1>3. /\ new \in Callers
        /\ waiting'[c] = [on |-> new, age |-> 0]
        /\ \A w \in Callers : w # c => waiting'[w] = waiting[w]
        /\ waiting' \in [Callers -> [on : Callers \cup {None}, age : Ages]]
    <2>1. new \in Callers
      BY <1>2
    <2>2. waiting'[c] = [on |-> new, age |-> 0]
      <3>1. waiting'[c] = [waiting[c] EXCEPT !.on = new]
        BY <1>1, <1>2
      <3>2. waiting[c] = [on |-> None, age |-> 0]
        BY <1>1 DEF NotWaiting
      <3> HIDE DEF new
      <3>3. [[on |-> None, age |-> 0] EXCEPT !.on = new] = [on |-> new, age |-> 0]
        OBVIOUS
      <3> QED
        BY <3>1, <3>2, <3>3
    <2>3. [on |-> new, age |-> 0] \in [on : Callers \cup {None}, age : Ages]
      BY <2>1, Constants
    <2>4. \A w \in Callers : w # c => waiting'[w] = waiting[w]
      BY <1>1, <1>2
    <2>5. waiting' = [w \in Callers |-> waiting'[w]]
      BY <1>1, <1>2
    <2> QED
      BY <2>1, <2>2, <2>3, <2>4, <2>5, <1>2
  <1>4. CASE pending[n] = None
    <2>1. ~Running(c) /\ StartUpdate(c, n) /\ pending' = [pending EXCEPT ![n] = c]
      BY <1>4 DEF Request, Joined
    <2>2. /\ update' \in [Callers -> Update] /\ object' \in [Nodes -> Object]
          /\ Running(c)' /\ Node(c)' = n /\ Spent(c)' = 0
          /\ \A d \in Callers : d # c => update'[d] = update[d]
          /\ \A d \in Callers : WellFormed(d)'
      BY <2>1, StartKeeps
    <2>3. TypeOK'
      BY <1>1, <1>2, <1>3, <2>1, <2>2 DEF TypeOK, rowVars
    <2>4. Matched'
      <3> SUFFICES ASSUME NEW d \in Callers, NEW m \in Nodes
                   PROVE  pending'[m] = d <=> Running(d)' /\ Node(d)' = m
        BY DEF Matched
      <3>1. pending[m] = d <=> Running(d) /\ Node(d) = m
        BY <1>1 DEF Matched
      <3>2. pending'[m] = IF m = n THEN c ELSE pending[m]
        BY <1>2, <2>1
      <3>3. CASE d = c
        BY <3>1, <3>2, <3>3, <2>1, <2>2
      <3>4. CASE d # c
        <4>1. Running(d)' = Running(d) /\ Node(d)' = Node(d)
          BY <3>4, <2>2 DEF Running, Node
        <4> QED
          BY <3>1, <3>2, <3>4, <4>1, <1>1, <1>4
      <3> QED
        BY <3>3, <3>4
    <2>5. ASSUME NEW w \in Callers
          PROVE  WaitsFor(w)'
      <3>1. CASE w = c
        BY <3>1, <1>3, <1>4, <2>2 DEF WaitsFor
      <3>2. CASE w # c
        <4> SUFFICES ASSUME waiting[w] # NotWaiting PROVE WaitsFor(w)'
          BY <3>2, <1>3 DEF WaitsFor
        <4>1. /\ waiting[w].on \in Callers /\ Running(waiting[w].on)
              /\ waiting[w].age <= Spent(waiting[w].on)
          BY DEF IInv, WaitsFor
        <4>2. waiting[w].on # c
          BY <4>1, <2>1
        <4> QED
          BY <3>2, <4>1, <4>2, <1>3, <2>2 DEF WaitsFor, Running, Spent
      <3> QED
        BY <3>1, <3>2
    <2> QED
      BY <1>1, <2>2, <2>3, <2>4, <2>5 DEF IInv, BootAlone
  <1>5. CASE pending[n] # None
    <2>1. UNCHANGED <<update, object, pending>>
      BY <1>5 DEF Request, Joined
    <2>2. TypeOK'
      BY <1>1, <1>3, <2>1 DEF TypeOK, rowVars
    <2>3. \A d \in Callers : WellFormed(d)'
      BY <2>1 DEF IInv, WellFormed, Running, Node
    <2>4. Matched'
      BY <1>1, <2>1 DEF Matched, Running, Node
    <2>5. Running(new) /\ WellFormed(new)
      BY <1>1, <1>3, <1>5 DEF IInv, Matched
    <2>6. Spent(new) \in 0 .. 2 * MAX_FETCH_DELAY
      BY <1>1, <1>3, <2>5, SpentBounded
    <2>7. 0 <= Spent(new)
      BY <2>6, Constants
    <2>8. ASSUME NEW w \in Callers
          PROVE  WaitsFor(w)'
      <3>1. CASE w = c
        <4>1. waiting'[w].on = new /\ waiting'[w].age = 0
          BY <3>1, <1>3
        <4>2. new \in Callers /\ update'[new] # NoUpdate /\ 0 <= Spent(waiting[w].on)'
          BY <1>3, <2>1, <2>5, <2>7, <4>1 DEF Running, Spent
        <4> HIDE DEF new
        <4> QED
          BY <4>1, <4>2 DEF WaitsFor, Running
      <3>2. CASE w # c
        BY <3>2, <1>3, <2>1 DEF IInv, WaitsFor, Running, Spent
      <3> QED
        BY <3>1, <3>2
    <2> QED
      BY <1>1, <2>2, <2>3, <2>4, <2>8 DEF IInv, BootAlone
  <1> QED
    BY <1>4, <1>5

-----------------------------------------------------------------------------
(* The steps of an update *)

\* The update of c ends with the object o.
LEMMA FinishStep ==
    ASSUME IInv, NEW c \in Callers, Running(c), NEW o \in Object, Finish(c, o),
           UNCHANGED <<rowVars, faults>>, lastFetch' \in [Nodes -> 0 .. Spaced]
    PROVE  IInv'
  <1>1. TypeOK /\ WellFormed(c) /\ Node(c) \in Nodes
    BY DEF IInv, WellFormed
  <1>2. object' \in [Nodes -> Object]
    <2>1. [o EXCEPT !.stamp = 0] \in Object
      BY Constants DEF Object
    <2> DEFINE new == IF boot = {} THEN [o EXCEPT !.stamp = 0] ELSE o
    <2>2. new \in Object /\ object' = [object EXCEPT ![Node(c)] = new]
      BY <2>1 DEF Finish
    <2> HIDE DEF new
    <2> QED
      BY <2>2, <1>1 DEF TypeOK
  <1>3. cached' \subseteq Nodes /\ boot' = boot \ {Node(c)} /\ boot' \subseteq Nodes /\ Settle(c)
    BY <1>1 DEF Finish, TypeOK
  <1>4. update' \in [Callers -> Update] /\ pending' \in [Nodes -> Callers \cup {None}]
        /\ waiting' \in [Callers -> [on : Callers \cup {None}, age : Ages]]
    BY <1>1, <1>3, Constants DEF Settle, Forget, TypeOK
  <1>5. TypeOK'
    BY <1>1, <1>2, <1>3, <1>4 DEF TypeOK, rowVars
  <1> QED
    BY <1>3, <1>5, EndKeeps

LEMMA FailedTyped ==
    ASSUME IInv, NEW c \in Callers, Running(c), NEW status \in {"Ok", "Down", "Bad"}
    PROVE  Failed(c, status) \in Object
  <1>1. object[Node(c)] \in Object /\ update[c] \in Update
    BY DEF IInv, WellFormed, TypeOK
  <1> QED
    BY <1>1, Constants DEF Failed, Object, Update

LEMMA FetchTyped ==
    ASSUME TypeOK, NEW c \in Callers, NEW step \in {"status", "mempool"},
           NEW url \in Urls \cup {None}, Fetch(c, step, url)
    PROVE  update' \in [Callers -> Update]
  <1> DEFINE u == [update[c] EXCEPT !.step = step, !.left = MAX_FETCH_DELAY, !.url = url]
  <1>1. update \in [Callers -> Update] /\ update[c] \in Update
    BY DEF TypeOK
  <1>2. PICK n \in Nodes \cup {None}, s \in {"none", "row", "status", "mempool"},
             l \in 0 .. MAX_FETCH_DELAY, e \in Urls \cup {None} :
             update[c] = [node |-> n, step |-> s, left |-> l, url |-> e]
    BY <1>1 DEF Update
  <1>3. u \in Update
    <2>1. u = [node |-> n, step |-> step, left |-> MAX_FETCH_DELAY, url |-> url]
      <3> DEFINE r1 == [node |-> n, step |-> s, left |-> l, url |-> e]
                 r2 == [node |-> n, step |-> step, left |-> l, url |-> e]
                 r3 == [node |-> n, step |-> step, left |-> MAX_FETCH_DELAY, url |-> e]
      <3>1. u = [[[update[c] EXCEPT !.step = step] EXCEPT !.left = MAX_FETCH_DELAY]
                    EXCEPT !.url = url]
        OBVIOUS
      <3>2. [r1 EXCEPT !.step = step] = r2
        OBVIOUS
      <3>3. [r2 EXCEPT !.left = MAX_FETCH_DELAY] = r3
        OBVIOUS
      <3>4. [r3 EXCEPT !.url = url]
               = [node |-> n, step |-> step, left |-> MAX_FETCH_DELAY, url |-> url]
        OBVIOUS
      <3>5. update[c] = r1
        BY <1>2
      <3> HIDE DEF u, r1, r2, r3
      <3> QED
        BY <3>1, <3>2, <3>3, <3>4, <3>5
    <2>2. [node |-> n, step |-> step, left |-> MAX_FETCH_DELAY, url |-> url] \in Update
      BY Constants DEF Update
    <2> QED
      BY <2>1, <2>2
  <1>4. update' = [update EXCEPT ![c] = u]
    BY <1>1 DEF Fetch, Deadline
  <1> HIDE DEF u
  <1> QED
    BY <1>1, <1>3, <1>4

LEMMA ReadRowStep == ASSUME IInv, NEW c \in Callers, ReadRow(c) PROVE IInv'
  <1> DEFINE n == Node(c)
  <1>1. Running(c) /\ update[c].step = "row" /\ n \in Nodes /\ TypeOK
    BY DEF IInv, WellFormed, ReadRow, Running, NoUpdate
  <1>2. CASE endpoint[n] = None
    <2>1. [object[n] EXCEPT !.orphan = TRUE] \in Object
      <3>1. object[n] \in Object
        BY <1>1 DEF TypeOK
      <3> QED
        BY <3>1 DEF Object
    <2>2. /\ Finish(c, [object[n] EXCEPT !.orphan = TRUE])
          /\ UNCHANGED <<rowVars, faults>> /\ lastFetch' \in [Nodes -> 0 .. Spaced]
      BY <1>1, <1>2 DEF ReadRow, TypeOK
    <2> QED
      BY <1>1, <2>1, <2>2, FinishStep
  <1>3. CASE endpoint[n] # None
    <2>1. /\ Fetch(c, "status", endpoint[n])
          /\ lastFetch' = [lastFetch EXCEPT ![n] = 0]
          /\ UNCHANGED <<rowVars, faults, cached, object, pending, waiting, boot>>
      BY <1>3 DEF ReadRow, Target
    <2>2. TypeOK'
      <3>1. endpoint[n] \in Urls \cup {None}
        BY <1>1 DEF TypeOK
      <3>2. update' \in [Callers -> Update]
        BY <1>1, <2>1, <3>1, FetchTyped
      <3>3. lastFetch' \in [Nodes -> 0 .. Spaced]
        BY <1>1, <2>1, Constants DEF TypeOK
      <3> QED
        BY <1>1, <2>1, <3>2, <3>3 DEF TypeOK, rowVars
    <2> QED
      BY <1>1, <2>1, <2>2, FetchKeeps
  <1> QED
    BY <1>2, <1>3

LEMMA StatusStep == ASSUME IInv, NEW c \in Callers, StatusArrives(c) PROVE IInv'
  <1>1. /\ Running(c) /\ update[c].step = "status" /\ Node(c) \in Nodes /\ TypeOK
        /\ UNCHANGED <<rowVars, lastFetch, faults>>
    BY DEF IInv, WellFormed, StatusArrives, Running, NoUpdate
  <1>2. CASE \E status \in {"Down", "Bad"} : Finish(c, Failed(c, status))
    <2>1. PICK status \in {"Down", "Bad"} : Finish(c, Failed(c, status))
      BY <1>2
    <2>2. Failed(c, status) \in Object /\ lastFetch' \in [Nodes -> 0 .. Spaced]
      BY <1>1, FailedTyped DEF TypeOK
    <2> QED
      BY <1>1, <2>1, <2>2, FinishStep
  <1>3. CASE /\ object' = [object EXCEPT ![Node(c)] = [Failed(c, "Ok") EXCEPT !.info = 0]]
             /\ Fetch(c, "mempool", update[c].url)
             /\ UNCHANGED <<cached, pending, waiting, boot>>
    <2>1. [Failed(c, "Ok") EXCEPT !.info = 0] \in Object
      <3>1. Failed(c, "Ok") \in Object
        BY <1>1, FailedTyped
      <3> QED
        BY <3>1, Constants DEF Object
    <2>2. object' \in [Nodes -> Object]
      BY <1>1, <1>3, <2>1 DEF TypeOK
    <2>3. update' \in [Callers -> Update]
      <3>1. update[c].url \in Urls \cup {None}
        BY <1>1 DEF TypeOK, Update
      <3> QED
        BY <1>1, <1>3, <3>1, FetchTyped
    <2>4. TypeOK'
      BY <1>1, <1>3, <2>2, <2>3 DEF TypeOK, rowVars
    <2> QED
      BY <1>1, <1>3, <2>4, FetchKeeps
  <1> QED
    BY <1>2, <1>3 DEF StatusArrives

LEMMA MempoolStep == ASSUME IInv, NEW c \in Callers, MempoolArrives(c) PROVE IInv'
  <1>1. Running(c) /\ object[Node(c)] \in Object /\ lastFetch' \in [Nodes -> 0 .. Spaced]
        /\ Finish(c, object[Node(c)]) /\ UNCHANGED <<rowVars, faults>>
    BY DEF IInv, TypeOK, WellFormed, MempoolArrives, Running, NoUpdate
  <1> QED
    BY <1>1, FinishStep

LEMMA ThrowStep == ASSUME IInv, NEW c \in Callers, FetchThrows(c) PROVE IInv'
  <1>1. Running(c) /\ lastFetch' \in [Nodes -> 0 .. Spaced]
        /\ Finish(c, Failed(c, "Down")) /\ UNCHANGED <<rowVars, faults>>
    BY DEF IInv, TypeOK, FetchThrows, Thrown, Running, NoUpdate
  <1>2. Failed(c, "Down") \in Object
    BY <1>1, FailedTyped
  <1> QED
    BY <1>1, <1>2, FinishStep

-----------------------------------------------------------------------------
(* The transactions, the faults and time *)

LEMMA SameUpdates ==
    ASSUME IInv, TypeOK', UNCHANGED <<update, pending, waiting, boot>>
    PROVE  IInv'
  <1>1. \A c \in Callers : WellFormed(c)'
    BY DEF IInv, WellFormed, Running, Node
  <1>2. BootAlone' /\ (boot' = {} => Matched')
    BY DEF IInv, BootAlone, Matched, Running, Node
  <1>3. \A w \in Callers : WaitsFor(w)'
    BY DEF IInv, WaitsFor, Running, Spent
  <1> QED
    BY <1>1, <1>2, <1>3 DEF IInv

LEMMA ChangesTyped ==
    ASSUME TypeOK, NEW rows \in [Nodes -> Urls \cup {None}], Changes(rows)
    PROVE  endpoint' \in [Nodes -> Urls \cup {None}] /\ changed' \in [Nodes -> Ages]
  BY Constants DEF TypeOK, Changes

LEMMA TransactionStep ==
    ASSUME IInv, (\E n \in Nodes, url \in Urls : SaveNode(n, url)) \/ EndTransaction
    PROVE  IInv'
  <1>1. TypeOK
    BY DEF IInv
  <1>2. CASE \E n \in Nodes, url \in Urls : SaveNode(n, url)
    <2>1. PICK n \in Nodes, url \in Urls : SaveNode(n, url)
      BY <1>2
    <2>2. [endpoint EXCEPT ![n] = url] \in [Nodes -> Urls \cup {None}]
      BY <1>1 DEF TypeOK
    <2>3. TypeOK'
      BY <1>1, <2>1, <2>2, ChangesTyped DEF SaveNode, TypeOK
    <2> QED
      BY <2>1, <2>3, SameUpdates DEF SaveNode
  <1>3. CASE EndTransaction
    <2>1. saved \in [Nodes -> Urls \cup {None}]
      BY <1>1 DEF TypeOK
    <2>2. /\ endpoint' \in [Nodes -> Urls \cup {None}] /\ changed' \in [Nodes -> Ages]
          /\ saved' \in [Nodes -> Urls \cup {None}]
      BY <1>1, <1>3, <2>1, ChangesTyped DEF EndTransaction, TypeOK
    <2>3. TypeOK'
      BY <1>1, <1>3, <2>2 DEF EndTransaction, TypeOK
    <2> QED
      BY <1>3, <2>3, SameUpdates DEF EndTransaction
  <1> QED
    BY <1>2, <1>3

LEMMA QueryFailsStep == ASSUME IInv, NEW c \in Callers, QueryFails(c) PROVE IInv'
  <1>1. /\ TypeOK /\ Running(c) /\ Node(c) \in Nodes /\ boot = {} /\ boot' = boot \ {Node(c)}
        /\ Settle(c)
    BY DEF IInv, WellFormed, QueryFails, Running, NoUpdate
  <1>2. /\ update' \in [Callers -> Update] /\ pending' \in [Nodes -> Callers \cup {None}]
        /\ waiting' \in [Callers -> [on : Callers \cup {None}, age : Ages]]
    BY <1>1, Constants DEF Settle, Forget, TypeOK
  <1>3. /\ endpoint' \in [Nodes -> Urls \cup {None}] /\ changed' \in [Nodes -> Ages]
        /\ tx' \in Nodes \cup {None}
    <2>1. saved \in [Nodes -> Urls \cup {None}]
      BY <1>1 DEF TypeOK
    <2> QED
      BY <1>1, <2>1, ChangesTyped DEF QueryFails, TypeOK
  <1>4. faults' \in 0 .. MaxFaults
    BY <1>1, Constants DEF QueryFails, TypeOK
  <1>5. TypeOK'
    BY <1>1, <1>2, <1>3, <1>4 DEF QueryFails, TypeOK
  <1> QED
    BY <1>1, <1>5, EndKeeps

LEMMA ProcessEndsStep == ASSUME IInv, ProcessEnds PROVE IInv'
  <1>1. TypeOK
    BY DEF IInv
  <1>2. /\ endpoint' \in [Nodes -> Urls \cup {None}] /\ changed' \in [Nodes -> Ages]
        /\ saved' \in [Nodes -> Urls \cup {None}]
    <2>1. saved \in [Nodes -> Urls \cup {None}]
      BY <1>1 DEF TypeOK
    <2> QED
      BY <1>1, <2>1, ChangesTyped DEF ProcessEnds
  <1>3. faults' \in 0 .. MaxFaults
    BY <1>1, Constants DEF ProcessEnds, TypeOK
  <1>4. TypeOK'
    BY <1>2, <1>3, Constants DEF ProcessEnds, Empty, TypeOK
  <1>5. \A c \in Callers : ~Running(c)' /\ waiting'[c] = NotWaiting
    BY DEF ProcessEnds, Empty, Running
  <1>6. \A n \in Nodes : pending'[n] = None
    BY DEF ProcessEnds, Empty
  <1> QED
    BY <1>4, <1>5, <1>6, Constants DEF IInv, WellFormed, BootAlone, Matched, WaitsFor

LEMMA TickStep == ASSUME IInv, Tick PROVE IInv'
  <1>1. TypeOK
    BY DEF IInv
  <1>2. ASSUME NEW c \in Callers, Running(c)
        PROVE  /\ update'[c] = [update[c] EXCEPT !.left = @ - 1]
               /\ update'[c].step = update[c].step /\ update'[c].node = update[c].node
               /\ update'[c].left = update[c].left - 1
               /\ update[c].left \in 1 .. MAX_FETCH_DELAY
               /\ update[c].step \in {"status", "mempool"}
               /\ update'[c] \in Update /\ Running(c)'
    <2>1. update[c] \in Update /\ update[c].left > 0 /\ WellFormed(c)
      BY <1>1, <1>2 DEF IInv, TypeOK, Tick
    <2>2. update'[c] = [update[c] EXCEPT !.left = @ - 1]
      BY <1>2 DEF Tick
    <2>3. /\ update[c].left \in 1 .. MAX_FETCH_DELAY
          /\ update[c].left - 1 \in 0 .. MAX_FETCH_DELAY
      BY <2>1, Constants DEF Update
    <2>4. update[c].step \in {"status", "mempool"}
      BY <1>2, <2>1 DEF WellFormed, Steps
    <2>5. /\ update'[c].step = update[c].step /\ update'[c].node = update[c].node
          /\ update'[c].left = update[c].left - 1 /\ update'[c] \in Update
      BY <2>1, <2>2, <2>3 DEF Update
    <2> QED
      BY <2>2, <2>3, <2>4, <2>5 DEF Running, NoUpdate
  <1>3. ASSUME NEW c \in Callers, ~Running(c)
        PROVE  update'[c] = NoUpdate
    BY <1>3 DEF Tick
  <1>4. \A c \in Callers : /\ Running(c)' = Running(c)
                           /\ Running(c) => Node(c)' = Node(c)
    BY <1>2, <1>3 DEF Running, Node
  <1>5. ASSUME NEW w \in Callers
        PROVE  /\ waiting'[w] \in [on : Callers \cup {None}, age : Ages]
               /\ waiting[w] = NotWaiting => waiting'[w] = NotWaiting
               /\ waiting[w] # NotWaiting => /\ waiting'[w].on = waiting[w].on
                                             /\ waiting'[w].age <= waiting[w].age + 1
    <2>1. CASE waiting[w] = NotWaiting
      BY <2>1, Constants DEF Tick
    <2>2. CASE waiting[w] # NotWaiting
      <3>1. waiting[w] \in [on : Callers \cup {None}, age : Ages]
        BY <1>1 DEF TypeOK
      <3>2. waiting'[w] = [waiting[w] EXCEPT !.age = Older(@)]
        BY <2>2 DEF Tick
      <3>3. Older(waiting[w].age) \in Ages /\ Older(waiting[w].age) <= waiting[w].age + 1
        BY <3>1, OlderTyped
      <3> QED
        BY <2>2, <3>1, <3>2, <3>3
    <2> QED
      BY <2>1, <2>2
  <1>6. TypeOK'
    <2>1. update' \in [Callers -> Update]
      BY <1>2, <1>3, Constants DEF Tick
    <2>2. waiting' \in [Callers -> [on : Callers \cup {None}, age : Ages]]
      BY <1>5 DEF Tick
    <2>3. object' \in [Nodes -> Object]
      <3>1. ASSUME NEW n \in Nodes
            PROVE  [object[n] EXCEPT !.info = Older(@), !.stamp = Older(@)] \in Object
        <4>1. object[n] \in Object
          BY <1>1 DEF TypeOK
        <4>2. Older(object[n].info) \in Ages /\ Older(object[n].stamp) \in Ages
          BY <4>1, OlderTyped DEF Object
        <4> QED
          BY <4>1, <4>2 DEF Object
      <3> QED
        BY <3>1 DEF Tick
    <2>4. changed' \in [Nodes -> Ages]
      BY <1>1, OlderTyped DEF Tick, TypeOK
    <2>5. lastFetch' \in [Nodes -> 0 .. Spaced]
      <3>1. lastFetch \in [Nodes -> 0 .. Spaced]
        BY <1>1 DEF TypeOK
      <3>2. ASSUME NEW k \in 0 .. Spaced
            PROVE  (IF k < Spaced THEN k + 1 ELSE Spaced) \in 0 .. Spaced
        <4>1. Spaced \in Nat
          BY Constants
        <4> QED
          BY <4>1
      <3> QED
        BY <3>1, <3>2 DEF Tick
    <2> QED
      BY <1>1, <2>1, <2>2, <2>3, <2>4, <2>5 DEF Tick, TypeOK
  <1>7. \A c \in Callers : WellFormed(c)'
    BY <1>2, <1>4 DEF IInv, WellFormed, Steps
  <1>8. BootAlone'
    BY <1>4, <1>5 DEF IInv, BootAlone, Tick
  <1>9. boot' = {} => Matched'
    BY <1>4 DEF IInv, Matched, Tick
  <1>10. ASSUME NEW w \in Callers
         PROVE  WaitsFor(w)'
    <2> SUFFICES ASSUME waiting[w] # NotWaiting PROVE WaitsFor(w)'
      BY <1>5 DEF WaitsFor
    <2> DEFINE c == waiting[w].on
    <2>1. c \in Callers /\ Running(c) /\ waiting[w].age <= Spent(c)
      BY DEF IInv, WaitsFor
    <2>2. waiting'[w].on = c /\ waiting'[w].age <= waiting[w].age + 1
      BY <1>5
    <2>3. waiting[w].age \in Nat /\ waiting'[w].age \in Nat
      BY <1>1, <1>5, Constants DEF TypeOK, Ages
    <2>4. Spent(waiting[w].on)' = Spent(c) + 1
      <3>1. /\ update'[c].step = update[c].step /\ update'[c].left = update[c].left - 1
            /\ update[c].left \in 1 .. MAX_FETCH_DELAY
            /\ update[c].step \in {"status", "mempool"}
        BY <1>2, <2>1
      <3> QED
        BY <2>2, <3>1, Constants DEF Spent
    <2>5. Spent(c) \in 0 .. 2 * MAX_FETCH_DELAY
      BY <1>1, <2>1, SpentBounded DEF IInv
    <2>6. waiting'[w].age <= Spent(waiting[w].on)'
      BY <2>1, <2>2, <2>3, <2>4, <2>5, Constants
    <2> QED
      BY <1>4, <2>1, <2>2, <2>6 DEF WaitsFor, Running
  <1> QED
    BY <1>6, <1>7, <1>8, <1>9, <1>10 DEF IInv

-----------------------------------------------------------------------------

LEMMA StepKeeps == IInv /\ [Next]_vars => IInv'
  <1> SUFFICES ASSUME IInv, [Next]_vars PROVE IInv'
    OBVIOUS
  <1>1. ASSUME NEW c \in Callers, Advance(c) PROVE IInv'
    BY <1>1, ReadRowStep, StatusStep, MempoolStep, ThrowStep DEF Advance
  <1>2. ASSUME NEW c \in Callers, QueryFails(c) PROVE IInv'
    BY <1>2, QueryFailsStep
  <1>3. ASSUME NEW c \in Handlers, NEW n \in Nodes, Request(c, n) PROVE IInv'
    BY <1>3, RequestStep DEF Callers
  <1>4. ASSUME NEW n \in Nodes, BootUpdate(n) PROVE IInv'
    BY <1>4, BootStep
  <1>5. CASE (\E n \in Nodes, url \in Urls : SaveNode(n, url)) \/ EndTransaction
    BY <1>5, TransactionStep
  <1>6. CASE AskStatus
    BY <1>6, RequestStep, Constants DEF AskStatus, IInv, TypeOK
  <1>7. CASE ProcessEnds
    BY <1>7, ProcessEndsStep
  <1>8. CASE Tick
    BY <1>8, TickStep
  <1>9. CASE UNCHANGED vars
    BY <1>9, SameUpdates DEF vars, rowVars, IInv, TypeOK
  <1> QED
    BY <1>1, <1>2, <1>3, <1>4, <1>5, <1>6, <1>7, <1>8, <1>9 DEF Next

LEMMA Invariance == Spec => []IInv
  BY InitHolds, StepKeeps, PTL DEF Spec

\* Every variable has its type.
THEOREM Types == Spec => []TypeOK
  <1>1. IInv => TypeOK
    BY DEF IInv
  <1> QED
    BY <1>1, Invariance, PTL

\* Once the server listens, pendingUpdates holds exactly the updates that run, and
\* whoever waits does so for one of them: no update is doubled, none is awaited
\* after its end.
THEOREM SharedUpdates == Spec => []PendingIsRunning
  <1>1. IInv => PendingIsRunning
    BY Implies DEF Promised
  <1> QED
    BY <1>1, Invariance, PTL

\* No request, and no transaction of a block, waits longer than two timeouts.
THEOREM BoundedWait == Spec => []WaitsBounded
  <1>1. IInv => WaitsBounded
    BY Implies DEF Promised
  <1> QED
    BY <1>1, Invariance, PTL

-----------------------------------------------------------------------------
(***************************************************************************)
(* What a cached status is worth: how recent and about which endpoint it   *)
(* is, and how often an endpoint is asked, for any nodes, requests and     *)
(* delays.                                                                 *)
(***************************************************************************)

(* The inductive invariant, beside IInv *)

Fetching(c) == update[c].step \in {"status", "mempool"}

\* The cached object of node n, also while an update fills it.
Honest(n) ==
    (object[n].status = "Ok" /\ ~object[n].orphan /\ object[n].stamp < Cap)
        => object[n].info <= object[n].stamp + MAX_FETCH_DELAY
Follows(n) ==
    (/\ endpoint[n] # None /\ ~object[n].orphan
     /\ changed[n] > object[n].stamp + 2 * MAX_FETCH_DELAY) => object[n].url = endpoint[n]

\* The last fetch is not more recent than the timestamp, unless it still runs.
Rested(n) ==
    \/ object[n].stamp = Cap
    \/ object[n].stamp <= lastFetch[n]
    \/ lastFetch[n] = Spaced
    \/ \E c \in Callers : Running(c) /\ Fetching(c) /\ Node(c) = n

\* An update began because the status was old; the endpoint it asks is the declared
\* one unless that changed since; the answer it has is as old as the second fetch.
CallOK(c) ==
    Running(c) =>
        LET n == Node(c) IN
        /\ update[c].step = "row" => object[n].stamp > MIN_REFRESH_DELAY
        /\ Fetching(c) => changed[n] <= Spent(c) \/ update[c].url = endpoint[n]
        /\ update[c].step = "mempool" =>
              /\ object[n].status = "Ok" /\ ~object[n].orphan
              /\ object[n].url = update[c].url
              /\ object[n].info <= MAX_FETCH_DELAY - update[c].left

AnswersInv ==
    /\ boot # {} => \A n \in Nodes : object[n].stamp = Cap
    /\ \A n \in Nodes : Honest(n) /\ Follows(n) /\ Rested(n)
    /\ \A c \in Callers : CallOK(c)

-----------------------------------------------------------------------------
(* Types, and one update per node *)

LEMMA NodeTyped ==
    ASSUME TypeOK, NEW n \in Nodes
    PROVE  /\ object[n] \in Object /\ object[n].stamp \in Nat /\ object[n].info \in Nat
           /\ object[n].stamp <= Cap /\ object[n].info <= Cap
           /\ changed[n] \in Nat /\ changed[n] <= Cap /\ lastFetch[n] \in 0 .. Spaced
           /\ endpoint[n] \in Urls \cup {None}
           /\ MIN_REFRESH_DELAY \in Nat /\ MAX_FETCH_DELAY \in Nat \ {0}
           /\ Cap = MIN_REFRESH_DELAY + 2 * MAX_FETCH_DELAY + 1
           /\ Spaced = MIN_REFRESH_DELAY + 1
  BY Constants DEF TypeOK, Object, Ages, Cap, Spaced

LEMMA CallTyped ==
    ASSUME IInv, NEW c \in Callers, Running(c)
    PROVE  /\ Node(c) \in Nodes /\ update[c].step \in Steps
           /\ update[c].left \in 0 .. MAX_FETCH_DELAY
           /\ Spent(c) \in 0 .. 2 * MAX_FETCH_DELAY
  <1>1. TypeOK /\ WellFormed(c)
    BY DEF IInv
  <1> QED
    BY <1>1, SpentBounded DEF WellFormed, TypeOK, Update

LEMMA OneUpdate ==
    ASSUME IInv, NEW c \in Callers, NEW d \in Callers, Running(c), Running(d), Node(c) = Node(d)
    PROVE  c = d
  <1>1. Node(c) \in Nodes
    BY CallTyped
  <1>2. CASE boot = {}
    BY <1>1, <1>2 DEF IInv, Matched
  <1>3. CASE boot # {}
    BY <1>3 DEF IInv, BootAlone
  <1> QED
    BY <1>2, <1>3

LEMMA AnswersInit == Init => AnswersInv
  <1> SUFFICES ASSUME Init PROVE AnswersInv
    OBVIOUS
  <1>1. \A n \in Nodes : object[n] = Blank
    BY DEF Init
  <1>2. \A n \in Nodes : changed[n] = Cap /\ lastFetch[n] = Spaced
    BY DEF Init
  <1>3. \A c \in Callers : ~Running(c)
    BY DEF Init, Running
  <1> QED
    BY <1>1, <1>2, <1>3, NodeStatusAssumption
    DEF AnswersInv, Honest, Follows, Rested, CallOK, Blank, Cap

-----------------------------------------------------------------------------
(* The end, the progress and the start of an update *)

\* The update of c ends with an object that is honest of its answer.
LEMMA FinishAnswers ==
    ASSUME IInv, AnswersInv, NEW c \in Callers, Running(c), NEW o \in Object, Finish(c, o),
           UNCHANGED <<endpoint, changed, lastFetch>>,
           o.stamp = object[Node(c)].stamp,
           (o.status = "Ok" /\ ~o.orphan) => o.info <= MAX_FETCH_DELAY,
           (endpoint[Node(c)] # None /\ ~o.orphan /\ changed[Node(c)] > 2 * MAX_FETCH_DELAY)
               => o.url = endpoint[Node(c)]
    PROVE  AnswersInv'
  <1> DEFINE n == Node(c)
             new == IF boot = {} THEN [o EXCEPT !.stamp = 0] ELSE o
  <1>1. TypeOK /\ n \in Nodes
    BY CallTyped DEF IInv
  <1>2. /\ object'[n] = new
        /\ \A m \in Nodes : m # n => object'[m] = object[m]
        /\ boot' = boot \ {n}
    BY <1>1 DEF Finish, TypeOK
  <1>3. /\ new.status = o.status /\ new.orphan = o.orphan /\ new.info = o.info /\ new.url = o.url
        /\ new.stamp = IF boot = {} THEN 0 ELSE Cap
    BY <1>1 DEF Object, AnswersInv
  <1> HIDE DEF new
  <1>4. ~Running(c)' /\ \A d \in Callers : d # c => update'[d] = update[d]
    BY <1>1 DEF Finish, Settle, Running, TypeOK
  <1>5. boot' # {} => \A m \in Nodes : object'[m].stamp = Cap
    BY <1>2, <1>3 DEF AnswersInv
  <1>6. ASSUME NEW m \in Nodes
        PROVE  Honest(m)' /\ Follows(m)' /\ Rested(m)'
    <2>1. CASE m = n
      <3>1. changed[n] <= Cap /\ changed[n] \in Nat /\ Cap \in Nat /\ MAX_FETCH_DELAY \in Nat
            /\ lastFetch[n] \in 0 .. Spaced
        BY <1>1, NodeTyped, Constants
      <3>2. Honest(m)'
        BY <2>1, <3>1, <1>2, <1>3 DEF Honest
      <3>3. Follows(m)'
        BY <2>1, <3>1, <1>2, <1>3 DEF Follows
      <3>4. Rested(m)'
        BY <2>1, <3>1, <1>2, <1>3 DEF Rested
      <3> QED
        BY <3>2, <3>3, <3>4
    <2>2. CASE m # n
      <3>1. object'[m] = object[m]
        BY <1>2, <2>2
      <3>2. Honest(m)' /\ Follows(m)'
        BY <3>1 DEF AnswersInv, Honest, Follows
      <3>3. ASSUME NEW d \in Callers, Running(d), Fetching(d), Node(d) = m
            PROVE  Running(d)' /\ Fetching(d)' /\ Node(d)' = m
        BY <3>3, <2>2, <1>4 DEF Running, Fetching, Node
      <3>4. Rested(m)'
        BY <3>1, <3>3 DEF AnswersInv, Rested
      <3> QED
        BY <3>2, <3>4
    <2> QED
      BY <2>1, <2>2
  <1>7. ASSUME NEW d \in Callers, Running(d)'
        PROVE  CallOK(d)'
    <2>1. d # c /\ update'[d] = update[d] /\ Running(d)
      BY <1>4, <1>7 DEF Running
    <2>2. Node(d) \in Nodes /\ Node(d) # n
      BY <2>1, OneUpdate, CallTyped
    <2>3. object'[Node(d)] = object[Node(d)]
      BY <1>2, <2>2
    <2> QED
      BY <2>1, <2>3 DEF AnswersInv, CallOK, Running, Fetching, Node, Spent
  <1> QED
    BY <1>5, <1>6, <1>7 DEF AnswersInv, CallOK

LEMMA StartAnswers ==
    ASSUME IInv, AnswersInv, NEW c \in Callers, NEW n \in Nodes, ~Running(c), StartUpdate(c, n),
           UNCHANGED <<endpoint, changed, lastFetch, boot>>,
           \A d \in Callers : Running(d) => Node(d) # n,
           n \in cached => object[n].stamp > MIN_REFRESH_DELAY
    PROVE  AnswersInv'
  <1>1. TypeOK
    BY DEF IInv
  <1>2. /\ \A m \in Nodes : m # n => object'[m] = object[m]
        /\ n \in cached => object'[n] = object[n]
        /\ n \notin cached => object'[n] = Blank
    BY <1>1 DEF StartUpdate, TypeOK
  <1>3. /\ update'[c].step = "row" /\ update'[c].node = n
        /\ \A d \in Callers : d # c => update'[d] = update[d]
    BY <1>1 DEF StartUpdate, TypeOK
  <1>4. /\ MIN_REFRESH_DELAY \in Nat /\ MAX_FETCH_DELAY \in Nat
        /\ Cap = MIN_REFRESH_DELAY + 2 * MAX_FETCH_DELAY + 1
    BY Constants DEF Cap
  <1>5. Blank.stamp = Cap
    BY DEF Blank
  <1>6. boot' # {} => \A m \in Nodes : object'[m].stamp = Cap
    BY <1>2, <1>5 DEF AnswersInv
  <1>7. ASSUME NEW m \in Nodes
        PROVE  Honest(m)' /\ Follows(m)' /\ Rested(m)'
    <2>1. CASE object'[m] = object[m]
      <3>1. Honest(m)' /\ Follows(m)'
        BY <2>1 DEF AnswersInv, Honest, Follows
      <3>2. ASSUME NEW d \in Callers, Running(d), Fetching(d), Node(d) = m
            PROVE  Running(d)' /\ Fetching(d)' /\ Node(d)' = m
        BY <3>2, <1>3 DEF Running, Fetching, Node
      <3>3. Rested(m)'
        BY <2>1, <3>2 DEF AnswersInv, Rested
      <3> QED
        BY <3>1, <3>3
    <2>2. CASE object'[m].stamp = Cap
      <3>1. changed[m] \in Nat /\ changed[m] <= Cap
        BY <1>1, NodeTyped
      <3> QED
        BY <2>2, <3>1, <1>4 DEF Honest, Follows, Rested
    <2> QED
      BY <2>1, <2>2, <1>2, <1>5
  <1>8. ASSUME NEW d \in Callers, Running(d)'
        PROVE  CallOK(d)'
    <2>1. CASE d = c
      <3>1. object'[n].stamp > MIN_REFRESH_DELAY
        BY <1>2, <1>4, <1>5
      <3> QED
        BY <2>1, <3>1, <1>3 DEF CallOK, Fetching, Node
    <2>2. CASE d # c
      <3>1. update'[d] = update[d] /\ Running(d)
        BY <2>2, <1>3, <1>8 DEF Running
      <3>2. object'[Node(d)] = object[Node(d)]
        BY <3>1, <1>2, CallTyped
      <3> QED
        BY <3>1, <3>2 DEF AnswersInv, CallOK, Running, Fetching, Node, Spent
    <2> QED
      BY <2>1, <2>2
  <1> QED
    BY <1>6, <1>7, <1>8 DEF AnswersInv, CallOK
\* A fetch of the update of c begins; its object may change on the way.
LEMMA FetchAnswers ==
    ASSUME IInv, AnswersInv, NEW c \in Callers, Running(c), NEW n \in Nodes, n = Node(c),
           NEW step \in {"status", "mempool"}, NEW url, Fetch(c, step, url),
           UNCHANGED <<endpoint, changed, boot>>,
           object'[n].stamp = object[n].stamp,
           \A m \in Nodes : m # n => object'[m] = object[m] /\ lastFetch'[m] = lastFetch[m],
           Honest(n)', Follows(n)',
           changed[n] <= Spent(c)' \/ url = endpoint[n],
           step = "mempool" =>
              /\ object'[n].status = "Ok" /\ ~object'[n].orphan
              /\ object'[n].url = url /\ object'[n].info <= 0
    PROVE  AnswersInv'
  <1>1. update \in [Callers -> Update] /\ n \in Nodes /\ MAX_FETCH_DELAY \in Nat
    BY CallTyped, Constants DEF IInv, TypeOK
  <1>2. /\ update'[c].step = step /\ update'[c].left = MAX_FETCH_DELAY
        /\ update'[c].url = url /\ update'[c].node = update[c].node
        /\ \A d \in Callers : d # c => update'[d] = update[d]
    BY <1>1 DEF Fetch, Deadline, Update
  <1>3. Running(c)' /\ Fetching(c)' /\ Node(c)' = n
    BY <1>2 DEF Running, Fetching, Node, NoUpdate
  <1>4. boot' # {} => \A m \in Nodes : object'[m].stamp = Cap
    BY DEF AnswersInv
  <1>5. ASSUME NEW m \in Nodes
        PROVE  Honest(m)' /\ Follows(m)' /\ Rested(m)'
    <2>1. CASE m = n
      BY <2>1, <1>3 DEF Rested
    <2>2. CASE m # n
      <3>1. object'[m] = object[m] /\ lastFetch'[m] = lastFetch[m]
        BY <2>2
      <3>2. Honest(m)' /\ Follows(m)'
        BY <3>1 DEF AnswersInv, Honest, Follows
      <3>3. ASSUME NEW d \in Callers, Running(d), Fetching(d), Node(d) = m
            PROVE  Running(d)' /\ Fetching(d)' /\ Node(d)' = m
        BY <3>3, <2>2, <1>2 DEF Running, Fetching, Node
      <3>4. Rested(m)'
        BY <3>1, <3>3 DEF AnswersInv, Rested
      <3> QED
        BY <3>2, <3>4
    <2> QED
      BY <2>1, <2>2
  <1>6. ASSUME NEW d \in Callers, Running(d)'
        PROVE  CallOK(d)'
    <2>1. CASE d = c
      <3>1. step # "row" /\ MAX_FETCH_DELAY - MAX_FETCH_DELAY = 0
        BY <1>1
      <3> QED
        BY <2>1, <3>1, <1>2, <1>3 DEF CallOK
    <2>2. CASE d # c
      <3>1. update'[d] = update[d] /\ Running(d)
        BY <2>2, <1>2, <1>6 DEF Running
      <3>2. Node(d) \in Nodes /\ Node(d) # n
        BY <2>2, <3>1, OneUpdate, CallTyped
      <3>3. object'[Node(d)] = object[Node(d)]
        BY <3>2
      <3> QED
        BY <3>1, <3>3 DEF AnswersInv, CallOK, Running, Fetching, Node, Spent
    <2> QED
      BY <2>1, <2>2
  <1> QED
    BY <1>4, <1>5, <1>6 DEF AnswersInv, CallOK

-----------------------------------------------------------------------------
(* The steps of an update *)

LEMMA FailedObject ==
    ASSUME IInv, NEW c \in Callers, Running(c), NEW status \in {"Ok", "Down", "Bad"}
    PROVE  /\ Failed(c, status) \in Object
           /\ Failed(c, status).status = status /\ Failed(c, status).orphan = FALSE
           /\ Failed(c, status).url = update[c].url
           /\ Failed(c, status).stamp = object[Node(c)].stamp
  <1>1. object[Node(c)] \in Object
    BY CallTyped DEF IInv, TypeOK
  <1> QED
    BY <1>1, FailedTyped DEF Failed, Object

LEMMA ReadRowAnswers == ASSUME IInv, AnswersInv, NEW c \in Callers, ReadRow(c) PROVE AnswersInv'
  <1>0. Running(c)
    BY DEF ReadRow, Running, NoUpdate
  <1> PICK n \in Nodes : n = Node(c)
    BY <1>0, CallTyped
  <1>1. Running(c) /\ TypeOK /\ object[n] \in Object /\ UNCHANGED <<endpoint, changed>>
    BY <1>0 DEF IInv, TypeOK, ReadRow, rowVars
  <1>2. CASE endpoint[n] = None
    <2> DEFINE o == [object[n] EXCEPT !.orphan = TRUE]
    <2>1. o \in Object /\ o.orphan /\ o.stamp = object[n].stamp
      BY <1>1 DEF Object
    <2>2. Finish(c, o) /\ UNCHANGED lastFetch
      BY <1>2 DEF ReadRow
    <2> HIDE DEF o
    <2> QED
      BY <1>1, <2>1, <2>2, FinishAnswers
  <1>3. CASE endpoint[n] # None
    <2>1. /\ Fetch(c, "status", endpoint[n])
          /\ lastFetch' = [lastFetch EXCEPT ![n] = 0]
          /\ UNCHANGED <<object, boot>>
      BY <1>3 DEF ReadRow, Target
    <2>2. \A m \in Nodes : m # n => lastFetch'[m] = lastFetch[m]
      BY <1>1, <2>1 DEF TypeOK
    <2>3. Honest(n)' /\ Follows(n)'
      BY <1>1, <2>1 DEF AnswersInv, Honest, Follows
    <2> QED
      BY <1>1, <2>1, <2>2, <2>3, FetchAnswers
  <1> QED
    BY <1>2, <1>3

\* An update in its fetches that ends with a status that is not Ok.
LEMMA FailedAnswers ==
    ASSUME IInv, AnswersInv, NEW c \in Callers, Running(c), Fetching(c),
           NEW status \in {"Down", "Bad"}, Finish(c, Failed(c, status)),
           UNCHANGED <<endpoint, changed, lastFetch>>
    PROVE  AnswersInv'
  <1>1. /\ Failed(c, status) \in Object
        /\ Failed(c, status).status = status
        /\ Failed(c, status).url = update[c].url
        /\ Failed(c, status).stamp = object[Node(c)].stamp
    BY FailedObject
  <1>2. changed[Node(c)] <= Spent(c) \/ update[c].url = endpoint[Node(c)]
    BY DEF AnswersInv, CallOK
  <1>3. Spent(c) \in 0 .. 2 * MAX_FETCH_DELAY /\ MAX_FETCH_DELAY \in Nat /\ changed[Node(c)] \in Nat
    BY CallTyped, NodeTyped, Constants DEF IInv
  <1>4. changed[Node(c)] > 2 * MAX_FETCH_DELAY => update[c].url = endpoint[Node(c)]
    BY <1>2, <1>3
  <1>5. status # "Ok"
    OBVIOUS
  <1> QED
    BY <1>1, <1>4, <1>5, FinishAnswers

LEMMA StatusAnswers == ASSUME IInv, AnswersInv, NEW c \in Callers, StatusArrives(c) PROVE AnswersInv'
  <1>1. Running(c) /\ Fetching(c) /\ update[c].step = "status"
        /\ UNCHANGED <<endpoint, changed, lastFetch>>
    BY DEF StatusArrives, Running, Fetching, NoUpdate, rowVars
  <1> PICK n \in Nodes : n = Node(c)
    BY <1>1, CallTyped
  <1>2. CASE \E status \in {"Down", "Bad"} : Finish(c, Failed(c, status))
    BY <1>1, <1>2, FailedAnswers
  <1>3. CASE /\ object' = [object EXCEPT ![n] = [Failed(c, "Ok") EXCEPT !.info = 0]]
             /\ Fetch(c, "mempool", update[c].url)
             /\ UNCHANGED <<cached, pending, waiting, boot>>
    <2>1. TypeOK
      BY DEF IInv
    <2>2. /\ object'[n].status = "Ok" /\ ~object'[n].orphan /\ object'[n].info = 0
          /\ object'[n].url = update[c].url /\ object'[n].stamp = object[n].stamp
      BY <1>1, <1>3, <2>1, FailedObject DEF Object, TypeOK
    <2>3. \A m \in Nodes : m # n => object'[m] = object[m]
      BY <1>3, <2>1 DEF TypeOK
    <2>4. /\ update[c].left \in 0 .. MAX_FETCH_DELAY /\ MAX_FETCH_DELAY \in Nat
          /\ changed[n] \in Nat /\ object[n].stamp \in Nat
      BY <1>1, <2>1, CallTyped, NodeTyped, Constants
    <2>5. Spent(c) = MAX_FETCH_DELAY - update[c].left
      BY <1>1 DEF Spent
    <2>6. Spent(c)' = 2 * MAX_FETCH_DELAY - MAX_FETCH_DELAY
      <3>1. update'[c].step = "mempool" /\ update'[c].left = MAX_FETCH_DELAY
        BY <1>3, <2>1 DEF Fetch, Deadline, TypeOK, Update
      <3> QED
        BY <3>1 DEF Spent
    <2>7. changed[n] <= Spent(c) \/ update[c].url = endpoint[n]
      BY <1>1 DEF AnswersInv, CallOK
    <2>8. changed[n] <= Spent(c)' \/ update[c].url = endpoint[n]
      BY <2>4, <2>5, <2>6, <2>7
    <2>9. Honest(n)'
      BY <2>2, <2>4 DEF Honest
    <2>10. Follows(n)'
      BY <1>1, <2>2, <2>4, <2>5, <2>7 DEF Follows
    <2> QED
      BY <1>1, <1>3, <2>2, <2>3, <2>8, <2>9, <2>10, FetchAnswers
  <1> QED
    BY <1>2, <1>3 DEF StatusArrives

LEMMA MempoolAnswers == ASSUME IInv, AnswersInv, NEW c \in Callers, MempoolArrives(c) PROVE AnswersInv'
  <1> DEFINE n == Node(c)
  <1>1. /\ Running(c) /\ Fetching(c) /\ update[c].step = "mempool" /\ Finish(c, object[n])
        /\ UNCHANGED <<endpoint, changed, lastFetch>>
    BY DEF MempoolArrives, Running, Fetching, NoUpdate, rowVars
  <1>2. /\ object[n] \in Object /\ object[n].info \in Nat /\ changed[n] \in Nat
        /\ update[c].left \in 0 .. MAX_FETCH_DELAY /\ MAX_FETCH_DELAY \in Nat
        /\ Spent(c) \in 0 .. 2 * MAX_FETCH_DELAY
    BY <1>1, CallTyped, NodeTyped, Constants DEF IInv
  <1>3. /\ changed[n] <= Spent(c) \/ update[c].url = endpoint[n]
        /\ object[n].url = update[c].url
        /\ object[n].info <= MAX_FETCH_DELAY - update[c].left
    BY <1>1 DEF AnswersInv, CallOK
  <1>4. object[n].info <= MAX_FETCH_DELAY
    BY <1>2, <1>3
  <1>5. changed[n] > 2 * MAX_FETCH_DELAY => object[n].url = endpoint[n]
    BY <1>2, <1>3
  <1> QED
    BY <1>1, <1>2, <1>4, <1>5, FinishAnswers

LEMMA ThrowAnswers == ASSUME IInv, AnswersInv, NEW c \in Callers, FetchThrows(c) PROVE AnswersInv'
  <1>1. Running(c) /\ Fetching(c) /\ Finish(c, Failed(c, "Down"))
        /\ UNCHANGED <<endpoint, changed, lastFetch>>
    BY DEF FetchThrows, Thrown, Running, Fetching, NoUpdate, rowVars
  <1> QED
    BY <1>1, FailedAnswers
-----------------------------------------------------------------------------
(* The requests, the transactions, the faults and time *)

LEMMA BootAnswers == ASSUME IInv, AnswersInv, NEW n \in Nodes, BootUpdate(n) PROVE AnswersInv'
  <1>1. /\ n \in boot /\ Sync \in Callers /\ ~Running(Sync) /\ StartUpdate(Sync, n)
        /\ UNCHANGED <<endpoint, changed, lastFetch, boot>>
    BY Constants DEF BootUpdate, rowVars
  <1>2. \A d \in Callers : ~Running(d)
    BY <1>1 DEF IInv, BootAlone
  <1>3. object[n].stamp > MIN_REFRESH_DELAY
    BY <1>1, Constants DEF AnswersInv, Cap
  <1> QED
    BY <1>1, <1>2, <1>3, StartAnswers

\* Updates go on or are dropped before their fetches, endpoints stay or change now.
LEMMA RowsAnswers ==
    ASSUME IInv, AnswersInv, UNCHANGED <<object, boot, lastFetch>>,
           \A d \in Callers : update'[d] = update[d] \/ (~Running(d)' /\ ~Fetching(d)),
           \A m \in Nodes : \/ endpoint'[m] = endpoint[m] /\ changed'[m] = changed[m]
                            \/ changed'[m] = 0
    PROVE  AnswersInv'
  <1>1. ASSUME NEW m \in Nodes
        PROVE  Honest(m)' /\ Follows(m)' /\ Rested(m)'
    <2>1. object[m].stamp \in Nat /\ MAX_FETCH_DELAY \in Nat
      BY NodeTyped DEF IInv
    <2>2. Honest(m)'
      BY DEF AnswersInv, Honest
    <2>3. Follows(m)'
      BY <2>1 DEF AnswersInv, Follows
    <2>4. Rested(m)'
      BY DEF AnswersInv, Rested, Running, Fetching, Node
    <2> QED
      BY <2>2, <2>3, <2>4
  <1>2. ASSUME NEW d \in Callers, Running(d)'
        PROVE  CallOK(d)'
    <2>1. update'[d] = update[d] /\ Running(d)
      BY <1>2 DEF Running
    <2>2. Node(d) \in Nodes /\ Spent(d) \in 0 .. 2 * MAX_FETCH_DELAY /\ MAX_FETCH_DELAY \in Nat
      BY <2>1, CallTyped, Constants
    <2>3. Fetching(d) => changed'[Node(d)] <= Spent(d) \/ update[d].url = endpoint'[Node(d)]
      BY <2>1, <2>2 DEF AnswersInv, CallOK
    <2> QED
      BY <2>1, <2>3 DEF AnswersInv, CallOK, Running, Fetching, Node, Spent
  <1> QED
    BY <1>1, <1>2 DEF AnswersInv, CallOK

LEMMA RequestAnswers ==
    ASSUME IInv, AnswersInv, NEW c \in Callers, NEW n \in Nodes, Request(c, n)
    PROVE  AnswersInv'
  <1>1. /\ boot = {} /\ UNCHANGED <<endpoint, changed, lastFetch, boot>>
        /\ n \in cached => object[n].stamp > MIN_REFRESH_DELAY
        /\ Matched /\ None \notin Callers
    BY Constants DEF IInv, Request, rowVars
  <1>2. CASE pending[n] = None
    <2>1. ~Running(c) /\ StartUpdate(c, n)
      BY <1>2 DEF Request, Joined
    <2>2. \A d \in Callers : Running(d) => Node(d) # n
      BY <1>1, <1>2 DEF Matched
    <2> QED
      BY <1>1, <2>1, <2>2, StartAnswers
  <1>3. CASE pending[n] # None
    <2>1. UNCHANGED <<update, object>>
      BY <1>3 DEF Request, Joined
    <2> QED
      BY <1>1, <2>1, RowsAnswers
  <1> QED
    BY <1>2, <1>3

LEMMA ChangesSplit ==
    ASSUME NEW rows, Changes(rows)
    PROVE  \A m \in Nodes : \/ endpoint'[m] = endpoint[m] /\ changed'[m] = changed[m]
                            \/ changed'[m] = 0
  BY DEF Changes

LEMMA TransactionAnswers ==
    ASSUME IInv, AnswersInv, (\E n \in Nodes, url \in Urls : SaveNode(n, url)) \/ EndTransaction
    PROVE  AnswersInv'
  <1>1. UNCHANGED <<update, object, boot, lastFetch>>
    BY DEF SaveNode, EndTransaction
  <1>2. (\E rows : Changes(rows)) \/ UNCHANGED <<endpoint, changed>>
    BY DEF SaveNode, EndTransaction
  <1>3. \A m \in Nodes : \/ endpoint'[m] = endpoint[m] /\ changed'[m] = changed[m]
                         \/ changed'[m] = 0
    BY <1>2, ChangesSplit
  <1> QED
    BY <1>1, <1>3, RowsAnswers

LEMMA QueryFailsAnswers ==
    ASSUME IInv, AnswersInv, NEW c \in Callers, QueryFails(c)
    PROVE  AnswersInv'
  <1>1. UNCHANGED <<object, boot, lastFetch>>
    BY DEF QueryFails
  <1>2. \A d \in Callers : update'[d] = update[d] \/ (~Running(d)' /\ ~Fetching(d))
    BY DEF IInv, TypeOK, QueryFails, Settle, Running, Fetching
  <1>3. \A m \in Nodes : \/ endpoint'[m] = endpoint[m] /\ changed'[m] = changed[m]
                         \/ changed'[m] = 0
    BY ChangesSplit DEF QueryFails
  <1> QED
    BY <1>1, <1>2, <1>3, RowsAnswers

LEMMA ProcessEndsAnswers == ASSUME IInv, AnswersInv, ProcessEnds PROVE AnswersInv'
  <1>1. TypeOK'
    BY ProcessEndsStep DEF IInv
  <1>2. \A m \in Nodes : object'[m] = Blank
    BY DEF ProcessEnds, Empty
  <1>3. \A d \in Callers : ~Running(d)'
    BY DEF ProcessEnds, Empty, Running
  <1>4. \A m \in Nodes : changed'[m] \in Nat /\ changed'[m] <= Cap
    BY <1>1, Constants DEF TypeOK, Ages
  <1>5. MAX_FETCH_DELAY \in Nat /\ Cap \in Nat
    BY Constants
  <1> QED
    BY <1>2, <1>3, <1>4, <1>5 DEF AnswersInv, Honest, Follows, Rested, CallOK, Blank

LEMMA TickAnswers == ASSUME IInv, AnswersInv, Tick PROVE AnswersInv'
  <1>1. TypeOK /\ UNCHANGED <<endpoint, boot>>
    BY DEF IInv, Tick
  <1>2. ASSUME NEW m \in Nodes
        PROVE  /\ object'[m].status = object[m].status /\ object'[m].orphan = object[m].orphan
               /\ object'[m].url = object[m].url
               /\ object'[m].info = Older(object[m].info)
               /\ object'[m].stamp = Older(object[m].stamp)
               /\ changed'[m] = Older(changed[m])
               /\ lastFetch'[m] = IF lastFetch[m] < Spaced THEN lastFetch[m] + 1 ELSE Spaced
    <2>1. object[m] \in Object
      BY <1>1 DEF TypeOK
    <2> QED
      BY <2>1 DEF Tick, Object
  <1>3. ASSUME NEW c \in Callers
        PROVE  /\ Running(c)' = Running(c)
               /\ Running(c) => /\ Node(c)' = Node(c) /\ Node(c) \in Nodes
                                /\ update'[c].step = update[c].step
                                /\ update'[c].url = update[c].url
                                /\ update'[c].left = update[c].left - 1
                                /\ update[c].left \in 1 .. MAX_FETCH_DELAY
                                /\ update[c].step \in {"status", "mempool"}
    <2>1. CASE ~Running(c)
      BY <2>1 DEF Tick, Running
    <2>2. CASE Running(c)
      <3>1. update[c] \in Update /\ update[c].left > 0 /\ WellFormed(c)
        BY <1>1, <2>2 DEF IInv, TypeOK, Tick
      <3>2. update'[c] = [update[c] EXCEPT !.left = @ - 1]
        BY <2>2 DEF Tick
      <3>3. update[c].left \in 1 .. MAX_FETCH_DELAY
        BY <3>1, Constants DEF Update
      <3>4. update[c].step \in {"status", "mempool"} /\ Node(c) \in Nodes
        BY <2>2, <3>1 DEF WellFormed, Steps
      <3>5. /\ update'[c].step = update[c].step /\ update'[c].node = update[c].node
            /\ update'[c].left = update[c].left - 1 /\ update'[c].url = update[c].url
        BY <3>1, <3>2 DEF Update
      <3> QED
        BY <2>2, <3>3, <3>4, <3>5 DEF Running, NoUpdate, Node
    <2> QED
      BY <2>1, <2>2
  <1>4. boot' # {} => \A m \in Nodes : object'[m].stamp = Cap
    BY <1>1, <1>2, Constants DEF AnswersInv, Older
  <1>5. ASSUME NEW m \in Nodes
        PROVE  Honest(m)' /\ Follows(m)' /\ Rested(m)'
    <2>1. /\ object[m].stamp \in Nat /\ object[m].info \in Nat
          /\ object[m].stamp <= Cap /\ object[m].info <= Cap
          /\ changed[m] \in Nat /\ changed[m] <= Cap /\ lastFetch[m] \in 0 .. Spaced
          /\ MAX_FETCH_DELAY \in Nat /\ Cap \in Nat /\ Spaced \in Nat
      BY <1>1, NodeTyped, Constants
    <2>2. Honest(m) /\ Follows(m) /\ Rested(m)
      BY DEF AnswersInv
    <2>3. Honest(m)'
      BY <1>2, <2>1, <2>2 DEF Honest, Older
    <2>4. Follows(m)'
      BY <1>1, <1>2, <2>1, <2>2 DEF Follows, Older
    <2>5. Rested(m)'
      <3>1. CASE \E c \in Callers : Running(c) /\ Fetching(c) /\ Node(c) = m
        BY <3>1, <1>3 DEF Rested, Fetching
      <3>2. CASE \/ object[m].stamp = Cap
                 \/ object[m].stamp <= lastFetch[m]
                 \/ lastFetch[m] = Spaced
        BY <3>2, <1>2, <2>1 DEF Rested, Older
      <3> QED
        BY <2>2, <3>1, <3>2 DEF Rested
    <2> QED
      BY <2>3, <2>4, <2>5
  <1>6. ASSUME NEW c \in Callers, Running(c)'
        PROVE  CallOK(c)'
    <2> PICK n \in Nodes : n = Node(c)
      BY <1>3, <1>6
    <2>1. /\ Running(c) /\ Node(c)' = n
          /\ update'[c].step = update[c].step /\ update'[c].url = update[c].url
          /\ update'[c].left = update[c].left - 1
          /\ update[c].left \in 1 .. MAX_FETCH_DELAY
          /\ update[c].step \in {"status", "mempool"}
      BY <1>3, <1>6
    <2>2. /\ changed[n] \in Nat /\ object[n].info \in Nat
          /\ MAX_FETCH_DELAY \in Nat /\ Cap \in Nat
      BY <1>1, NodeTyped, Constants
    <2>3. Spent(c)' = Spent(c) + 1
      BY <2>1, <2>2 DEF Spent
    <2>4. Spent(c) \in 0 .. 2 * MAX_FETCH_DELAY
      BY <2>1, CallTyped
    <2>5. changed'[n] <= changed[n] + 1 /\ changed'[n] \in Nat
      BY <1>2, <2>2 DEF Older
    <2>6. changed[n] <= Spent(c) \/ update[c].url = endpoint[n]
      BY <2>1 DEF AnswersInv, CallOK, Fetching
    <2>7. changed'[n] <= Spent(c)' \/ update'[c].url = endpoint'[n]
      BY <1>1, <2>1, <2>2, <2>3, <2>4, <2>5, <2>6
    <2>8. ASSUME update[c].step = "mempool"
          PROVE  /\ object'[n].status = "Ok" /\ ~object'[n].orphan
                 /\ object'[n].url = update'[c].url
                 /\ object'[n].info <= MAX_FETCH_DELAY - update'[c].left
      <3>1. /\ object[n].status = "Ok" /\ ~object[n].orphan /\ object[n].url = update[c].url
            /\ object[n].info <= MAX_FETCH_DELAY - update[c].left
        BY <2>1, <2>8 DEF AnswersInv, CallOK
      <3>2. object'[n].info <= object[n].info + 1 /\ object'[n].info \in Nat
        BY <1>2, <2>2 DEF Older
      <3> QED
        BY <1>2, <2>1, <2>2, <3>1, <3>2
    <2> QED
      BY <2>1, <2>7, <2>8 DEF CallOK, Fetching
  <1> QED
    BY <1>4, <1>5, <1>6 DEF AnswersInv, CallOK

-----------------------------------------------------------------------------

LEMMA AnswersStep == IInv /\ AnswersInv /\ [Next]_vars => AnswersInv'
  <1> SUFFICES ASSUME IInv, AnswersInv, [Next]_vars PROVE AnswersInv'
    OBVIOUS
  <1>1. ASSUME NEW c \in Callers, Advance(c) PROVE AnswersInv'
    BY <1>1, ReadRowAnswers, StatusAnswers, MempoolAnswers, ThrowAnswers DEF Advance
  <1>2. ASSUME NEW c \in Callers, QueryFails(c) PROVE AnswersInv'
    BY <1>2, QueryFailsAnswers
  <1>3. ASSUME NEW c \in Handlers, NEW n \in Nodes, Request(c, n) PROVE AnswersInv'
    BY <1>3, RequestAnswers DEF Callers
  <1>4. ASSUME NEW n \in Nodes, BootUpdate(n) PROVE AnswersInv'
    BY <1>4, BootAnswers
  <1>5. CASE (\E n \in Nodes, url \in Urls : SaveNode(n, url)) \/ EndTransaction
    BY <1>5, TransactionAnswers
  <1>6. CASE AskStatus
    BY <1>6, RequestAnswers, Constants DEF AskStatus, IInv, TypeOK
  <1>7. CASE ProcessEnds
    BY <1>7, ProcessEndsAnswers
  <1>8. CASE Tick
    BY <1>8, TickAnswers
  <1>9. CASE UNCHANGED vars
    BY <1>9, RowsAnswers DEF vars, rowVars
  <1> QED
    BY <1>1, <1>2, <1>3, <1>4, <1>5, <1>6, <1>7, <1>8, <1>9 DEF Next

LEMMA AnswersInvariance == Spec => [](IInv /\ AnswersInv)
  BY InitHolds, StepKeeps, AnswersInit, AnswersStep, PTL DEF Spec

\* A cached status that says the node answers is at most one timeout older than its
\* timestamp, in every state of the object the requests share.
THEOREM HonestStamps == Spec => []StampHonest
  <1>1. IInv /\ AnswersInv => StampHonest
    BY DEF IInv, TypeOK, AnswersInv, Honest, StampHonest
  <1> QED
    BY <1>1, AnswersInvariance, PTL

\* It is about the endpoint the node declares, unless that changed less than two
\* timeouts before the timestamp.
THEOREM DeclaredEndpoint == Spec => []EndpointFollowed
  <1>1. IInv /\ AnswersInv => EndpointFollowed
    BY DEF IInv, TypeOK, AnswersInv, Follows, EndpointFollowed
  <1> QED
    BY <1>1, AnswersInvariance, PTL

\* However many requests there are, the fetches for a node are spaced.
THEOREM SpacedFetches == Spec => FetchesSpaced
  <1> DEFINE Spacing == \A n \in Nodes : FetchBegins(n) =>
                           lastFetch[n] > MIN_REFRESH_DELAY \/ object[n].stamp = Cap
  <1>1. IInv /\ AnswersInv => Spacing
    <2> SUFFICES ASSUME IInv, AnswersInv, NEW n \in Nodes, NEW c \in Callers,
                        update[c].step = "row", Node(c) = n
                 PROVE  lastFetch[n] > MIN_REFRESH_DELAY \/ object[n].stamp = Cap
      BY DEF FetchBegins
    <2>1. Running(c)
      BY DEF Running, NoUpdate
    <2>2. object[n].stamp > MIN_REFRESH_DELAY
      BY <2>1 DEF AnswersInv, CallOK
    <2>3. ~\E d \in Callers : Running(d) /\ Fetching(d) /\ Node(d) = n
      BY <2>1, OneUpdate DEF Fetching
    <2>4. /\ object[n].stamp \in Nat /\ lastFetch[n] \in 0 .. Spaced
          /\ Spaced = MIN_REFRESH_DELAY + 1 /\ MIN_REFRESH_DELAY \in Nat
      BY NodeTyped DEF IInv
    <2>5. Rested(n)
      BY DEF AnswersInv
    <2> QED
      BY <2>2, <2>3, <2>4, <2>5 DEF Rested
  <1>2. IInv /\ AnswersInv => [Spacing]_vars
    BY <1>1
  <1> QED
    BY <1>2, AnswersInvariance, PTL DEF FetchesSpaced

=============================================================================
