------------------------- MODULE AccountSync_proofs -------------------------
(* The account tables are right, current and only ever extended, for any      *)
(* chain, any number of nodes and any size of the responses.                  *)
EXTENDS AccountSync, TLAPS

-----------------------------------------------------------------------------
(* The inductive invariant *)

RightEntry(t, a, k) == t.history[a][k] = BalanceAfter[a][k]

\* The entries after the n-th, up to the account's state.
RightFrom(t, a, n) == \A k \in n + 1 .. t.row[a].last : RightEntry(t, a, k)

OnlyRight(t, a) == \A k \in Entries : t.history[a][k] = NoBalance \/ RightEntry(t, a, k)

ShowsFrom(t, a, h) == \E i \in h .. MaxHeight : Shows(t, a, i)

\* Nothing that is committed is missing, and what is new belongs to the account's state.
Extended(a) ==
    /\ OnlyRight(db, a)
    /\ \A k \in Entries :
          /\ saved.history[a][k] # NoBalance => db.history[a][k] # NoBalance
          /\ db.history[a][k] # NoBalance
                => saved.history[a][k] # NoBalance \/ k <= db.row[a].last

Same(a) == db.row[a] = saved.row[a] /\ db.history[a] = saved.history[a]

\* The row is stored, and the entries after the n-th.
Reached(a, n) ==
    /\ Extended(a)
    /\ ShowsFrom(db, a, Height)
    /\ n \in 0 .. db.row[a].last
    /\ RightFrom(db, a, n)

\* The rounds of a requested account: before its first update, and after any.
Fresh(a)   == Same(a) /\ requests[a].first = -1 /\ balances[a] = NoBalance
Between(a) == /\ requests[a].first \in 0 .. MaxEntry
              /\ Reached(a, requests[a].first)
              /\ balances[a] = BalanceAfter[a][requests[a].first]

InProcess(a) == current # NoUpdate /\ current.account = a

AccountOK(a) ==
    /\ a \notin Modified(Height) => Same(a)
    /\ a \in Modified(Height) /\ a \notin DOMAIN requests => Reached(a, 0)
    /\ a \in DOMAIN requests =>
          /\ a \in Modified(Height)
          /\ requests[a].lastKnown = saved.row[a].last
          /\ InProcess(a) => Reached(a, current.next) /\ balance = BalanceAfter[a][current.next]
          /\ ~InProcess(a) => Fresh(a) \/ Between(a)

\* An update goes down to its last entry; it is empty only if nothing is missing.
UpdateOK(u) ==
    /\ u.account \in DOMAIN requests
    /\ u.stop <= u.next
    /\ u.empty => u.stop \in {0, requests[u.account].lastKnown}

\* It continues where the rounds of the account are.
Continues(u) ==
    /\ ~InProcess(u.account)
    /\ u.next = IF requests[u.account].first = -1
                THEN State[asOf][u.account].last ELSE requests[u.account].first

ResponseOK ==
    /\ \A u \in response : UpdateOK(u) /\ Continues(u)
    /\ \A u, v \in response : u.account = v.account => u = v
    /\ response # {} => asOf \in Height .. MaxHeight

CurrentOK == current # NoUpdate => UpdateOK(current)

SavedOK == \A a \in Accounts : /\ OnlyRight(saved, a)
                               /\ RightFrom(saved, a, 0)
                               /\ ShowsFrom(saved, a, indexed)

OpenOK ==
    IF open THEN /\ Height <= head[node]
                 /\ \A a \in Accounts : AccountOK(a)
                 /\ ResponseOK
                 /\ CurrentOK
            ELSE /\ db = saved /\ DOMAIN requests = {} /\ response = {} /\ current = NoUpdate
                 /\ \A a \in Accounts : balances[a] = NoBalance

IInv == TypeOK /\ SavedOK /\ OpenOK
-----------------------------------------------------------------------------
(* Constants and tables *)

LEMMA Numbers ==
    /\ MaxHeight \in Nat /\ MaxEntry \in Nat /\ MaxFaults \in Nat /\ PageSize \in Nat \ {0}
    /\ NoBalance \notin Int /\ NoUpdate \notin Update
    /\ \A a \in Accounts, k \in 0 .. MaxEntry : BalanceAfter[a][k] \in Int
    /\ \A h \in 0 .. MaxHeight, a \in Accounts : /\ State[h][a].last \in 0 .. MaxEntry
                                                 /\ State[h][a].locks \in Locks
  BY AccountSyncAssumption, NoUpdateAssumption DEF Update

LEMMA EmptyTyped == EmptyTables \in Tables
  <1>1. [t \in LockKinds |-> 0] \in Locks
    BY DEF Locks
  <1>2. [known |-> FALSE, last |-> 0, balance |-> 0, locks |-> [t \in LockKinds |-> 0]]
           \in AccountRow
    BY <1>1, Numbers DEF AccountRow
  <1> QED
    BY <1>2 DEF EmptyTables, Tables

LEMMA TableValues ==
    ASSUME NEW t \in Tables, NEW a \in Accounts
    PROVE  /\ t.row[a].last \in 0 .. MaxEntry
           /\ \A k \in Entries : t.history[a][k] \in Int \cup {NoBalance}
  BY DEF Tables, AccountRow

\* commitAccountAndLocks() touches the row of its account only.
LEMMA RowCommitted ==
    ASSUME TypeOK, NEW a \in Accounts, CommitAccountAndLocks(a)
    PROVE  /\ db' \in Tables
           /\ db'.history = db.history
           /\ \A b \in Accounts : b # a => db'.row[b] = db.row[b]
           /\ Shows(db', a, asOf)
  <1> DEFINE r == [known   |-> TRUE,
                   last    |-> State[asOf][a].last,
                   balance |-> BalanceAfter[a][State[asOf][a].last],
                   locks   |-> State[asOf][a].locks]
  <1>1. db \in Tables /\ asOf \in 0 .. MaxHeight
    BY DEF TypeOK
  <1>2. r \in AccountRow
    BY <1>1, Numbers DEF AccountRow
  <1>3. db' = [db EXCEPT !.row[a] = r]
    BY DEF CommitAccountAndLocks, CommitLocks
  <1>4. r.last = State[asOf][a].last /\ r.locks = State[asOf][a].locks
        /\ r.balance = BalanceAfter[a][State[asOf][a].last]
    OBVIOUS
  <1> HIDE DEF r
  <1>5. db' = [row |-> [db.row EXCEPT ![a] = r], history |-> db.history]
    BY <1>1, <1>3 DEF Tables
  <1>6. db.row \in [Accounts -> AccountRow]
        /\ db.history \in [Accounts -> [Entries -> Int \cup {NoBalance}]]
    BY <1>1 DEF Tables
  <1>7. db' \in Tables
    BY <1>2, <1>5, <1>6 DEF Tables
  <1>8. db'.row[a] = r
    BY <1>5, <1>6
  <1> QED
    BY <1>4, <1>5, <1>6, <1>7, <1>8 DEF Shows

\* commitAccountHistory() touches one entry only.
LEMMA EntryCommitted ==
    ASSUME TypeOK, NEW a \in Accounts, NEW k \in Entries, NEW b \in Int,
           CommitAccountHistory(a, k, b)
    PROVE  /\ db' \in Tables
           /\ db'.row = db.row
           /\ \A c \in Accounts : c # a => db'.history[c] = db.history[c]
           /\ \A i \in Entries : db'.history[a][i] = IF i = k THEN b ELSE db.history[a][i]
  <1>1. db.row \in [Accounts -> AccountRow]
        /\ db.history \in [Accounts -> [Entries -> Int \cup {NoBalance}]]
    BY DEF TypeOK, Tables
  <1> DEFINE h == [db.history EXCEPT ![a] = [db.history[a] EXCEPT ![k] = b]]
  <1>2. db' = [row |-> db.row, history |-> h]
    BY DEF TypeOK, Tables, CommitAccountHistory
  <1>3. h \in [Accounts -> [Entries -> Int \cup {NoBalance}]]
    BY <1>1
  <1>4. /\ \A c \in Accounts : c # a => h[c] = db.history[c]
        /\ \A i \in Entries : h[a][i] = IF i = k THEN b ELSE db.history[a][i]
    BY <1>1
  <1> HIDE DEF h
  <1>5. db'.row = db.row /\ db'.history = h
    BY <1>2
  <1>6. db' \in Tables
    BY <1>1, <1>2, <1>3 DEF Tables
  <1> QED
    BY <1>4, <1>5, <1>6

-----------------------------------------------------------------------------
(* Frames: what a step leaves alone *)

LEMMA ReachedFrame ==
    ASSUME NEW a \in Accounts, NEW n, Reached(a, n),
           db'.row[a] = db.row[a], db'.history[a] = db.history[a],
           saved' = saved, indexed' = indexed
    PROVE  Reached(a, n)'
  BY DEF Reached, Extended, OnlyRight, RightEntry, RightFrom, ShowsFrom, Shows, Height

LEMMA AccountFrame ==
    ASSUME NEW a \in Accounts, AccountOK(a),
           db'.row[a] = db.row[a], db'.history[a] = db.history[a],
           saved' = saved, indexed' = indexed,
           a \in DOMAIN requests' <=> a \in DOMAIN requests,
           a \in DOMAIN requests => requests'[a] = requests[a],
           balances'[a] = balances[a],
           InProcess(a)' = InProcess(a),
           InProcess(a) => current' = current /\ balance' = balance
    PROVE  AccountOK(a)'
  <1>1. Modified(Height)' = Modified(Height)
    BY DEF Modified, Height
  <1>2. \A n : Reached(a, n) => Reached(a, n)'
    BY ReachedFrame
  <1>3. (a \notin Modified(Height) => Same(a))'
    BY <1>1 DEF AccountOK, Same
  <1>4. (a \in Modified(Height) /\ a \notin DOMAIN requests => Reached(a, 0))'
    BY <1>1, <1>2 DEF AccountOK
  <1>5. ASSUME a \in DOMAIN requests'
        PROVE  /\ a \in Modified(Height)'
               /\ requests'[a].lastKnown = saved'.row[a].last
               /\ InProcess(a)' => Reached(a, current.next)' /\ balance' = BalanceAfter[a][current'.next]
               /\ ~InProcess(a)' => Fresh(a)' \/ Between(a)'
    <2>1. /\ a \in Modified(Height)
          /\ requests[a].lastKnown = saved.row[a].last
          /\ InProcess(a) => Reached(a, current.next) /\ balance = BalanceAfter[a][current.next]
          /\ ~InProcess(a) => Fresh(a) \/ Between(a)
      BY <1>5 DEF AccountOK
    <2>2. CASE InProcess(a)
      <3>1. Reached(a, current.next)'
        BY <2>1, <2>2, ReachedFrame
      <3> QED
        BY <1>1, <1>5, <2>1, <2>2, <3>1
    <2>3. CASE ~InProcess(a)
      <3>1. Fresh(a) => Fresh(a)'
        BY <1>5 DEF Fresh, Same
      <3>2. Between(a) => Between(a)'
        BY <1>2, <1>5, ReachedFrame DEF Between
      <3> QED
        BY <1>1, <1>5, <2>1, <2>3, <3>1, <3>2
    <2> QED
      BY <2>2, <2>3
  <1> QED
    BY <1>3, <1>4, <1>5 DEF AccountOK

-----------------------------------------------------------------------------
(* The actions *)

LEMMA InitHolds == Init => IInv
  <1> SUFFICES ASSUME Init PROVE IInv
    OBVIOUS
  <1>1. TypeOK
    <2>1. db \in Tables /\ saved \in Tables
      BY EmptyTyped DEF Init
    <2>2. DOMAIN requests = {} /\ requests \in [DOMAIN requests -> Request]
      BY DEF Init
    <2>3. /\ head \in [Nodes -> 0 .. MaxHeight] /\ node \in Nodes
          /\ indexed \in 0 .. MaxHeight /\ asOf \in 0 .. MaxHeight /\ faults \in 0 .. MaxFaults
          /\ balances \in [Accounts -> Int \cup {NoBalance}] /\ balance \in Int
      BY Numbers DEF Init
    <2> QED
      BY <2>1, <2>2, <2>3 DEF Init, TypeOK
  <1>2. OpenOK
    BY DEF Init, OpenOK
  <1>3. ASSUME NEW a \in Accounts
        PROVE  OnlyRight(saved, a) /\ RightFrom(saved, a, 0) /\ ShowsFrom(saved, a, indexed)
    <2>1. /\ saved.row[a].last = 0 /\ saved.row[a].balance = 0
          /\ saved.row[a].locks = [t \in LockKinds |-> 0]
          /\ \A k \in Entries : saved.history[a][k] = NoBalance
      BY DEF Init, EmptyTables
    <2>2. State[0][a] = [last |-> 0, locks |-> [t \in LockKinds |-> 0]] /\ BalanceAfter[a][0] = 0
      BY AccountSyncAssumption
    <2>3. Shows(saved, a, 0)
      BY <2>1, <2>2 DEF Shows
    <2>4. indexed = 0 /\ 0 \in 0 .. MaxHeight
      BY Numbers DEF Init
    <2> QED
      BY <2>1, <2>3, <2>4 DEF OnlyRight, RightFrom, ShowsFrom
  <1> QED
    BY <1>1, <1>2, <1>3 DEF IInv, SavedOK

LEMMA SavedFrame == ASSUME SavedOK, saved' = saved, indexed' = indexed PROVE SavedOK'
  BY DEF SavedOK, OnlyRight, RightEntry, RightFrom, ShowsFrom, Shows

LEMMA BeginStep == ASSUME IInv, Begin PROVE IInv'
  <1>1. /\ TypeOK /\ SavedOK /\ open' = TRUE /\ db' = saved' /\ saved' = saved /\ indexed' = indexed
        /\ db = saved
        /\ response' = {} /\ current' = NoUpdate /\ \A a \in Accounts : balances'[a] = NoBalance
        /\ UNCHANGED <<head, node, asOf, balance, balances, faults>>
        /\ (Height <= head[node])'
    BY DEF IInv, OpenOK, Begin, chainVars, Height
  <1>2. /\ DOMAIN requests' = Modified(Height)
        /\ \A a \in Modified(Height) : requests'[a] = [lastKnown |-> saved.row[a].last, first |-> -1]
        /\ requests' = [a \in Modified(Height) |-> requests'[a]]
        /\ Modified(Height) \subseteq Accounts
    BY <1>1 DEF Begin, Modified
  <1>3. TypeOK'
    <2>1. ASSUME NEW a \in Modified(Height)
          PROVE  requests'[a] \in Request
      <3>1. saved.row[a].last \in 0 .. MaxEntry
        BY <1>1, <1>2, TableValues DEF TypeOK
      <3>2. -1 \in -1 .. MaxEntry
        BY Numbers
      <3> QED
        BY <3>1, <3>2, <1>2 DEF Request
    <2>2. requests' \in [DOMAIN requests' -> Request]
      BY <2>1, <1>2
    <2> QED
      BY <1>1, <1>2, <2>2 DEF TypeOK
  <1>4. Modified(Height)' = Modified(Height)
    BY <1>1 DEF Modified, Height
  <1>5. ASSUME NEW a \in Accounts
        PROVE  AccountOK(a)'
    <2>1. Same(a)' /\ ~InProcess(a)' /\ balances'[a] = NoBalance
      BY <1>1 DEF Same, InProcess
    <2>2. a \in Modified(Height) => requests'[a].first = -1 /\ requests'[a].lastKnown = saved.row[a].last
      BY <1>2
    <2> QED
      BY <1>1, <1>2, <1>4, <2>1, <2>2 DEF AccountOK, Fresh
  <1>6. OpenOK'
    BY <1>1, <1>5 DEF OpenOK, ResponseOK, CurrentOK
  <1> QED
    BY <1>1, <1>3, <1>6, SavedFrame DEF IInv

\* Where the rounds of an account continue is an entry of it.
LEMMA TopTyped ==
    ASSUME TypeOK, NEW a \in DOMAIN requests
    PROVE  Top(a) \in 0 .. MaxEntry /\ requests[a].lastKnown \in 0 .. MaxEntry
  <1>1. requests[a] \in Request /\ a \in Accounts /\ head[node] \in 0 .. MaxHeight
    BY DEF TypeOK
  <1> QED
    BY <1>1, Numbers DEF Top, Request

LEMMA FetchStep == ASSUME IInv, FetchUpdates PROVE IInv'
  <1>1. /\ TypeOK /\ SavedOK /\ OpenOK /\ open /\ current = NoUpdate
        /\ asOf' = head[node] /\ head[node] \in Height .. MaxHeight
        /\ UNCHANGED <<head, node, indexed, db, saved, open, requests, current, balance, balances,
                       faults>>
    BY DEF IInv, OpenOK, FetchUpdates, chainVars, TypeOK, Height
  <1>2. PICK answered \in SUBSET DOMAIN requests : \E stop \in [answered -> 0 .. MaxEntry] :
           /\ \A a \in answered : stop[a] \in MayStop(a)
           /\ response' = {[account |-> a, next |-> Top(a), stop |-> stop[a],
                            empty |-> Top(a) = stop[a]] : a \in answered}
    BY DEF FetchUpdates
  <1> PICK stop \in [answered -> 0 .. MaxEntry] :
           /\ \A a \in answered : stop[a] \in MayStop(a)
           /\ response' = {[account |-> a, next |-> Top(a), stop |-> stop[a],
                            empty |-> Top(a) = stop[a]] : a \in answered}
    BY <1>2
  <1>3. ASSUME NEW u \in response'
        PROVE  /\ u \in Update /\ u.account \in DOMAIN requests
               /\ u = [account |-> u.account, next |-> Top(u.account), stop |-> stop[u.account],
                       empty |-> Top(u.account) = stop[u.account]]
               /\ u.next = Top(u.account)
               /\ u.stop <= u.next
               /\ u.empty => u.stop \in {0, requests[u.account].lastKnown}
    <2>1. PICK a \in answered : u = [account |-> a, next |-> Top(a), stop |-> stop[a],
                                     empty |-> Top(a) = stop[a]]
      OBVIOUS
    <2>2. a \in DOMAIN requests /\ a \in Accounts
      BY <1>1 DEF TypeOK
    <2>3. Top(a) \in 0 .. MaxEntry /\ requests[a].lastKnown \in 0 .. MaxEntry
      BY <1>1, <2>2, TopTyped
    <2>4. stop[a] \in 0 .. MaxEntry /\ stop[a] \in MayStop(a)
      OBVIOUS
    <2>5. stop[a] <= Top(a) /\ (Top(a) = stop[a] => stop[a] \in {0, requests[a].lastKnown})
      BY <2>3, <2>4, Numbers DEF MayStop, Stop
    <2> QED
      BY <2>1, <2>2, <2>3, <2>4, <2>5 DEF Update
  <1>4. TypeOK'
    BY <1>1, <1>3, Numbers DEF TypeOK, Height
  <1>5. ResponseOK'
    <2>1. ASSUME NEW u \in response'
          PROVE  UpdateOK(u)' /\ Continues(u)'
      BY <1>1, <1>3 DEF UpdateOK, Continues, InProcess, Top
    <2>2. \A u, v \in response' : u.account = v.account => u = v
      BY <1>3
    <2>3. (asOf \in Height .. MaxHeight)'
      BY <1>1 DEF Height
    <2> QED
      BY <2>1, <2>2, <2>3 DEF ResponseOK
  <1>6. ASSUME NEW a \in Accounts
        PROVE  AccountOK(a)'
    <2>1. AccountOK(a) /\ InProcess(a)' = InProcess(a)
      BY <1>1 DEF OpenOK, InProcess
    <2> QED
      BY <1>1, <2>1, AccountFrame
  <1>7. OpenOK'
    BY <1>1, <1>5, <1>6 DEF OpenOK, CurrentOK, Height
  <1> QED
    BY <1>1, <1>4, <1>7, SavedFrame DEF IInv

\* An account whose update begins: its row is stored with its first one.
LEMMA BeginUpdateStep == ASSUME IInv, NEW u \in response, BeginUpdate(u) PROVE IInv'
  <1> DEFINE a == u.account
  <1>1. /\ TypeOK /\ SavedOK /\ OpenOK /\ open /\ u \in Update /\ a \in Accounts
        /\ current = NoUpdate /\ current' = u /\ response' = response \ {u}
        /\ UNCHANGED <<head, node, indexed, saved, open, requests, asOf, balances, faults>>
    BY DEF IInv, OpenOK, TypeOK, BeginUpdate, chainVars, Update
  <1>2. /\ UpdateOK(u) /\ Continues(u) /\ asOf \in Height .. MaxHeight
        /\ AccountOK(a) /\ ~InProcess(a) /\ a \in DOMAIN requests
    BY <1>1 DEF OpenOK, ResponseOK, UpdateOK, Continues
  <1>3. /\ a \in Modified(Height) /\ requests[a].lastKnown = saved.row[a].last
        /\ Fresh(a) \/ Between(a)
    BY <1>2 DEF AccountOK
  <1>4. /\ db' \in Tables /\ balance' \in Int
        /\ Reached(a, u.next)' /\ balance' = BalanceAfter[a][u.next]
        /\ \A b \in Accounts : b # a => db'.row[b] = db.row[b] /\ db'.history[b] = db.history[b]
    <2>1. asOf \in 0 .. MaxHeight /\ u.next \in 0 .. MaxEntry
      BY <1>1 DEF TypeOK, Update
    <2>2. BalanceAfter[a][u.next] \in Int
      BY <1>1, <2>1, Numbers
    <2>3. CASE Fresh(a)
      <3>1. /\ balances[a] = NoBalance /\ u.next = State[asOf][a].last
            /\ db.row[a] = saved.row[a] /\ db.history[a] = saved.history[a]
        BY <2>3, <1>2 DEF Fresh, Continues, Same
      <3>2. CommitAccountAndLocks(a) /\ balance' = BalanceAfter[a][u.next]
        BY <3>1 DEF BeginUpdate, FirstUpdate
      <3>3. /\ db' \in Tables /\ db'.history = db.history
            /\ \A b \in Accounts : b # a => db'.row[b] = db.row[b]
            /\ Shows(db', a, asOf)
        BY <1>1, <3>2, RowCommitted
      <3>4. OnlyRight(saved, a)
        BY <1>1 DEF SavedOK
      <3>5. Extended(a)'
        BY <1>1, <3>1, <3>3, <3>4 DEF Extended, OnlyRight, RightEntry
      <3>6. ShowsFrom(db, a, Height)'
        BY <1>1, <1>2, <3>3 DEF ShowsFrom, Height
      <3>7. db'.row[a].last = u.next
        BY <3>1, <3>3 DEF Shows
      <3>8. RightFrom(db, a, u.next)'
        BY <1>1, <3>7, <2>1, Numbers DEF RightFrom
      <3>9. Reached(a, u.next)'
        BY <3>5, <3>6, <3>7, <3>8, <2>1 DEF Reached
      <3> QED
        BY <2>2, <3>2, <3>3, <3>9
    <2>4. CASE Between(a)
      <3>1. /\ requests[a].first \in 0 .. MaxEntry /\ balances[a] = BalanceAfter[a][requests[a].first]
            /\ Reached(a, requests[a].first)
        BY <2>4 DEF Between
      <3>2. requests[a].first # -1 /\ u.next = requests[a].first
        BY <3>1, <1>2, Numbers DEF Continues
      <3>3. balances[a] # NoBalance
        BY <3>1, <1>1, Numbers
      <3>4. db' = db /\ balance' = BalanceAfter[a][u.next]
        BY <3>1, <3>2, <3>3 DEF BeginUpdate, FirstUpdate
      <3>5. Reached(a, u.next)'
        BY <1>1, <3>1, <3>2, <3>4, ReachedFrame
      <3> QED
        BY <1>1, <2>2, <3>4, <3>5 DEF TypeOK
    <2> QED
      BY <1>3, <2>3, <2>4
  <1>5. TypeOK'
    BY <1>1, <1>4 DEF TypeOK
  <1>6. ASSUME NEW b \in Accounts
        PROVE  AccountOK(b)'
    <2>1. CASE b = a
      <3>1. Modified(Height)' = Modified(Height)
        BY <1>1 DEF Modified, Height
      <3>2. InProcess(b)'
        BY <1>1, <2>1, Numbers DEF InProcess
      <3>3. Reached(b, current.next)'
        BY <1>1, <1>4, <2>1
           DEF Reached, RightFrom, RightEntry, Extended, OnlyRight, ShowsFrom, Shows, Height
      <3>4. balance' = BalanceAfter[b][current'.next]
        BY <1>1, <1>4, <2>1
      <3>5. b \in Modified(Height) /\ b \in DOMAIN requests
            /\ requests[b].lastKnown = saved.row[b].last
        BY <2>1, <1>2, <1>3
      <3>6. (b \in Modified(Height) /\ b \in DOMAIN requests
               /\ requests[b].lastKnown = saved.row[b].last)'
        BY <3>1, <3>5, <1>1
      <3> QED
        BY <3>2, <3>3, <3>4, <3>6 DEF AccountOK
    <2>2. CASE b # a
      <3>1. AccountOK(b) /\ ~InProcess(b) /\ ~InProcess(b)'
        BY <1>1, <2>2 DEF OpenOK, InProcess
      <3>2. InProcess(b)' = InProcess(b)
        BY <3>1 DEF InProcess
      <3>3. db'.row[b] = db.row[b] /\ db'.history[b] = db.history[b]
        BY <1>4, <2>2
      <3> QED
        BY <1>1, <3>1, <3>2, <3>3, AccountFrame
    <2> QED
      BY <2>1, <2>2
  <1>7. ResponseOK'
    <2>1. ASSUME NEW v \in response'
          PROVE  UpdateOK(v)' /\ Continues(v)'
      <3>1. v \in response /\ v # u /\ UpdateOK(v) /\ Continues(v) /\ v.account # a
        BY <1>1 DEF OpenOK, ResponseOK
      <3> QED
        BY <1>1, <3>1 DEF UpdateOK, Continues, InProcess
    <2>2. (response # {} => asOf \in Height .. MaxHeight)'
      BY <1>1, <1>2 DEF Height
    <2>3. \A v, w \in response' : v.account = w.account => v = w
      BY <1>1 DEF OpenOK, ResponseOK
    <2> QED
      BY <2>1, <2>2, <2>3 DEF ResponseOK
  <1>8. CurrentOK'
    BY <1>1, <1>2 DEF CurrentOK, UpdateOK
  <1>9. OpenOK'
    BY <1>1, <1>6, <1>7, <1>8 DEF OpenOK, Height
  <1> QED
    BY <1>1, <1>5, <1>9, SavedFrame DEF IInv

\* A balance that is right after an entry is right before it once the entry is undone.
LEMMA UndoRight ==
    ASSUME NEW a \in Accounts, NEW k \in Entries
    PROVE  Undo(BalanceAfter[a][k], a, k) = BalanceAfter[a][k - 1]
  <1>1. k \in 0 .. MaxEntry /\ k - 1 \in 0 .. MaxEntry
    BY Numbers DEF Entries
  <1>2. BalanceAfter[a][k] \in Int /\ BalanceAfter[a][k - 1] \in Int
    BY <1>1, Numbers
  <1> QED
    BY <1>2 DEF Undo, IsPlus, Amount, Change

LEMMA CommitEntryStep == ASSUME IInv, CommitEntry PROVE IInv'
  <1> PICK a \in Accounts, n \in Entries : a = current.account /\ n = current.next
    <2>1. current \in Update /\ current.stop < current.next
      BY DEF IInv, TypeOK, CommitEntry
    <2> QED
      BY <2>1, Numbers DEF Update, Entries
  <1>1. /\ TypeOK /\ SavedOK /\ OpenOK /\ open /\ current # NoUpdate /\ current \in Update
        /\ a \in Accounts /\ current.stop < n
        /\ CommitAccountHistory(a, n, balance) /\ balance' = Undo(balance, a, n)
        /\ current' = [current EXCEPT !.next = n - 1]
        /\ UNCHANGED <<head, node, indexed, saved, open, requests, response, asOf, balances, faults>>
    BY DEF IInv, OpenOK, TypeOK, CommitEntry, chainVars, Update
  <1>2. /\ n \in Entries /\ n \in 0 .. MaxEntry /\ n - 1 \in 0 .. MaxEntry
        /\ current.stop \in 0 .. MaxEntry /\ current.stop <= n - 1
    BY <1>1, Numbers DEF Update, Entries
  <1>3. current' = [account |-> a, next |-> n - 1, stop |-> current.stop, empty |-> current.empty]
    BY <1>1 DEF Update
  <1>4. current' \in Update /\ current' # NoUpdate
    BY <1>1, <1>2, <1>3, Numbers DEF Update
  <1>5. /\ a \in DOMAIN requests /\ UpdateOK(current) /\ InProcess(a) /\ AccountOK(a)
        /\ Reached(a, n) /\ balance = BalanceAfter[a][n]
    BY <1>1 DEF OpenOK, CurrentOK, UpdateOK, InProcess, AccountOK
  <1>6. balance \in Int /\ balance' = BalanceAfter[a][n - 1] /\ balance' \in Int
    <2>1. Undo(BalanceAfter[a][n], a, n) = BalanceAfter[a][n - 1]
      BY <1>1, <1>2, UndoRight
    <2> QED
      BY <1>1, <1>2, <1>5, <2>1, Numbers
  <1>7. /\ db' \in Tables /\ db'.row = db.row
        /\ \A c \in Accounts : c # a => db'.history[c] = db.history[c]
        /\ \A i \in Entries : db'.history[a][i] = IF i = n THEN balance ELSE db.history[a][i]
    BY <1>1, <1>2, <1>6, EntryCommitted
  <1>8. Reached(a, n - 1)'
    <2>1. /\ db.row[a].last \in 0 .. MaxEntry /\ n <= db.row[a].last
          /\ Extended(a) /\ RightFrom(db, a, n) /\ ShowsFrom(db, a, Height)
      BY <1>1, <1>5, TableValues, Numbers DEF Reached, TypeOK
    <2>2. balance # NoBalance
      BY <1>6, Numbers
    <2>3. Extended(a)'
      BY <1>1, <1>5, <1>7, <2>1, <2>2 DEF Extended, OnlyRight, RightEntry
    <2>4. ShowsFrom(db, a, Height)'
      BY <1>1, <1>7, <2>1 DEF ShowsFrom, Shows, Height
    <2>5. RightFrom(db, a, n - 1)'
      <3> SUFFICES ASSUME NEW k \in (n - 1) + 1 .. db.row[a].last
                   PROVE  db'.history[a][k] = BalanceAfter[a][k]
        BY <1>7 DEF RightFrom, RightEntry
      <3>1. k \in Entries /\ (k = n \/ k \in n + 1 .. db.row[a].last)
        BY <1>2, <2>1, Numbers DEF Entries
      <3> QED
        BY <3>1, <1>5, <1>7, <2>1 DEF RightFrom, RightEntry
    <2>6. (n - 1) \in 0 .. db'.row[a].last
      BY <1>2, <1>7, <2>1, Numbers
    <2> QED
      BY <2>3, <2>4, <2>5, <2>6, <1>1 DEF Reached, RightFrom
  <1>9. TypeOK'
    BY <1>1, <1>4, <1>6, <1>7 DEF TypeOK
  <1>10. ASSUME NEW b \in Accounts
         PROVE  AccountOK(b)'
    <2>1. AccountOK(b)
      BY <1>1 DEF OpenOK
    <2>2. CASE b = a
      <3>1. Modified(Height)' = Modified(Height)
        BY <1>1 DEF Modified, Height
      <3>2. InProcess(b)'
        BY <1>3, <1>4, <2>2 DEF InProcess
      <3>3. Reached(b, current.next)'
        BY <1>3, <1>8, <2>2
           DEF Reached, RightFrom, RightEntry, Extended, OnlyRight, ShowsFrom, Shows, Height
      <3>4. balance' = BalanceAfter[b][current'.next]
        BY <1>3, <1>6, <2>2
      <3>5. b \in Modified(Height) /\ b \in DOMAIN requests
            /\ requests[b].lastKnown = saved.row[b].last
        BY <2>1, <2>2, <1>5 DEF AccountOK
      <3>6. (b \in Modified(Height) /\ b \in DOMAIN requests
               /\ requests[b].lastKnown = saved.row[b].last)'
        BY <3>1, <3>5, <1>1
      <3> QED
        BY <3>2, <3>3, <3>4, <3>6 DEF AccountOK
    <2>3. CASE b # a
      <3>1. InProcess(b)' = InProcess(b) /\ ~InProcess(b)
        BY <1>3, <2>3 DEF InProcess
      <3>2. db'.row[b] = db.row[b] /\ db'.history[b] = db.history[b]
        BY <1>7, <2>3
      <3> QED
        BY <1>1, <2>1, <3>1, <3>2, AccountFrame
    <2> QED
      BY <2>2, <2>3
  <1>11. ResponseOK'
    <2>1. ASSUME NEW v \in response'
          PROVE  UpdateOK(v)' /\ Continues(v)'
      <3>1. v \in response /\ UpdateOK(v) /\ Continues(v) /\ v.account # a
        BY <1>1 DEF OpenOK, ResponseOK, Continues, InProcess
      <3> QED
        BY <1>1, <1>3, <3>1 DEF UpdateOK, Continues, InProcess
    <2>2. (response # {} => asOf \in Height .. MaxHeight)'
      BY <1>1 DEF OpenOK, ResponseOK, Height
    <2>3. \A v, w \in response' : v.account = w.account => v = w
      BY <1>1 DEF OpenOK, ResponseOK
    <2> QED
      BY <2>1, <2>2, <2>3 DEF ResponseOK
  <1>12. CurrentOK'
    BY <1>1, <1>2, <1>3, <1>5 DEF CurrentOK, UpdateOK
  <1>13. OpenOK'
    BY <1>1, <1>10, <1>11, <1>12 DEF OpenOK, Height
  <1> QED
    BY <1>1, <1>9, <1>13, SavedFrame DEF IInv

LEMMA FinishUpdateStep == ASSUME IInv, FinishUpdate PROVE IInv'
  <1> PICK a \in Accounts, s \in 0 .. MaxEntry : a = current.account /\ s = current.stop
    BY DEF IInv, TypeOK, FinishUpdate, Update
  <1>1. /\ TypeOK /\ SavedOK /\ OpenOK /\ open /\ current # NoUpdate /\ current \in Update
        /\ a \in Accounts /\ current.next = s /\ s \in 0 .. MaxEntry
        /\ balances' = [balances EXCEPT ![a] = balance]
        /\ current' = NoUpdate
        /\ UNCHANGED <<head, node, indexed, db, saved, open, response, asOf, balance, faults>>
    BY DEF IInv, OpenOK, TypeOK, FinishUpdate, chainVars, Update
  <1>2. /\ a \in DOMAIN requests /\ UpdateOK(current) /\ InProcess(a) /\ AccountOK(a)
        /\ Reached(a, s) /\ balance = BalanceAfter[a][s] /\ a \in Modified(Height)
        /\ requests[a].lastKnown = saved.row[a].last
    BY <1>1 DEF OpenOK, CurrentOK, UpdateOK, InProcess, AccountOK
  <1>3. /\ requests \in [DOMAIN requests -> Request] /\ DOMAIN requests \subseteq Accounts
        /\ balances \in [Accounts -> Int \cup {NoBalance}]
    BY <1>1 DEF TypeOK
  <1>4. /\ balances'[a] = BalanceAfter[a][s]
        /\ \A b \in Accounts : b # a => balances'[b] = balances[b]
        /\ balances' \in [Accounts -> Int \cup {NoBalance}]
    BY <1>1, <1>2, <1>3 DEF TypeOK
  <1> DEFINE Others == /\ requests' \in [DOMAIN requests' -> Request]
                       /\ DOMAIN requests' \subseteq DOMAIN requests
                       /\ \A b \in DOMAIN requests : b # a =>
                             b \in DOMAIN requests' /\ requests'[b] = requests[b]
  <1>5. ASSUME EndOfHistory(current)
        PROVE  Others /\ AccountOK(a)'
    <2>1. /\ DOMAIN requests' = DOMAIN requests \ {a}
          /\ \A b \in DOMAIN requests : b # a => requests'[b] = requests[b]
          /\ requests' \in [DOMAIN requests' -> Request]
      BY <1>3, <1>5 DEF FinishUpdate, Without
    <2>2. Reached(a, 0)
      <3>1. s = 0 \/ s = saved.row[a].last
        BY <1>2, <1>5 DEF EndOfHistory, UpdateOK
      <3>2. CASE s = 0
        BY <1>2, <3>2 DEF Reached, RightFrom
      <3>3. CASE s = saved.row[a].last
        <4>1. /\ OnlyRight(saved, a) /\ RightFrom(saved, a, 0)
              /\ db.row[a].last \in 0 .. MaxEntry /\ saved.row[a].last \in 0 .. MaxEntry
          BY <1>1, TableValues DEF SavedOK, TypeOK
        <4>2. /\ Extended(a) /\ RightFrom(db, a, s) /\ ShowsFrom(db, a, Height)
          BY <1>2 DEF Reached
        <4>3. ASSUME NEW k \in 0 + 1 .. db.row[a].last
              PROVE  RightEntry(db, a, k)
          <5>1. k \in Entries /\ k \in 0 .. MaxEntry
            BY <4>1, Numbers DEF Entries
          <5>2. CASE k > s
            <6>1. k \in s + 1 .. db.row[a].last
              BY <5>2, <1>1, <4>1, Numbers
            <6> QED
              BY <6>1, <4>2 DEF RightFrom
          <5>3. CASE k <= s
            <6>1. RightEntry(saved, a, k)
              BY <5>3, <3>3, <4>1, Numbers DEF RightFrom
            <6>2. BalanceAfter[a][k] # NoBalance
              BY <1>1, <5>1, Numbers
            <6> QED
              BY <6>1, <6>2, <5>1, <4>2 DEF RightEntry, Extended, OnlyRight
          <5> QED
            BY <5>2, <5>3, <1>1, <4>1, Numbers
        <4>4. RightFrom(db, a, 0) /\ 0 \in 0 .. db.row[a].last
          BY <4>1, <4>3, Numbers DEF RightFrom
        <4> QED
          BY <4>2, <4>4 DEF Reached
      <3> QED
        BY <3>1, <3>2, <3>3
    <2>3. Reached(a, 0)'
      BY <1>1, <2>2, ReachedFrame
    <2>4. AccountOK(a)'
      <3>1. Modified(Height)' = Modified(Height)
        BY <1>1 DEF Modified, Height
      <3> QED
        BY <1>1, <1>2, <2>1, <2>3, <3>1
           DEF AccountOK, Reached, RightFrom, RightEntry, Extended, OnlyRight, ShowsFrom, Shows, Height
    <2> QED
      BY <2>1, <2>4
  <1>6. ASSUME ~EndOfHistory(current)
        PROVE  Others /\ AccountOK(a)'
    <2>1. requests' = [requests EXCEPT ![a].first = s]
      BY <1>6 DEF FinishUpdate
    <2>2. /\ requests[a] \in Request /\ s \in -1 .. MaxEntry
          /\ requests'[a] = [requests[a] EXCEPT !.first = s]
          /\ DOMAIN requests' = DOMAIN requests
          /\ \A b \in DOMAIN requests : b # a => requests'[b] = requests[b]
      BY <1>2, <1>3, <2>1, Numbers
    <2>3. /\ requests'[a].first = s /\ requests'[a].lastKnown = requests[a].lastKnown
          /\ requests'[a] \in Request
      BY <2>2 DEF Request
    <2>4. Others
      BY <1>3, <2>1, <2>2, <2>3
    <2>5. Reached(a, requests[a].first)'
      BY <1>1, <1>2, <2>3
         DEF Reached, RightFrom, RightEntry, Extended, OnlyRight, ShowsFrom, Shows, Height
    <2>6. Between(a)'
      BY <1>4, <2>3, <2>5 DEF Between
    <2>7. Modified(Height)' = Modified(Height) /\ ~InProcess(a)'
      BY <1>1 DEF Modified, Height, InProcess
    <2>8. AccountOK(a)'
      BY <1>1, <1>2, <2>2, <2>3, <2>6, <2>7 DEF AccountOK
    <2> QED
      BY <2>4, <2>8
  <1>7. Others /\ AccountOK(a)'
    BY <1>5, <1>6
  <1>8. TypeOK'
    BY <1>1, <1>3, <1>4, <1>7 DEF TypeOK
  <1>9. ASSUME NEW b \in Accounts, b # a
        PROVE  AccountOK(b)'
    <2>1. AccountOK(b) /\ (b \in DOMAIN requests' <=> b \in DOMAIN requests)
          /\ (b \in DOMAIN requests => requests'[b] = requests[b])
      BY <1>1, <1>7, <1>9 DEF OpenOK
    <2>2. InProcess(b)' = InProcess(b) /\ ~InProcess(b)
      BY <1>1, <1>9 DEF InProcess
    <2> QED
      BY <1>1, <1>4, <1>9, <2>1, <2>2, AccountFrame
  <1>10. \A b \in Accounts : AccountOK(b)'
    <2>1. ASSUME NEW b \in Accounts, b = a
          PROVE  AccountOK(b)'
      BY <1>7, <2>1
         DEF AccountOK, Same, Fresh, Between, InProcess, Reached, RightFrom, RightEntry, Extended,
             OnlyRight, ShowsFrom, Shows
    <2> QED
      BY <1>9, <2>1
  <1>11. ResponseOK'
    <2>1. ASSUME NEW v \in response'
          PROVE  UpdateOK(v)' /\ Continues(v)'
      <3>1. v \in response /\ UpdateOK(v) /\ Continues(v) /\ v.account # a
        BY <1>1, <1>2 DEF OpenOK, ResponseOK, Continues, InProcess
      <3> QED
        BY <1>1, <1>7, <3>1 DEF UpdateOK, Continues, InProcess
    <2>2. (response # {} => asOf \in Height .. MaxHeight)'
      BY <1>1 DEF OpenOK, ResponseOK, Height
    <2>3. \A v, w \in response' : v.account = w.account => v = w
      BY <1>1 DEF OpenOK, ResponseOK
    <2> QED
      BY <2>1, <2>2, <2>3 DEF ResponseOK
  <1>12. OpenOK'
    BY <1>1, <1>10, <1>11 DEF OpenOK, CurrentOK, Height
  <1> QED
    BY <1>1, <1>8, <1>12, SavedFrame DEF IInv

\* The next block is committed: every account shows it.
LEMMA CommitFacts ==
    ASSUME IInv, Commit
    PROVE  /\ IInv'
           /\ indexed' = indexed + 1 /\ indexed' \in 1 .. MaxHeight /\ saved' = db
           /\ \A a \in Accounts : Extended(a) /\ RightFrom(db, a, 0) /\ ShowsFrom(db, a, Height)
  <1>1. /\ TypeOK /\ SavedOK /\ OpenOK /\ open /\ DOMAIN requests = {}
        /\ open' = FALSE /\ indexed' = Height /\ saved' = db /\ db' = db
        /\ DOMAIN requests' = {} /\ requests' \in [DOMAIN requests' -> Request]
        /\ response' = {} /\ asOf' = 0 /\ current' = NoUpdate /\ balance' = 0
        /\ balances' = [a \in Accounts |-> NoBalance]
        /\ UNCHANGED <<head, node, faults>>
    BY DEF IInv, Commit, NoRounds, chainVars
  <1>2. /\ indexed \in 0 .. MaxHeight /\ Height = indexed + 1 /\ Height <= head[node]
        /\ head[node] \in 0 .. MaxHeight /\ Height \in 1 .. MaxHeight
    BY <1>1, Numbers DEF OpenOK, TypeOK, Height
  <1>3. ASSUME NEW a \in Accounts
        PROVE  Extended(a) /\ RightFrom(db, a, 0) /\ ShowsFrom(db, a, Height)
    <2>1. AccountOK(a)
      BY <1>1 DEF OpenOK
    <2>2. CASE a \in Modified(Height)
      BY <2>1, <2>2, <1>1 DEF AccountOK, Reached
    <2>3. CASE a \notin Modified(Height)
      <3>1. /\ Same(a) /\ State[Height][a] = State[indexed][a]
            /\ OnlyRight(saved, a) /\ RightFrom(saved, a, 0) /\ ShowsFrom(saved, a, indexed)
        BY <1>1, <1>2, <2>1, <2>3 DEF AccountOK, Modified, SavedOK
      <3>2. PICK i \in indexed .. MaxHeight : Shows(saved, a, i)
        BY <3>1 DEF ShowsFrom
      <3>3. Shows(db, a, i) /\ (i = indexed => Shows(db, a, Height))
        BY <3>1, <3>2 DEF Shows, Same
      <3>4. ShowsFrom(db, a, Height)
        <4>1. i = indexed \/ i \in Height .. MaxHeight
          BY <1>2, <3>2, Numbers
        <4>2. Height \in Height .. MaxHeight
          BY <1>2, Numbers
        <4> QED
          BY <3>3, <4>1, <4>2 DEF ShowsFrom
      <3> QED
        BY <3>1, <3>4 DEF Same, Extended, OnlyRight, RightEntry, RightFrom
    <2> QED
      BY <2>2, <2>3
  <1>4. SavedOK'
    BY <1>1, <1>3 DEF SavedOK, Extended, OnlyRight, RightEntry, RightFrom, ShowsFrom, Shows
  <1>5. TypeOK'
    <2>1. balances' \in [Accounts -> Int \cup {NoBalance}] /\ balance' \in Int
      BY <1>1
    <2>2. asOf' \in 0 .. MaxHeight /\ indexed' \in 0 .. MaxHeight
      BY <1>1, <1>2, Numbers
    <2>3. DOMAIN requests' \subseteq Accounts /\ response' \subseteq Update
      BY <1>1
    <2> QED
      BY <1>1, <2>1, <2>2, <2>3 DEF TypeOK
  <1>6. OpenOK'
    BY <1>1 DEF OpenOK
  <1> QED
    BY <1>1, <1>2, <1>3, <1>4, <1>5, <1>6 DEF IInv

LEMMA FailStep == ASSUME IInv, Fail PROVE IInv'
  <1>1. /\ TypeOK /\ SavedOK /\ open' = FALSE /\ db' = saved
        /\ DOMAIN requests' = {} /\ requests' \in [DOMAIN requests' -> Request]
        /\ response' = {} /\ asOf' = 0 /\ current' = NoUpdate /\ balance' = 0
        /\ balances' = [a \in Accounts |-> NoBalance]
        /\ node' \in Nodes /\ faults < MaxFaults /\ faults' = faults + 1
        /\ UNCHANGED <<head, indexed, saved>>
    BY DEF IInv, Fail, Rollback, NoRounds
  <1>2. TypeOK'
    <2>1. balances' \in [Accounts -> Int \cup {NoBalance}] /\ balance' \in Int
      BY <1>1
    <2>2. asOf' \in 0 .. MaxHeight /\ faults' \in 0 .. MaxFaults
      BY <1>1, Numbers DEF TypeOK
    <2>3. DOMAIN requests' \subseteq Accounts /\ response' \subseteq Update
      BY <1>1
    <2> QED
      BY <1>1, <2>1, <2>2, <2>3 DEF TypeOK
  <1>3. OpenOK'
    BY <1>1 DEF OpenOK
  <1> QED
    BY <1>1, <1>2, <1>3, SavedFrame DEF IInv

LEMMA AdvanceStep == ASSUME IInv, NEW n \in Nodes, NodeAdvances(n) PROVE IInv'
  <1>1. /\ TypeOK /\ SavedOK /\ OpenOK
        /\ head[n] < MaxHeight /\ head' = [head EXCEPT ![n] = @ + 1]
        /\ UNCHANGED <<node, indexed, db, saved, open, requests, response, asOf, current, balance,
                       balances, faults>>
    BY DEF IInv, NodeAdvances, roundVars
  <1>2. /\ head' \in [Nodes -> 0 .. MaxHeight]
        /\ head[node] <= head'[node] /\ head[node] \in Nat /\ head'[node] \in Nat
    BY <1>1, Numbers DEF TypeOK
  <1>3. TypeOK'
    BY <1>1, <1>2 DEF TypeOK
  <1>4. ASSUME open
        PROVE  OpenOK'
    <2>1. ASSUME NEW a \in Accounts
          PROVE  AccountOK(a)'
      <3>1. AccountOK(a) /\ InProcess(a)' = InProcess(a)
        BY <1>1, <1>4 DEF OpenOK, InProcess
      <3> QED
        BY <1>1, <3>1, AccountFrame
    <2>2. ResponseOK' /\ CurrentOK'
      BY <1>1, <1>4
         DEF OpenOK, ResponseOK, CurrentOK, UpdateOK, Continues, InProcess, Height
    <2>3. (Height <= head[node])'
      BY <1>1, <1>2, <1>4, Numbers DEF OpenOK, Height, TypeOK
    <2> QED
      BY <1>1, <1>4, <2>1, <2>2, <2>3 DEF OpenOK
  <1>5. ~open => OpenOK'
    BY <1>1 DEF OpenOK
  <1> QED
    BY <1>1, <1>3, <1>4, <1>5, SavedFrame DEF IInv

-----------------------------------------------------------------------------

LEMMA StepKeeps == IInv /\ [Next]_vars => IInv'
  <1> SUFFICES ASSUME IInv, [Next]_vars PROVE IInv'
    OBVIOUS
  <1>1. CASE Begin
    BY <1>1, BeginStep
  <1>2. CASE FetchUpdates
    BY <1>2, FetchStep
  <1>3. ASSUME NEW u \in response, BeginUpdate(u) PROVE IInv'
    BY <1>3, BeginUpdateStep
  <1>4. CASE CommitEntry
    BY <1>4, CommitEntryStep
  <1>5. CASE FinishUpdate
    BY <1>5, FinishUpdateStep
  <1>6. CASE Commit
    BY <1>6, CommitFacts
  <1>7. CASE Fail
    BY <1>7, FailStep
  <1>8. ASSUME NEW n \in Nodes, NodeAdvances(n) PROVE IInv'
    BY <1>8, AdvanceStep
  <1>9. CASE UNCHANGED vars
    <2>1. /\ UNCHANGED <<head, node, indexed, db, saved, open, requests, response, asOf, current,
                         balance, balances, faults>>
      BY <1>9 DEF vars, chainVars, roundVars
    <2>2. TypeOK'
      BY <2>1 DEF IInv, TypeOK
    <2>3. \A a \in Accounts : AccountOK(a) => AccountOK(a)'
      BY <2>1, AccountFrame DEF InProcess
    <2>4. ResponseOK => ResponseOK'
      BY <2>1 DEF ResponseOK, UpdateOK, Continues, InProcess, Height
    <2>5. OpenOK'
      BY <2>1, <2>3, <2>4 DEF IInv, OpenOK, CurrentOK, UpdateOK, Height
    <2> QED
      BY <2>1, <2>2, <2>5, SavedFrame DEF IInv
  <1> QED
    BY <1>1, <1>2, <1>3, <1>4, <1>5, <1>6, <1>7, <1>8, <1>9 DEF Next, ServiceStep

LEMMA Invariance == Spec => []IInv
  BY InitHolds, StepKeeps, PTL DEF Spec

\* Every variable has its type.
THEOREM Types == Spec => []TypeOK
  <1>1. IInv => TypeOK
    BY DEF IInv
  <1> QED
    BY <1>1, Invariance, PTL

\* The committed history of every account is complete and right, however the rounds
\* were cut and whichever nodes answered them.
THEOREM Complete == Spec => []HistoryComplete
  <1>1. IInv => HistoryComplete
    BY DEF IInv, SavedOK, RightFrom, RightEntry, HistoryComplete
  <1> QED
    BY <1>1, Invariance, PTL

\* The committed rows of every account are a state it had at or after the last indexed
\* block, although the updates come from a later block than the one being stored.
THEOREM Current == Spec => []AccountsCurrent
  <1>1. IInv => AccountsCurrent
    BY DEF IInv, SavedOK, ShowsFrom, AccountsCurrent
  <1> QED
    BY <1>1, Invariance, PTL

\* Whatever a handler reads of an account's history, also while it is being fetched,
\* is an entry of the chain with the balance after it.
THEOREM ReadEntries == Spec => []EntriesRight
  <1>1. IInv => EntriesRight
    <2> SUFFICES ASSUME IInv, NEW a \in Accounts
                 PROVE  AccountHistory(db, a) \subseteq {Ledger!Entry(a, k) : k \in Entries}
      BY DEF EntriesRight
    <2>1. OnlyRight(db, a)
      <3>1. CASE open
        <4>1. AccountOK(a) /\ OnlyRight(saved, a)
          BY <3>1 DEF IInv, OpenOK, SavedOK
        <4>2. Same(a) => OnlyRight(db, a)
          BY <4>1 DEF Same, OnlyRight, RightEntry
        <4>3. \A n : Reached(a, n) => OnlyRight(db, a)
          BY DEF Reached, Extended
        <4> QED
          BY <4>1, <4>2, <4>3 DEF AccountOK, Fresh, Between
      <3>2. CASE ~open
        BY <3>2 DEF IInv, OpenOK, SavedOK
      <3> QED
        BY <3>1, <3>2
    <2> QED
      BY <2>1 DEF OnlyRight, RightEntry, AccountHistory, Ledger!Entry
  <1> QED
    BY <1>1, Invariance, PTL

-----------------------------------------------------------------------------
(* The refinement *)

\* What a commit adds to the ledger of an account: its entries up to its new state.
LEMMA LedgerExtends ==
    ASSUME IInv, NEW a \in Accounts, Extended(a), RightFrom(db, a, 0)
    PROVE  LedgerOf(db)[a] = LedgerOf(saved)[a]
                               \cup {Ledger!Entry(a, k) : k \in 1 .. db.row[a].last}
  <1>1. /\ db.row[a].last \in 0 .. MaxEntry
        /\ \A k \in Entries : RightEntry(saved, a, k) \/ saved.history[a][k] = NoBalance
        /\ \A k \in Entries : BalanceAfter[a][k] # NoBalance
    BY TableValues, Numbers DEF IInv, SavedOK, TypeOK, OnlyRight, Entries
  <1>2. \A k \in Entries : db.history[a][k] # NoBalance
                             <=> saved.history[a][k] # NoBalance \/ k \in 1 .. db.row[a].last
    <2> TAKE k \in Entries
    <2>1. k \in Nat /\ 1 <= k
      BY Numbers DEF Entries
    <2>2. k \in 1 .. db.row[a].last => db.history[a][k] = BalanceAfter[a][k]
      BY DEF RightFrom, RightEntry
    <2>3. db.history[a][k] # NoBalance => saved.history[a][k] # NoBalance \/ k <= db.row[a].last
      BY DEF Extended
    <2>4. saved.history[a][k] # NoBalance => db.history[a][k] # NoBalance
      BY DEF Extended
    <2>5. k <= db.row[a].last => k \in 1 .. db.row[a].last
      BY <1>1, <2>1
    <2> QED
      BY <1>1, <2>2, <2>3, <2>4, <2>5
  <1>3. \A k \in Entries : db.history[a][k] # NoBalance => db.history[a][k] = BalanceAfter[a][k]
    BY DEF Extended, OnlyRight, RightEntry
  <1>4. LedgerOf(db)[a] = {Ledger!Entry(a, k) : k \in {i \in Entries : db.history[a][i] # NoBalance}}
    BY <1>3 DEF LedgerOf, AccountHistory, Ledger!Entry
  <1>5. LedgerOf(saved)[a]
           = {Ledger!Entry(a, k) : k \in {i \in Entries : saved.history[a][i] # NoBalance}}
    BY <1>1 DEF LedgerOf, AccountHistory, Ledger!Entry, RightEntry
  <1>6. {i \in Entries : db.history[a][i] # NoBalance}
           = {i \in Entries : saved.history[a][i] # NoBalance} \cup 1 .. db.row[a].last
    <2>1. 1 .. db.row[a].last \subseteq Entries
      BY <1>1, Numbers DEF Entries
    <2> QED
      BY <1>2, <2>1
  <1> QED
    BY <1>4, <1>5, <1>6

LEMMA LedgerStep ==
    IInv /\ [Next]_vars => [Ledger!IndexBlock]_<<indexed, LedgerOf(saved)>>
  <1> SUFFICES ASSUME IInv, [Next]_vars
               PROVE  [Ledger!IndexBlock]_<<indexed, LedgerOf(saved)>>
    OBVIOUS
  <1>1. CASE Commit
    <2>1. /\ indexed' = indexed + 1 /\ indexed' \in 1 .. MaxHeight /\ saved' = db
          /\ \A a \in Accounts : Extended(a) /\ RightFrom(db, a, 0) /\ ShowsFrom(db, a, Height)
      BY <1>1, CommitFacts
    <2> DEFINE reached == [a \in Accounts |-> db.row[a].last]
    <2>2. reached \in [Accounts -> 0 .. MaxEntry]
      BY TableValues DEF IInv, TypeOK
    <2>3. indexed < MaxHeight
      BY <2>1, Numbers DEF IInv, TypeOK
    <2>4. ASSUME NEW a \in Accounts
          PROVE  State[indexed'][a].last <= reached[a]
      <3>1. PICK i \in Height .. MaxHeight : Shows(db, a, i)
        BY <2>1 DEF ShowsFrom
      <3>2. Height = indexed' /\ Height \in 0 .. MaxHeight /\ i \in 0 .. MaxHeight /\ Height <= i
        BY <2>1, <3>1, Numbers DEF Height, IInv, TypeOK
      <3>3. State[Height][a].last <= State[i][a].last
        BY <3>2, AccountSyncAssumption
      <3> QED
        BY <3>1, <3>2, <3>3 DEF Shows
    <2>5. LedgerOf(saved)' = [a \in Accounts |-> LedgerOf(saved)[a]
                                 \cup {Ledger!Entry(a, k) : k \in 1 .. reached[a]}]
      <3>1. LedgerOf(saved)' = LedgerOf(db)
        BY <2>1 DEF LedgerOf, AccountHistory
      <3>2. LedgerOf(db) = [a \in Accounts |-> LedgerOf(db)[a]]
        BY DEF LedgerOf
      <3>3. \A a \in Accounts : LedgerOf(db)[a] = LedgerOf(saved)[a]
                                   \cup {Ledger!Entry(a, k) : k \in 1 .. reached[a]}
        BY <2>1, LedgerExtends
      <3> QED
        BY <3>1, <3>2, <3>3
    <2> HIDE DEF reached
    <2>6. Ledger!IndexBlock
      BY <2>1, <2>2, <2>3, <2>4, <2>5 DEF Ledger!IndexBlock
    <2> QED
      BY <2>6
  <1>2. CASE ~Commit
    <2>1. UNCHANGED <<indexed, saved>>
      BY <1>2 DEF Next, ServiceStep, Begin, FetchUpdates, BeginUpdate, CommitEntry, FinishUpdate,
                  Fail, NodeAdvances, vars
    <2> QED
      BY <2>1 DEF LedgerOf, AccountHistory
  <1> QED
    BY <1>1, <1>2

\* The tables implement a ledger that is only extended, and that has every entry of
\* the indexed blocks.
THEOREM Refinement == Spec => ImplementsLedger
  <1>1. Init => Ledger!Init
    <2> SUFFICES ASSUME Init PROVE Ledger!Init
      OBVIOUS
    <2>1. \A a \in Accounts : \A k \in Entries : saved.history[a][k] = NoBalance
      BY DEF Init, EmptyTables
    <2>2. LedgerOf(saved) = [a \in Accounts |-> {}]
      BY <2>1 DEF LedgerOf, AccountHistory
    <2> QED
      BY <2>2 DEF Init, Ledger!Init
  <1> QED
    BY <1>1, LedgerStep, Invariance, PTL DEF Spec, ImplementsLedger, Ledger!Spec

=============================================================================
