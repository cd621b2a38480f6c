---------------------------- MODULE AccountSync ----------------------------
(***************************************************************************)
(* SyncService.syncModifiedAccounts() and the account part of              *)
(* StateCommitService: inside the transaction of a block, the accounts the *)
(* block modified are brought to the state the node has NOW, and their     *)
(* histories are fetched in rounds, newest entry first, until the entry    *)
(* the database already has.                                               *)
(*                                                                         *)
(* The history hash of an account after its k-th entry stands as k, the    *)
(* null hash (and the empty default of the column) as 0.  The nodes are    *)
(* external: each follows the same chain at its own pace.                  *)
(***************************************************************************)
EXTENDS Integers

CONSTANTS
    Accounts, Nodes,
    LockKinds,      \* LockType: escrow, vesting, node staking
    MaxHeight,      \* bound: blocks of the chain
    MaxEntry,       \* bound: entries of one account
    State,          \* State[h][a]: [last, locks] of account a after block h
    BalanceAfter,   \* BalanceAfter[a][k]: its balance after its entry k
    PageSize,       \* entries of one account in one response
    NoBalance, NoUpdate,
    MaxFaults       \* bound: failures of the transaction

Entries == 1 .. MaxEntry
Locks   == [LockKinds -> Nat]

ASSUME AccountSyncAssumption ==
    /\ MaxHeight \in Nat /\ MaxEntry \in Nat /\ MaxFaults \in Nat
    /\ PageSize \in Nat \ {0}
    /\ NoBalance \notin Int
    /\ BalanceAfter \in [Accounts -> [0 .. MaxEntry -> Int]]
    /\ State \in [0 .. MaxHeight -> [Accounts -> [last : 0 .. MaxEntry, locks : Locks]]]
    /\ \A a \in Accounts : State[0][a] = [last |-> 0, locks |-> [t \in LockKinds |-> 0]]
    /\ \A a \in Accounts : BalanceAfter[a][0] = 0
    /\ \A h, i \in 0 .. MaxHeight, a \in Accounts : h <= i => State[h][a].last <= State[i][a].last

ASSUME NoUpdateAssumption ==
    NoUpdate \notin [account : Accounts, next : 0 .. MaxEntry, stop : 0 .. MaxEntry, empty : BOOLEAN]

\* AccountEntity and the three lock tables; AccountHistoryEntity, keyed by account and
\* height (one row per entry: a second save replaces it).
AccountRow == [known : BOOLEAN, last : 0 .. MaxEntry, balance : Int, locks : Locks]
Tables == [row     : [Accounts -> AccountRow],
           history : [Accounts -> [Entries -> Int \cup {NoBalance}]]]

VARIABLES
    head,       \* head[n]: last block node n has executed
    node,       \* the node in use
    indexed,    \* last block committed
    db,         \* the tables, as the transaction sees them
    saved,      \* the tables, as committed
    open,       \* the transaction of block indexed + 1 is open
    requests,   \* requestedAccountUpdates: account -> [lastKnown, first]
    response,   \* updates of the response not processed yet
    asOf,       \* block at which the node answered: its currentState
    current,    \* the update in process: [account, next, stop, empty]
    balance,    \* let balance
    balances,   \* balances: account -> its balance before the entries stored so far
    faults

chainVars == <<head, node>>
roundVars == <<requests, response, asOf, current, balance, balances>>
vars      == <<chainVars, indexed, db, saved, open, roundVars, faults>>

Height == indexed + 1

\* getBlockModifiedAccountsAtHeight()
Modified(h) == {a \in Accounts : State[h][a] # State[h - 1][a]}

EmptyTables ==
    [row     |-> [a \in Accounts |-> [known |-> FALSE, last |-> 0, balance |-> 0,
                                      locks |-> [t \in LockKinds |-> 0]]],
     history |-> [a \in Accounts |-> [k \in Entries |-> NoBalance]]]

NoRounds ==
    /\ requests' = [a \in {} |-> 0]
    /\ response' = {} /\ asOf' = 0 /\ current' = NoUpdate
    /\ balance' = 0 /\ balances' = [a \in Accounts |-> NoBalance]

Init ==
    /\ head = [n \in Nodes |-> 0] /\ node \in Nodes
    /\ indexed = 0 /\ db = EmptyTables /\ saved = EmptyTables
    /\ open = FALSE
    /\ requests = [a \in {} |-> 0]
    /\ response = {} /\ asOf = 0 /\ current = NoUpdate
    /\ balance = 0 /\ balances = [a \in Accounts |-> NoBalance]
    /\ faults = 0

-----------------------------------------------------------------------------
(* The rounds *)

Begin ==
    /\ ~open
    /\ Height <= head[node]
    /\ open' = TRUE
    /\ requests' = [a \in Modified(Height) |-> [lastKnown |-> db.row[a].last, first |-> -1]]
    /\ UNCHANGED <<chainVars, indexed, db, saved, response, asOf, current, balance, balances, faults>>

\* Newest entry the node still has to send, and the entry it stops at: the last
\* known one, or the beginning when it is not on the way (the node lags behind
\* the one that made it known).
Top(a)  == IF requests[a].first = -1 THEN State[head[node]][a].last ELSE requests[a].first
Stop(a) == IF requests[a].lastKnown <= Top(a) THEN requests[a].lastKnown ELSE 0

\* Where an update of the account may stop: the node sends some of its missing
\* entries, and none only if it misses none.
MayStop(a) == {k \in Stop(a) .. Top(a) : /\ Top(a) - k <= PageSize
                                         /\ k < Top(a) \/ Stop(a) = Top(a)}

\* getAccountUpdates(): an update for some of the requested accounts.
FetchUpdates ==
    /\ open /\ DOMAIN requests # {} /\ response = {} /\ current = NoUpdate
    /\ \E answered \in SUBSET DOMAIN requests \ {{}} : \E stop \in [answered -> 0 .. MaxEntry] :
          /\ \A a \in answered : stop[a] \in MayStop(a)
          /\ response' = {[account |-> a, next |-> Top(a), stop |-> stop[a],
                           empty |-> Top(a) = stop[a]] : a \in answered}
    /\ asOf' = head[node]
    /\ UNCHANGED <<chainVars, indexed, db, saved, open, requests, current, balance, balances, faults>>

\* Mutant of CommitLocks: the locks of the first kind are not deleted first.
AppendLocks(old, new) == [t \in LockKinds |-> old[t] + new[t]]

\* The rows of the account are deleted from the three lock tables, then every lock
\* of the state is inserted.
CommitLocks(old, new) == new

\* commitAccountAndLocks()
CommitAccountAndLocks(a) ==
    db' = [db EXCEPT !.row[a] = [known   |-> TRUE,
                                 last    |-> State[asOf][a].last,
                                 balance |-> BalanceAfter[a][State[asOf][a].last],
                                 locks   |-> CommitLocks(@.locks, State[asOf][a].locks)]]

\* Mutants of FirstUpdate: every round starts from the balance of its own response;
\* the account itself is never stored.
AlwaysFirst(a) == TRUE
NeverFirst(a) == FALSE

\* storedBalance === undefined
FirstUpdate(a) == balances[a] = NoBalance

BeginUpdate(u) ==
    /\ current = NoUpdate
    /\ response' = response \ {u}
    /\ current' = u
    /\ IF FirstUpdate(u.account)
       THEN /\ CommitAccountAndLocks(u.account)
            /\ balance' = BalanceAfter[u.account][State[asOf][u.account].last]
       ELSE /\ balance' = balances[u.account]
            /\ UNCHANGED db
    /\ UNCHANGED <<chainVars, indexed, saved, open, requests, asOf, balances, faults>>

\* Entry k: BK_PLUS in its type, and its amount.
Change(a, k) == BalanceAfter[a][k] - BalanceAfter[a][k - 1]
IsPlus(a, k) == Change(a, k) >= 0
Amount(a, k) == IF IsPlus(a, k) THEN Change(a, k) ELSE -Change(a, k)

\* The balance before entry k, from the one after it.
Undo(b, a, k) == IF IsPlus(a, k) THEN b - Amount(a, k) ELSE b + Amount(a, k)

\* commitAccountHistory(), one entry
CommitAccountHistory(a, k, newBalance) == db' = [db EXCEPT !.history[a][k] = newBalance]

CommitEntry ==
    /\ current # NoUpdate /\ current.next > current.stop
    /\ CommitAccountHistory(current.account, current.next, balance)
    /\ balance' = Undo(balance, current.account, current.next)
    /\ current' = [current EXCEPT !.next = @ - 1]
    /\ UNCHANGED <<chainVars, indexed, saved, open, requests, response, asOf, balances, faults>>

Without(a) == [b \in DOMAIN requests \ {a} |-> requests[b]]

\* Mutants of EndOfHistory: one response is taken to be all of them; an empty update
\* is not taken for the end.
AnyEnd(u) == TRUE
LastKnownOnly(u) == requests[u.account].lastKnown = u.stop

\* The update is empty, or its last entry follows the last known one.
EndOfHistory(u) == u.empty \/ requests[u.account].lastKnown = u.stop

FinishUpdate ==
    /\ current # NoUpdate /\ current.next = current.stop
    /\ balances' = [balances EXCEPT ![current.account] = balance]
    /\ requests' = IF EndOfHistory(current)
                   THEN Without(current.account)
                   ELSE [requests EXCEPT ![current.account].first = current.stop]
    /\ current' = NoUpdate
    /\ UNCHANGED <<chainVars, indexed, db, saved, open, response, asOf, balance, faults>>

\* The rest of the block, and COMMIT.
Commit ==
    /\ open /\ DOMAIN requests = {} /\ response = {} /\ current = NoUpdate
    /\ open' = FALSE
    /\ indexed' = Height
    /\ saved' = db
    /\ NoRounds
    /\ UNCHANGED <<chainVars, db, faults>>

-----------------------------------------------------------------------------
(* Faults *)

\* Mutant of Rollback: what the transaction wrote stays.
KeepTables == UNCHANGED db

Rollback == db' = saved

\* The node does not answer, answers for an account that was not requested or
\* throws; a later step of the block throws; the process is killed.  The next
\* synchronization uses another node.
Fail ==
    /\ open
    /\ faults < MaxFaults /\ faults' = faults + 1
    /\ open' = FALSE
    /\ Rollback
    /\ NoRounds
    /\ node' \in Nodes
    /\ UNCHANGED <<head, indexed, saved>>

NodeAdvances(n) ==
    /\ head[n] < MaxHeight
    /\ head' = [head EXCEPT ![n] = @ + 1]
    /\ UNCHANGED <<node, indexed, db, saved, open, roundVars, faults>>

-----------------------------------------------------------------------------

ServiceStep ==
    \/ Begin
    \/ FetchUpdates
    \/ \E u \in response : BeginUpdate(u)
    \/ CommitEntry
    \/ FinishUpdate
    \/ Commit

Next == ServiceStep \/ Fail \/ \E n \in Nodes : NodeAdvances(n)

Spec == Init /\ [][Next]_vars

\* Every call returns or throws; the nodes execute the blocks of their chain.
FairSpec == Spec /\ WF_vars(ServiceStep) /\ \A n \in Nodes : WF_vars(NodeAdvances(n))

-----------------------------------------------------------------------------
(* Properties *)

Request == [lastKnown : 0 .. MaxEntry, first : -1 .. MaxEntry]
Update  == [account : Accounts, next : 0 .. MaxEntry, stop : 0 .. MaxEntry, empty : BOOLEAN]

TypeOK ==
    /\ head \in [Nodes -> 0 .. MaxHeight] /\ node \in Nodes
    /\ indexed \in 0 .. MaxHeight
    /\ db \in Tables /\ saved \in Tables
    /\ open \in BOOLEAN
    /\ DOMAIN requests \subseteq Accounts /\ requests \in [DOMAIN requests -> Request]
    /\ response \subseteq Update
    /\ asOf \in 0 .. MaxHeight
    /\ current \in Update \cup {NoUpdate}
    /\ balance \in Int
    /\ balances \in [Accounts -> Int \cup {NoBalance}]
    /\ faults \in 0 .. MaxFaults

\* The committed history of an account has every entry up to the account's state,
\* each with the balance the chain had after it: the rounds of one block, of
\* several blocks and of several nodes fit together.
HistoryComplete ==
    \A a \in Accounts : \A k \in 1 .. saved.row[a].last :
        saved.history[a][k] = BalanceAfter[a][k]

\* The committed account rows and lock rows are a state the account had at or after
\* the last indexed block: no modified account is left behind, no lock is left over.
Shows(t, a, h) ==
    /\ t.row[a].last = State[h][a].last
    /\ t.row[a].balance = BalanceAfter[a][State[h][a].last]
    /\ t.row[a].locks = State[h][a].locks
AccountsCurrent ==
    \A a \in Accounts : \E h \in indexed .. MaxHeight : Shows(saved, a, h)

\* getAccountHistory(), for an account
AccountHistory(t, a) ==
    {[entry |-> k, newBalance |-> t.history[a][k]] :
        k \in {i \in Entries : t.history[a][i] # NoBalance}}

LedgerOf(t) == [a \in Accounts |-> AccountHistory(t, a)]

Ledger == INSTANCE AccountLedger WITH height <- indexed, ledger <- LedgerOf(saved)

\* The tables implement a ledger that is only extended: an entry that readers have
\* seen never changes its balance and never disappears, whichever node answers.
ImplementsLedger == Ledger!Spec

\* What a handler reads in the middle of the rounds is right as well: entries of the
\* chain, each with the balance after it, although older ones may still be missing.
EntriesRight ==
    \A a \in Accounts : AccountHistory(db, a) \subseteq {Ledger!Entry(a, k) : k \in Entries}

\* The rounds of a block end and every block is indexed, through failovers to nodes
\* that lag behind.
AllIndexed == <>(indexed = MaxHeight)
=============================================================================
