--------------------------- MODULE AccountLedger ---------------------------
(***************************************************************************)
(* What the account tables promise to their readers: every account has a   *)
(* ledger of its chain entries that is only ever extended, and once a      *)
(* block is indexed the ledgers have every entry up to that block.         *)
(***************************************************************************)
EXTENDS Integers

CONSTANTS
    Accounts,
    MaxHeight, MaxEntry,
    State,          \* State[h][a].last: entries of account a after block h
    BalanceAfter    \* BalanceAfter[a][k]: its balance after its entry k

VARIABLES
    height,   \* last block indexed
    ledger    \* ledger[a]: set of [entry, newBalance]

Entry(a, k) == [entry |-> k, newBalance |-> BalanceAfter[a][k]]

Init == height = 0 /\ ledger = [a \in Accounts |-> {}]

\* The next block is indexed: the ledgers may run ahead of it, never stay behind.
IndexBlock ==
    /\ height < MaxHeight
    /\ height' = height + 1
    /\ \E reached \in [Accounts -> 0 .. MaxEntry] :
          /\ \A a \in Accounts : State[height'][a].last <= reached[a]
          /\ ledger' = [a \in Accounts |->
                           ledger[a] \cup {Entry(a, k) : k \in 1 .. reached[a]}]

Spec == Init /\ [][IndexBlock]_<<height, ledger>>
=============================================================================
