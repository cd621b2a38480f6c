---------------------------- MODULE MCAccountSync ----------------------------
(* Two accounts over three blocks.  a1 gets more entries than one response     *)
(* holds and loses a lock; a2 gains a lock without an entry, later an entry.   *)
EXTENDS AccountSync

CONSTANTS a1, a2, escrow, staking

NoLocks == [t \in LockKinds |-> 0]
Lock(k) == [t \in LockKinds |-> IF t = k THEN 1 ELSE 0]

At(k1, l1, k2, l2) ==
    [a \in Accounts |-> IF a = a1 THEN [last |-> k1, locks |-> l1] ELSE [last |-> k2, locks |-> l2]]

MCState ==
    [h \in 0 .. 3 |->
        IF h = 0 THEN At(0, NoLocks, 0, NoLocks)
        ELSE IF h = 1 THEN At(1, Lock(escrow), 0, Lock(staking))
        ELSE IF h = 2 THEN At(4, NoLocks, 0, Lock(staking))
        ELSE At(5, NoLocks, 1, Lock(staking))]

MCBalanceAfter ==
    [a \in Accounts |-> IF a = a1 THEN [k \in 0 .. 5 |-> <<0, 10, 7, 9, 4, 6>>[k + 1]]
                                  ELSE [k \in 0 .. 5 |-> k]]
=============================================================================
