------------------------------- MODULE MCValues -------------------------------
(***************************************************************************)
(* Values of the constants of StakeProgram for TLC.                        *)
(***************************************************************************)
EXTENDS StakeProgram, TLC

CONSTANTS
    a1, a2, a3,     \* stake accounts
    alice, bob,     \* keys that sign
    seeded,         \* an address derived from alice's with a seed
    nobody,         \* the default key
    v1, v2          \* vote accounts

\* The stake of the rest of the cluster.  In the first any stake here warms up
\* and cools down in one epoch.  In the others much stake elsewhere is cooling
\* down, and warming up, too, and what is here takes several epochs.
FastCluster    == {[effective |-> 300, activating |-> 0, deactivating |-> 0]}
BusyCluster    == {[effective |-> 300, activating |-> 60, deactivating |-> 60]}
CoolingCluster == {[effective |-> 300, activating |-> 0, deactivating |-> 60]}

NoSeeds == [k \in Keys |-> {}]
AliceSeed == [k \in Keys |-> IF k = alice THEN {seeded} ELSE {}]

OneSigner == {{alice}}
\* Uninitialized and closed accounts answer to their own keys.
SelfSigned == {{alice} \cup Accounts}
AnySigners == SUBSET {alice, bob}

LockedBy(epoch, time, custodian) ==
    [epoch |-> epoch, unix_timestamp |-> time, custodian |-> custodian]

\* Accounts are alike, and so are validators.
Symmetry == Permutations(Accounts) \cup Permutations(Voters)

NoLockup == {DefaultLockup}
EpochLockup == {DefaultLockup, LockedBy(1, 0, bob)}
UnlockEpoch == {LockedBy(0, Unset, Unset)}

TimeLockups == {DefaultLockup, LockedBy(0, 1, bob), LockedBy(1, 0, seeded)}
LockupEdits == {LockedBy(Unset, 0, Unset), LockedBy(1, Unset, alice)}

=============================================================================
