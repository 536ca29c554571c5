--------------------------- MODULE StakeActivation ---------------------------
(***************************************************************************)
(* The part of a delegation that is effective, activating or deactivating  *)
(* in an epoch: the integer implementation (the _v2 functions of           *)
(* interface/src/state.rs) and the rate-limited share of the cluster's     *)
(* warmup or cooldown (interface/src/warmup_cooldown_allowance.rs).        *)
(*                                                                         *)
(* A stake history is a function from past epochs to the cluster's totals  *)
(* of effective, activating and deactivating stake in that epoch.  The two *)
(* loops of the code are recursive functions of the number of iterations.  *)
(***************************************************************************)
EXTENDS Integers, FiniteSets

CONSTANTS
    MaxU64,       \* the largest u64; as an epoch it means "never"
    MaxU128,      \* the largest u128, where the products saturate
    MaxEntries,   \* the number of past epochs the stake history sysvar keeps
    RateBps,      \* warmup and cooldown rate, in basis points
    BasisPoints   \* basis points in one unit

ASSUME ActivationConstants ==
    /\ MaxU64 \in Nat \ {0}
    /\ MaxU128 \in Nat
    /\ MaxU128 >= MaxU64 * BasisPoints
    /\ MaxEntries \in Nat \ {0}
    /\ BasisPoints \in Nat \ {0}
    /\ RateBps \in 1..BasisPoints

Never == MaxU64

\* StakeHistoryEntry: the cluster's totals of one epoch.
Entry == [effective : Nat, activating : Nat, deactivating : Nat]

Least(a, b) == IF a <= b THEN a ELSE b
Greatest(a, b) == IF a >= b THEN a ELSE b
SatSub(a, b) == IF a >= b THEN a - b ELSE 0

\* Mutant: the products wrap instead of saturating.
WrappingMul(a, b) == (a * b) % (MaxU128 + 1)

SatMul(a, b) == Least(a * b, MaxU128)

(***************************************************************************)
(* One account's share of the stake the whole cluster may warm up or cool  *)
(* down in an epoch, given the cluster's totals of the epoch before.       *)
(***************************************************************************)
StakeChangeAllowance(portion, clusterPortion, clusterEffective) ==
    IF 0 \in {portion, clusterPortion, clusterEffective}
    THEN 0
    ELSE Least(SatMul(SatMul(portion, clusterEffective), RateBps)
                  \div SatMul(clusterPortion, BasisPoints),
               portion)

ActivationAllowance(portion, entry) ==
    StakeChangeAllowance(portion, entry.activating, entry.effective)

DeactivationAllowance(portion, entry) ==
    StakeChangeAllowance(portion, entry.deactivating, entry.effective)

(***************************************************************************)
(* The entries a program sees in epoch now: past epochs only, the newest   *)
(* MaxEntries of them.                                                     *)
(***************************************************************************)
HasEntry(history, now, epoch) ==
    /\ epoch \in DOMAIN history
    /\ epoch < now
    /\ epoch >= now - MaxEntries

\* The first epochs of a loop that starts at epoch first and is left at the
\* first one that is not over, has no entry, or moved no stake of that kind.
LoopEpochs(field, first, last, history, now) ==
    {e \in first..last : \A past \in first..e :
                            /\ HasEntry(history, now, past)
                            /\ history[past][field] # 0}

\* Mutant: the last iteration may activate more than there is.
WarmupStepUncapped(d, history, n) ==
    LET entry == history[d.activation_epoch + n - 1]
    IN  [before \in Nat |->
            before + Greatest(ActivationAllowance(d.stake - before, entry), 1)]

(***************************************************************************)
(* WarmupStep(d, history, n) maps the amount activated before the n-th     *)
(* iteration of the warmup loop to the amount after it: at least a lamport *)
(* more, and never more than there is.                                     *)
(***************************************************************************)
WarmupStep(d, history, n) ==
    LET entry == history[d.activation_epoch + n - 1]
    IN  [before \in Nat |->
            Least(before + Greatest(ActivationAllowance(d.stake - before, entry), 1),
                  d.stake)]

Warmup(d, history) ==
    LET amount[n \in Nat] ==
          IF n = 0 THEN 0 ELSE WarmupStep(d, history, n)[amount[n - 1]]
    IN  amount

\* Mutant: the loop leaves out the last epoch.
WarmupIterationsLate(d, history, now) ==
    LET last == Least(now, Greatest(d.deactivation_epoch, d.activation_epoch + 1)) - 2
    IN  Cardinality(LoopEpochs("activating", d.activation_epoch, last, history, now))

\* Mutant: the loop does not stop at the deactivation epoch.
WarmupIterationsUnstopped(d, history, now) ==
    Cardinality(LoopEpochs("activating", d.activation_epoch, now - 1, history, now))

\* The iterations the loop does: it stops at the deactivation epoch as well.
WarmupIterations(d, history, now) ==
    LET last == Least(now, Greatest(d.deactivation_epoch, d.activation_epoch + 1)) - 1
    IN  Cardinality(LoopEpochs("activating", d.activation_epoch, last, history, now))

\* Effective and activating stake before any deactivation is applied.
StakeAndActivating(d, history, now) ==
    LET split(amount) == [effective |-> amount, activating |-> d.stake - amount]
    IN  CASE d.activation_epoch = Never -> split(d.stake)
          [] /\ d.activation_epoch # Never
             /\ \/ d.activation_epoch = d.deactivation_epoch
                \/ now < d.activation_epoch
             -> [effective |-> 0, activating |-> 0]
          [] OTHER ->
             IF now > d.activation_epoch
                /\ ~HasEntry(history, now, d.activation_epoch)
             THEN split(d.stake)
             ELSE split(Warmup(d, history)[WarmupIterations(d, history, now)])

\* Mutant: a share that rounds to nothing frees nothing.
CooldownStepUnclamped(d, history, n) ==
    LET entry == history[d.deactivation_epoch + n - 1]
    IN  [before \in Nat |-> SatSub(before, DeactivationAllowance(before, entry))]

(***************************************************************************)
(* CooldownStep(d, history, n) maps what is left before the n-th iteration *)
(* of the cooldown loop to what is left after it.                          *)
(***************************************************************************)
CooldownStep(d, history, n) ==
    LET entry == history[d.deactivation_epoch + n - 1]
    IN  [before \in Nat |->
            SatSub(before, Greatest(DeactivationAllowance(before, entry), 1))]

Cooldown(d, history, start) ==
    LET left[n \in Nat] ==
          IF n = 0 THEN start ELSE CooldownStep(d, history, n)[left[n - 1]]
    IN  left

\* Mutant: the loop leaves out the last epoch.
CooldownIterationsLate(d, history, now) ==
    Cardinality(LoopEpochs("deactivating", d.deactivation_epoch, now - 2,
                           history, now))

CooldownIterations(d, history, now) ==
    Cardinality(LoopEpochs("deactivating", d.deactivation_epoch, now - 1,
                           history, now))

\* The status of delegation d in epoch now.
StakeActivatingAndDeactivating(d, history, now) ==
    LET s    == StakeAndActivating(d, history, now)
        left == CASE now = d.deactivation_epoch -> s.effective
                  [] now # d.deactivation_epoch ->
                       IF HasEntry(history, now, d.deactivation_epoch)
                       THEN Cooldown(d, history, s.effective)
                              [CooldownIterations(d, history, now)]
                       ELSE 0
    IN  IF now < d.deactivation_epoch
        THEN [effective |-> s.effective, activating |-> s.activating,
              deactivating |-> 0]
        ELSE [effective |-> left, activating |-> 0, deactivating |-> left]

=============================================================================
