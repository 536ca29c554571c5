--------------------------- MODULE StakeProperties ---------------------------
(***************************************************************************)
(* What the stake program promises, stated over StakeProgram.              *)
(***************************************************************************)
EXTENDS StakeConsent

CONSTANT RoundingSlack
    \* Lamports a validator's effective stake may change by when accounts that
    \* warmed up or cooled down over several epochs are divided or joined: the
    \* loops of StakeActivation round each account's share down, but to a lamport
    \* at least.  Joined stake goes through the warmup of the destination anew,
    \* where such a lamport counts as often as the destination is contained in
    \* it: a bound on the slack is one on the ratio of the sizes, too.

ASSUME RoundingConstants == RoundingSlack \in Nat

-----------------------------------------------------------------------------
(* State of one account.                                                   *)

(***************************************************************************)
(* A stake account keeps the rent and the stake it may not be left without *)
(* (its delegation, or what is still effective once it is deactivated), as *)
(* long as rent does not change.  Every instruction that moves lamports    *)
(* has its own check, against balances, delegations or effective stake;    *)
(* the rescission of a deactivation turns the weaker lock back into the    *)
(* stronger one.                                                           *)
(***************************************************************************)
LocksCovered ==
    \A a \in Accounts : HasMeta(data[a]) => lamports[a] >= rent + LockedStake(a)

(***************************************************************************)
(* Whatever rent does, a delegation that is not deactivated never counts   *)
(* lamports the account does not hold.                                     *)
(***************************************************************************)
DelegationsBacked ==
    \A a \in StakeAccounts :
        data[a].stake.deactivation_epoch = Never =>
            lamports[a] >= data[a].stake.stake

(***************************************************************************)
(* Whatever rent does, and deactivated or not, the stake that votes with   *)
(* the cluster in this epoch is in the account.                            *)
(***************************************************************************)
EffectiveStakeBacked ==
    \A a \in StakeAccounts : lamports[a] >= Status(a).effective

(***************************************************************************)
(* Stake that was deactivated before it had warmed up in full is gone, or  *)
(* delegated anew, by the time the history forgets its activation.  After  *)
(* that the code takes the whole delegation for what was effective at the  *)
(* deactivation, and an account that has cooled down may count again.  The *)
(* theorems about deactivated stake assume this of the cluster.            *)
(***************************************************************************)
WarmedUpInTime ==
    \A a \in StakeAccounts :
        LET d == data[a].stake
        IN  \/ d.deactivation_epoch \in {d.activation_epoch, Never}
            \/ clock.epoch < d.activation_epoch + MaxEntries
            \/ StakeAndActivating(d, history, clock.epoch).effective = d.stake

(***************************************************************************)
(* No sequence of splits, moves, merges and delegations leaves a           *)
(* delegation below the minimum, in force or deactivated.                  *)
(***************************************************************************)
MinimumDelegated ==
    \A a \in StakeAccounts : data[a].stake.stake >= MinimumDelegation

(***************************************************************************)
(* The check that MoveStake makes last, when both accounts have been       *)
(* written ("this should be impossible"), never is the one that fails:     *)
(* the delegations that its math goes by are covered by lamports, while    *)
(* rent is constant.                                                       *)
(***************************************************************************)
MoveStakeCovered ==
    \A from \in StakeAccounts, to \in Accounts, S \in SignerSets :
        \A n \in 1..data[from].stake.stake :
            MoveStakeChecks(S, from, to, n) => MoveLeavesExempt(from, to, n)

(***************************************************************************)
(* Delegations come from the past, and deactivations from between the      *)
(* activation and now: copies made by Split and MoveStake and rescissions  *)
(* keep the order the status loops rely on.                                *)
(***************************************************************************)
EpochsOrdered ==
    \A a \in StakeAccounts :
        LET d == data[a].stake
        IN  /\ d.activation_epoch <= clock.epoch
            /\ d.deactivation_epoch
                  \in {Never} \cup d.activation_epoch..clock.epoch

(***************************************************************************)
(* Stake classed as in its activation epoch was delegated in this very     *)
(* epoch.  Merge adds every lamport of the source to such stake, which     *)
(* would be an instant activation for stake that started to warm up.       *)
(***************************************************************************)
ActivationEpochIsNow ==
    \A a \in StakeAccounts :
        Kind(a) = "ActivationEpoch" => data[a].stake.activation_epoch = clock.epoch

(***************************************************************************)
(* Every epoch after the deactivation takes at least one lamport away, so  *)
(* a deactivated account is always on its way to being withdrawable, also  *)
(* after it was split while cooling down.                                  *)
(***************************************************************************)
CooldownProgresses ==
    \A a \in StakeAccounts :
        LET d == data[a].stake
        IN  d.deactivation_epoch < clock.epoch =>
              Status(a).effective
                <= SatSub(d.stake, clock.epoch - d.deactivation_epoch)

-----------------------------------------------------------------------------
(* Steps.                                                                  *)

EffectiveOf(v) == MapThenSumSet(LAMBDA a : Status(a).effective, DelegatedTo(v))

(***************************************************************************)
(* Within an epoch no instruction changes the effective stake of any       *)
(* validator: there is no sequence of merges, moves, splits, delegations   *)
(* and rescissions that activates stake at once ("the magic activation     *)
(* loophole" of merge.rs), redelegates it or withdraws it, up to rounding. *)
(***************************************************************************)
EffectiveFixedInEpoch ==
    [][clock' = clock /\ data' # data =>
         \A v \in Voters :
            EffectiveOf(v)' - EffectiveOf(v) \in -RoundingSlack..RoundingSlack]_vars

(***************************************************************************)
(* No instruction raises the effective stake of a validator, however small *)
(* the delegations are and however little the cluster lets through: but    *)
(* for a lamport for each epoch, by which the parts of a split may gain    *)
(* from rounding.  (It may fall: stake that is merged into a delegation    *)
(* takes over the epoch in which that began to warm up.)                   *)
(***************************************************************************)
EffectiveNotRaised ==
    [][clock' = clock /\ data' # data =>
         \A v \in Voters : EffectiveOf(v)' - EffectiveOf(v) <= clock.epoch]_vars

(***************************************************************************)
(* When an epoch ends, stake that is not deactivated does not lose         *)
(* effective stake and deactivated stake does not gain any, though each    *)
(* status is computed anew from the history by delegations whose amounts   *)
(* have been split and merged since.                                       *)
(***************************************************************************)
WarmupAndCooldownMonotone ==
    [][clock'.epoch = clock.epoch + 1 =>
         \A a \in StakeAccounts :
            IF data[a].stake.deactivation_epoch = Never
            THEN Status(a)'.effective >= Status(a).effective
            ELSE Status(a)'.effective <= Status(a).effective]_vars

\* The credits not yet redeemed of v's effective stake, weighted by stake.
PointsOf(v) ==
    MapThenSumSet(LAMBDA a : data[a].stake.stake
                               * (Credits(v) - data[a].stake.credits_observed),
                  {a \in DelegatedTo(v) : Status(a).effective > 0})

(***************************************************************************)
(* No instruction raises the rewards due for effective stake: merging and  *)
(* moving average credits_observed, rounded towards fewer credits due.     *)
(***************************************************************************)
RewardsNotInflated ==
    [][clock' = clock /\ data' # data =>
         \A v \in Voters : PointsOf(v)' <= PointsOf(v)]_vars

-----------------------------------------------------------------------------
(* Progress.                                                               *)

\* Epochs end when their slots are over, whatever transactions do: somebody
\* who creates accounts without lamports and lets them vanish again delays an
\* epoch within a transaction only, so its end is enabled again and again.
FairSpec ==
    /\ Spec
    /\ SF_vars(AdvanceEpoch)
    /\ WF_vars(EndRewards)
    /\ \A a \in Accounts : WF_vars(Reap(a))

\* Accounts that have the epochs left to cool down by a lamport in each.
CoolingDown ==
    {a \in StakeAccounts : /\ data[a].stake.deactivation_epoch + data[a].stake.stake
                                 <= MaxEpoch
                           /\ LockedStake(a) > 0}

(***************************************************************************)
(* Deactivated stake comes free to be withdrawn, after as many epochs as   *)
(* it has lamports at the latest, however little of the cooldown of the    *)
(* cluster falls to it and however it is split: unless the deactivation is *)
(* taken back.                                                             *)
(***************************************************************************)
DeactivatedIsFreed ==
    \A a \in Accounts : a \in CoolingDown ~> a \notin CoolingDown

-----------------------------------------------------------------------------
(* Consent.                                                                *)

(***************************************************************************)
(* Stake is deactivated without its authorities only when its validator    *)
(* did not vote in any of the last MinimumDelinquentEpochs epochs and some *)
(* other validator voted in each of them.                                  *)
(***************************************************************************)
RecentEpochs ==
    {e \in 0..clock.epoch : e > clock.epoch - MinimumDelinquentEpochs}
VotedIn(v) == {epoch_credits[v][i] : i \in DOMAIN epoch_credits[v]}

ForcedOnlyIfDelinquent ==
    [][\A a \in StakeAccounts :
         LET d == data[a].stake
         IN  /\ d.deactivation_epoch = Never
             /\ IsStake(a)' /\ data'[a].stake.deactivation_epoch # Never
             /\ \E S \in SignerSets :
                   ~Check(data[a].meta, S, "Staker") /\ Process(S)
             => /\ VotedIn(d.voter_pubkey) \cap RecentEpochs = {}
                /\ \E v \in Voters : RecentEpochs \subseteq VotedIn(v)]_vars

=============================================================================
