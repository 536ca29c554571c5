----------------------------- MODULE StakeState -----------------------------
(***************************************************************************)
(* The state of one stake account, StakeStateV2 of interface/src/state.rs, *)
(* the Stake it may carry, and MergeKind of program/src/helpers/merge.rs:  *)
(* whether and how two accounts can be merged.                             *)
(*                                                                         *)
(* StakeFlags are left out: no instruction sets or reads a flag.  So is    *)
(* RewardsPool, which no instruction writes.                               *)
(***************************************************************************)
EXTENDS StakeActivation, StakeMeta

CONSTANTS
    Voters,             \* vote accounts
    MinimumDelegation   \* get_minimum_delegation(), in lamports

ASSUME StateConstants == MinimumDelegation \in Nat \ {0}

U64 == 0..MaxU64
Lamports == U64

\* A Stake with its Delegation inlined.
Stake == [voter_pubkey       : Voters,
          stake              : Lamports,
          activation_epoch   : U64,
          deactivation_epoch : U64,
          credits_observed   : U64]

Uninitialized == [kind |-> "Uninitialized"]
Initialized(meta) == [kind |-> "Initialized", meta |-> meta]
Staked(meta, stake) == [kind |-> "Stake", meta |-> meta, stake |-> stake]

StakeStateV2 ==
         {Uninitialized}
    \cup [kind : {"Initialized"}, meta : Meta]
    \cup [kind : {"Stake"}, meta : Meta, stake : Stake]

HasMeta(state) == state.kind \in {"Initialized", "Stake"}

\* Mutant: the delegation starts with the next epoch.
NewStakeNextEpoch(amount, voter, credits, epoch) ==
    [voter_pubkey       |-> voter,
     stake              |-> amount,
     activation_epoch   |-> epoch + 1,
     deactivation_epoch |-> Never,
     credits_observed   |-> credits]

NewStake(amount, voter, credits, epoch) ==
    [voter_pubkey       |-> voter,
     stake              |-> amount,
     activation_epoch   |-> epoch,
     deactivation_epoch |-> Never,
     credits_observed   |-> credits]

(***************************************************************************)
(* MergeKind::get_if_mergeable.  "Transient" is the error.                 *)
(***************************************************************************)
MergeKind(state, history, now) ==
    IF state.kind = "Initialized" THEN "Inactive"
    ELSE LET s == StakeActivatingAndDeactivating(state.stake, history, now)
         IN  IF s.effective = 0
             THEN IF s.activating = 0 /\ s.deactivating = 0
                  THEN "Inactive" ELSE "ActivationEpoch"
             ELSE IF s.activating = 0 /\ s.deactivating = 0
                  THEN "FullyActive" ELSE "Transient"

Mergeable(state, history, now) ==
    HasMeta(state) /\ MergeKind(state, history, now) # "Transient"

\* Mutant: lockups are not compared.
MetasCanMergeUnlocked(meta, source, clock) ==
    /\ meta.staker = source.staker
    /\ meta.withdrawer = source.withdrawer

\* MergeKind::metas_can_merge: lockups may differ once both have expired.
MetasCanMerge(meta, source, clock) ==
    /\ meta.staker = source.staker
    /\ meta.withdrawer = source.withdrawer
    /\ \/ meta.lockup = source.lockup
       \/ /\ ~IsInForce(meta.lockup, clock, NoKey)
          /\ ~IsInForce(source.lockup, clock, NoKey)

\* MergeKind::active_delegations_can_merge.
ActiveDelegationsCanMerge(stake, source) ==
    /\ stake.voter_pubkey = source.voter_pubkey
    /\ stake.deactivation_epoch = Never
    /\ source.deactivation_epoch = Never

\* Mutant: the average is rounded down.
StakeWeightedCreditsFloor(stake, absorbed, credits) ==
    IF stake.credits_observed = credits THEN credits
    ELSE (stake.credits_observed * stake.stake + credits * absorbed)
            \div (stake.stake + absorbed)

(***************************************************************************)
(* stake_weighted_credits_observed: the average of the two counts weighted *)
(* by stake, rounded up so that merging never raises the rewards due.      *)
(***************************************************************************)
StakeWeightedCreditsObserved(stake, absorbed, credits) ==
    IF stake.credits_observed = credits THEN credits
    ELSE LET total == stake.stake + absorbed
         IN  (stake.credits_observed * stake.stake + credits * absorbed
                + total - 1) \div total

\* merge_delegation_stake_and_credits_observed.
Absorb(stake, absorbed, credits) ==
    [stake EXCEPT
        !.stake = @ + absorbed,
        !.credits_observed = StakeWeightedCreditsObserved(stake, absorbed, credits)]

(***************************************************************************)
(* MergeKind::merge, of a source state of kind sk holding lamports into a  *)
(* state of kind dk.  The pairs that can merge, and the state written: the *)
(* state itself when the code returns None.                                *)
(***************************************************************************)
KindsCanMerge(dk, sk) ==
    \/ dk = "Inactive" /\ sk \in {"Inactive", "ActivationEpoch"}
    \/ dk = "ActivationEpoch" /\ sk \in {"Inactive", "ActivationEpoch"}
    \/ dk = "FullyActive" /\ sk = "FullyActive"

\* Mutant: every source brings all it holds.
AbsorbedAtOnce(source, sk, lamports) == lamports

\* A fully active source brings its delegation, the others all they hold.
Absorbed(source, sk, lamports) ==
    IF sk = "FullyActive" THEN source.stake.stake ELSE lamports

CanMerge(state, dk, source, sk, lamports, clock) ==
    /\ MetasCanMerge(state.meta, source.meta, clock)
    /\ dk # "Inactive" /\ sk # "Inactive" =>
          ActiveDelegationsCanMerge(state.stake, source.stake)
    /\ KindsCanMerge(dk, sk)
    /\ dk # "Inactive" =>
          state.stake.stake + Absorbed(source, sk, lamports) <= MaxU64

Merged(state, dk, source, sk, lamports) ==
    CASE dk = "Inactive" -> state
      [] dk # "Inactive" /\ sk = "Inactive" ->
            [state EXCEPT !.stake.stake = @ + lamports]
      [] dk # "Inactive" /\ sk # "Inactive" ->
            [state EXCEPT !.stake = Absorb(@, Absorbed(source, sk, lamports),
                                           source.stake.credits_observed)]

=============================================================================
