-------------------------- MODULE StakeProgramProofs --------------------------
(***************************************************************************)
(* Theorems about StakeProgram for every value of the constants.           *)
(*                                                                         *)
(* The inductive invariant is Inv.  Most of it is a predicate of one       *)
(* account: its data is Sound (well typed, at least the minimum delegation,*)
(* epochs in order) and Backed (a delegation that is not deactivated is    *)
(* covered by the balance).  An instruction then preserves Inv when the    *)
(* states it writes are Sound and Backed: one lemma for instructions that  *)
(* write one account, one for those that also move lamports.               *)
(***************************************************************************)
EXTENDS StakeProperties, StakeActivationProofs, SequenceTheorems

\* The contents of an account in epoch now.
Sound(state, now) ==
    /\ state \in AccountData
    /\ state.kind = "Stake" =>
          /\ state.stake.stake >= MinimumDelegation
          /\ state.stake.activation_epoch <= now
          /\ state.stake.deactivation_epoch
                \in {Never} \cup state.stake.activation_epoch..now

Backed(state, balance) ==
    state.kind = "Stake" /\ state.stake.deactivation_epoch = Never =>
        balance >= state.stake.stake

AccountsOK ==
    /\ lamports \in [Holders -> Lamports]
    /\ data \in [Accounts -> AccountData]
    /\ \A a \in Accounts : Sound(data[a], clock.epoch) /\ Backed(data[a], lamports[a])

\* One record per epoch: what keeps the credits of a vote account in range.
VotesInOrder ==
    \A v \in Voters :
        LET voted == epoch_credits[v]
        IN  voted # << >> => /\ voted[Len(voted)] <= clock.epoch
                             /\ Len(voted) - 1 <= voted[Len(voted)]

SysvarsOK ==
    /\ clock \in Clock
    /\ history \in [0..(clock.epoch - 1) -> Entry]
    /\ epoch_credits \in [Voters -> Seq(Nat)]
    /\ VotesInOrder
    /\ rent \in Lamports
    /\ rewards_active \in BOOLEAN

Inv == SysvarsOK /\ AccountsOK

-----------------------------------------------------------------------------
(* Account data.                                                           *)

\* Data with a delegation carries a Meta and a Stake, and nothing else.
LEMMA StakeData ==
  ASSUME NEW state \in AccountData, state.kind = "Stake"
  PROVE  /\ state = [kind |-> "Stake", meta |-> state.meta, stake |-> state.stake]
         /\ state.meta \in Meta
         /\ state.stake \in Stake
BY DEF AccountData, StakeStateV2, Uninitialized, NoAccount, Closed

\* Data with authorities carries a Meta, which can be replaced by another.
LEMMA MetaData ==
  ASSUME NEW state \in AccountData, HasMeta(state), NEW meta \in Meta
  PROVE  /\ state.meta \in Meta
         /\ [state EXCEPT !.meta = meta] \in AccountData
         /\ [state EXCEPT !.meta = meta].kind = state.kind
         /\ state.kind = "Stake" => [state EXCEPT !.meta = meta].stake = state.stake
<1>1. CASE state.kind = "Stake"
  BY <1>1, StakeData DEF AccountData, StakeStateV2
<1>2. CASE state.kind = "Initialized"
  BY <1>2 DEF AccountData, StakeStateV2, Uninitialized, NoAccount, Closed
<1>. QED
  BY <1>1, <1>2 DEF HasMeta

\* The data the program builds.
LEMMA BuiltData ==
  ASSUME NEW meta \in Meta, NEW stake \in Stake
  PROVE  /\ Initialized(meta) \in AccountData
         /\ Initialized(meta).kind = "Initialized"
         /\ Staked(meta, stake) \in AccountData
         /\ Staked(meta, stake).kind = "Stake"
         /\ Staked(meta, stake).stake = stake
         /\ Uninitialized \in AccountData /\ Uninitialized.kind = "Uninitialized"
         /\ Closed \in AccountData /\ Closed.kind = "Closed"
         /\ NoAccount \in AccountData /\ NoAccount.kind = "None"
BY DEF Initialized, Staked, AccountData, StakeStateV2, Uninitialized, NoAccount,
       Closed

\* Data without a delegation is always Sound and Backed.
LEMMA NoStakeIsSound ==
  ASSUME NEW state \in AccountData, state.kind # "Stake", NEW now, NEW balance
  PROVE  Sound(state, now) /\ Backed(state, balance)
BY DEF Sound, Backed

\* A new lockup makes a Meta.
LEMMA LockupUpdate ==
  ASSUME NEW meta \in Meta, NEW args \in LockupArgs
  PROVE  WithLockup(meta, args) \in Meta
<1>1. /\ Given(args.unix_timestamp, meta.lockup.unix_timestamp) \in Int
      /\ Given(args.epoch, meta.lockup.epoch) \in Nat
      /\ Given(args.custodian, meta.lockup.custodian) \in Keys
  BY DEF Meta, Lockup, LockupArgs, Given
<1>. QED
  BY <1>1 DEF Meta, Lockup, WithLockup

-----------------------------------------------------------------------------
(* Credits.                                                                *)

\* A weighted average, rounded up, of two numbers up to top is at most top.
LEMMA WeightedAverage ==
  ASSUME NEW top \in Nat, NEW c1 \in 0..top, NEW c2 \in 0..top,
         NEW s1 \in Nat, NEW s2 \in Nat, s1 + s2 # 0
  PROVE  (c1 * s1 + c2 * s2 + (s1 + s2) - 1) \div (s1 + s2) \in 0..top
<1>. DEFINE total == s1 + s2
            sum == c1 * s1 + c2 * s2
<1>1. c1 * s1 \in Nat /\ c2 * s2 \in Nat /\ top * s1 \in Nat /\ top * s2 \in Nat
  BY ProductPositive
<1>2. c1 * s1 <= top * s1 /\ c2 * s2 <= top * s2
  <2>1. \A c \in 0..top, x \in Nat : (top - c) * x \in Nat
    BY ProductPositive
  <2>2. \A c \in 0..top, x \in Nat : (top - c) * x = top * x - c * x
    OBVIOUS
  <2>. QED
    BY <1>1, <2>1, <2>2
<1>3. top * total = top * s1 + top * s2
  OBVIOUS
<1>4. sum \in Nat /\ sum <= top * total /\ total \in Nat /\ total # 0
  BY <1>1, <1>2, <1>3
<1>5. ASSUME NEW x \in Nat, NEW t \in Nat, t # 0, x <= top * t
      PROVE  (x + t - 1) \div t \in 0..top
  <2>. DEFINE q == (x + t - 1) \div t
  <2>1. q \in Nat /\ t * q <= x + t - 1
    BY <1>5
  <2>2. SUFFICES ASSUME q >= top + 1 PROVE FALSE
    BY <2>1
  <2>. HIDE DEF q
  <2>3. t * (q - (top + 1)) \in Nat
    BY <2>1, <2>2, ProductPositive
  <2>4. t * (q - (top + 1)) = t * q - (top * t + t)
    BY <2>1
  <2>5. t * q \in Nat /\ top * t \in Nat
    BY <2>1, ProductPositive
  <2>. QED
    BY <1>5, <2>1, <2>3, <2>4, <2>5
<1>. HIDE DEF sum, total
<1>6. (sum + total - 1) \div total \in 0..top
  BY <1>4, <1>5
<1>. QED
  BY <1>6 DEF sum, total

(***************************************************************************)
(* Joining stake adds its lamports to the delegation and touches neither   *)
(* its validator nor its epochs, and the averaged credits do not overflow: *)
(* the conversion to u64 in stake_weighted_credits_observed never fails.   *)
(***************************************************************************)
THEOREM AbsorbInRange ==
  ASSUME NEW stake \in Stake, stake.stake # 0, NEW absorbed \in Nat,
         NEW credits \in U64, stake.stake + absorbed <= MaxU64
  PROVE  /\ Absorb(stake, absorbed, credits) \in Stake
         /\ Absorb(stake, absorbed, credits).stake = stake.stake + absorbed
         /\ Absorb(stake, absorbed, credits).activation_epoch
               = stake.activation_epoch
         /\ Absorb(stake, absorbed, credits).deactivation_epoch
               = stake.deactivation_epoch
<1>. DEFINE average == StakeWeightedCreditsObserved(stake, absorbed, credits)
<1>1. /\ stake.stake \in Nat /\ stake.credits_observed \in 0..MaxU64
      /\ credits \in 0..MaxU64 /\ stake.stake + absorbed # 0
      /\ MaxU64 \in Nat
  BY ActivationConstants DEF Stake, Lamports, U64
<1>2. average \in U64
  <2>1. CASE stake.credits_observed = credits
    BY <2>1 DEF StakeWeightedCreditsObserved
  <2>2. CASE stake.credits_observed # credits
    <3>1. average = (stake.credits_observed * stake.stake + credits * absorbed
                       + (stake.stake + absorbed) - 1)
                      \div (stake.stake + absorbed)
      BY <2>2 DEF StakeWeightedCreditsObserved
    <3>. HIDE DEF average
    <3>. QED
      BY <1>1, <3>1, WeightedAverage DEF U64
  <2>. QED
    BY <2>1, <2>2
<1>. HIDE DEF average
<1>3. Absorb(stake, absorbed, credits)
        = [stake EXCEPT !.stake = stake.stake + absorbed,
                        !.credits_observed = average]
  BY DEF Absorb, average
<1>4. stake.stake + absorbed \in U64
  BY <1>1 DEF U64
<1>. HIDE DEF U64
<1>. QED
  BY <1>2, <1>3, <1>4 DEF Stake, Lamports

-----------------------------------------------------------------------------
(* What the status of an account says about its delegation.                *)

\* The ranges of the constants that the arithmetic relies on.
LEMMA NumbersOK ==
  /\ MaxU64 \in Nat /\ MaxU64 # 0
  /\ MinimumDelegation \in Nat /\ MinimumDelegation # 0
  /\ MaxEpoch \in Nat /\ MaxEpoch < Never
  /\ MaxTime \in Nat
  /\ U64 \subseteq Nat /\ Lamports \subseteq Nat
BY ActivationConstants, StateConstants, ProgramConstants
   DEF U64, Lamports, Never

\* In a state that satisfies Inv a stake account has a delegation to which the
\* theorems about the status apply.
LEMMA DelegationOK ==
  ASSUME Inv, NEW a \in Accounts, IsStake(a)
  PROVE  LET d == data[a].stake
         IN  /\ d \in Stake /\ data[a].meta \in Meta
             /\ IsDelegation(d)
             /\ IsHistory(history)
             /\ clock.epoch \in Nat
             /\ clock.epoch < Never
             /\ d.stake >= MinimumDelegation
             /\ d.activation_epoch <= clock.epoch
             /\ d.deactivation_epoch \in {Never} \cup d.activation_epoch..clock.epoch
<1>1. data[a].stake \in Stake /\ data[a].meta \in Meta
  BY StakeData DEF Inv, AccountsOK, IsStake
<1>2. IsDelegation(data[a].stake)
  <2>1. /\ data[a].stake.stake \in Lamports
        /\ data[a].stake.activation_epoch \in U64
        /\ data[a].stake.deactivation_epoch \in U64
    BY <1>1 DEF Stake
  <2>. QED
    BY <2>1, NumbersOK DEF IsDelegation
<1>3. IsHistory(history)
  BY DEF Inv, SysvarsOK, IsHistory
<1>4. clock.epoch \in Nat /\ clock.epoch < Never
  <2>1. clock.epoch \in 0..MaxEpoch
    BY DEF Inv, SysvarsOK, Clock
  <2>2. Never \in Nat
    BY NumbersOK DEF Never
  <2>. QED
    BY <2>1, <2>2, NumbersOK
<1>5. Sound(data[a], clock.epoch)
  BY DEF Inv, AccountsOK
<1>. QED
  BY <1>1, <1>2, <1>3, <1>4, <1>5 DEF Sound, IsStake

\* The status of an account is typed and within its delegation: all of it is
\* effective or activating until it is deactivated.
LEMMA StatusOK ==
  ASSUME Inv, NEW a \in Accounts, IsStake(a)
  PROVE  LET d == data[a].stake
             s == Status(a)
         IN  /\ d.stake \in Nat /\ d.stake # 0
             /\ s.effective \in Nat /\ s.activating \in Nat
             /\ s.deactivating \in Nat
             /\ d.deactivation_epoch = Never =>
                   s.deactivating = 0 /\ s.effective + s.activating = d.stake
             /\ d.deactivation_epoch # Never =>
                   s.activating = 0 /\ s.deactivating = s.effective
<1>. DEFINE d == data[a].stake
            s == Status(a)
<1>1. /\ IsDelegation(d) /\ IsHistory(history) /\ clock.epoch \in Nat
      /\ clock.epoch < Never
      /\ d.stake >= MinimumDelegation
      /\ d.activation_epoch <= clock.epoch
      /\ d.deactivation_epoch \in {Never} \cup d.activation_epoch..clock.epoch
  BY DelegationOK
<1>2. d.stake \in Nat /\ d.stake # 0 /\ d.activation_epoch \in Nat
      /\ d.deactivation_epoch \in Nat
  BY <1>1, NumbersOK DEF IsDelegation
<1>3. /\ s.effective \in 0..d.stake
      /\ s.activating \in 0..d.stake
      /\ s.deactivating \in 0..d.stake
      /\ clock.epoch >= d.deactivation_epoch =>
            s.activating = 0 /\ s.deactivating = s.effective
      /\ /\ clock.epoch < d.deactivation_epoch
         /\ d.activation_epoch <= clock.epoch
         => s.deactivating = 0 /\ s.effective + s.activating = d.stake
  <2>1. s = StakeActivatingAndDeactivating(d, history, clock.epoch)
    BY DEF Status
  <2>. HIDE DEF s, d
  <2>. QED
    BY <1>1, <2>1, StatusBounded
<1>. HIDE DEF d, s
<1>4. d.deactivation_epoch = Never \/ clock.epoch >= d.deactivation_epoch
  BY <1>1, <1>2
<1>5. Never \in Nat
  BY NumbersOK DEF Never
<1>6. /\ s.effective \in Nat /\ s.activating \in Nat /\ s.deactivating \in Nat
      /\ d.deactivation_epoch = Never =>
            s.deactivating = 0 /\ s.effective + s.activating = d.stake
  BY <1>1, <1>2, <1>3, <1>5
<1>7. d.deactivation_epoch # Never =>
        s.activating = 0 /\ s.deactivating = s.effective
  BY <1>3, <1>4
<1>. QED
  BY <1>2, <1>6, <1>7 DEF d, s

\* A delegation with nothing effective or activating was deactivated.
LEMMA IdleIsDeactivated ==
  ASSUME Inv, NEW a \in Accounts, IsStake(a), ~IsActiveOrActivating(a)
  PROVE  data[a].stake.deactivation_epoch # Never
BY StatusOK DEF IsActiveOrActivating

(***************************************************************************)
(* The kinds of MergeKind: what is fully active or in its activation epoch *)
(* has a delegation and was never deactivated; inactive stake was, and has *)
(* nothing effective left.                                                 *)
(***************************************************************************)
LEMMA KindOK ==
  ASSUME Inv, NEW a \in Accounts, HasMeta(data[a])
  PROVE  /\ Kind(a) \in {"Inactive", "ActivationEpoch", "FullyActive", "Transient"}
         /\ Kind(a) # "Inactive" => IsStake(a)
         /\ Kind(a) \in {"ActivationEpoch", "FullyActive"} =>
               data[a].stake.deactivation_epoch = Never
         /\ Kind(a) = "Inactive" /\ IsStake(a) =>
               /\ data[a].stake.deactivation_epoch # Never
               /\ Status(a).effective = 0
<1>1. CASE data[a].kind = "Initialized"
  BY <1>1 DEF Kind, MergeKind, IsStake
<1>2. CASE IsStake(a)
  <2>. DEFINE s == Status(a)
  <2>1. Kind(a) = IF s.effective = 0
                  THEN IF s.activating = 0 /\ s.deactivating = 0
                       THEN "Inactive" ELSE "ActivationEpoch"
                  ELSE IF s.activating = 0 /\ s.deactivating = 0
                       THEN "FullyActive" ELSE "Transient"
    BY <1>2 DEF Kind, MergeKind, Status, IsStake
  <2>2. /\ data[a].stake.stake \in Nat /\ data[a].stake.stake # 0
        /\ s.effective \in Nat /\ s.activating \in Nat /\ s.deactivating \in Nat
        /\ data[a].stake.deactivation_epoch = Never =>
              s.deactivating = 0 /\ s.effective + s.activating = data[a].stake.stake
        /\ data[a].stake.deactivation_epoch # Never =>
              s.activating = 0 /\ s.deactivating = s.effective
    BY <1>2, StatusOK
  <2>3. s.effective = Status(a).effective
    OBVIOUS
  <2>. HIDE DEF s
  <2>. QED
    BY <1>2, <2>1, <2>2, <2>3
<1>. QED
  BY <1>1, <1>2 DEF HasMeta, IsStake

-----------------------------------------------------------------------------
(* Writing accounts.                                                       *)

\* An instruction that writes one account and moves nothing.
LEMMA WriteOK ==
  ASSUME Inv, NEW a \in Accounts, NEW state,
         Sound(state, clock.epoch), Backed(state, lamports[a]),
         SetState(a, state), UNCHANGED <<lamports, clock>>
  PROVE  AccountsOK'
<1>1. /\ lamports \in [Holders -> Lamports] /\ data \in [Accounts -> AccountData]
      /\ \A b \in Accounts : Sound(data[b], clock.epoch) /\ Backed(data[b], lamports[b])
  BY DEF Inv, AccountsOK
<1>2. /\ data' \in [Accounts -> AccountData]
      /\ \A b \in Accounts : data'[b] = IF b = a THEN state ELSE data[b]
  BY <1>1 DEF SetState, Sound
<1>. QED
  BY <1>1, <1>2 DEF AccountsOK, Sound, Backed

\* Lamports go from one holder to another; either may be an account that is
\* written as well.
LEMMA TransferOK ==
  ASSUME Inv, NEW from \in Holders, NEW to \in Holders, from # to, NEW n \in Nat,
         Relocate(from, to, n), NEW source, NEW target,
         data' = [b \in Accounts |-> IF b = to THEN target
                                     ELSE IF b = from THEN source ELSE data[b]],
         to \in Accounts =>
            Sound(target, clock.epoch) /\ Backed(target, lamports[to] + n),
         from \in Accounts =>
            Sound(source, clock.epoch) /\ Backed(source, lamports[from] - n),
         UNCHANGED clock
  PROVE  AccountsOK'
<1>1. /\ lamports \in [Holders -> Lamports] /\ data \in [Accounts -> AccountData]
      /\ \A b \in Accounts : Sound(data[b], clock.epoch) /\ Backed(data[b], lamports[b])
  BY DEF Inv, AccountsOK
<1>2. /\ lamports[from] - n \in Lamports /\ lamports[to] + n \in Lamports
      /\ lamports' = [lamports EXCEPT ![from] = lamports[from] - n,
                                      ![to] = lamports[to] + n]
  <2>1. lamports[from] \in 0..MaxU64 /\ lamports[to] \in 0..MaxU64
    BY <1>1 DEF Lamports, U64
  <2>. QED
    BY <2>1, NumbersOK DEF Relocate, Lamports, U64
<1>3. /\ lamports' \in [Holders -> Lamports]
      /\ \A b \in Holders : lamports'[b] = IF b = to THEN lamports[to] + n
                                  ELSE IF b = from THEN lamports[from] - n
                                  ELSE lamports[b]
  BY <1>1, <1>2
<1>4. \A b \in Accounts :
         Sound(data'[b], clock.epoch) /\ Backed(data'[b], lamports'[b])
  <2>. SUFFICES ASSUME NEW b \in Accounts
                PROVE  Sound(data'[b], clock.epoch) /\ Backed(data'[b], lamports'[b])
    OBVIOUS
  <2>1. b \in Holders
    BY DEF Holders
  <2>. QED
    BY <1>1, <1>3, <2>1
<1>5. data' \in [Accounts -> AccountData]
  BY <1>4 DEF Sound
<1>. QED
  BY <1>3, <1>4, <1>5 DEF AccountsOK, Sound, Backed

\* The sysvars stay well formed when nothing changes them.
LEMMA SysvarsUnchanged ==
  ASSUME SysvarsOK, UNCHANGED sysvars
  PROVE  SysvarsOK'
BY DEF SysvarsOK, VotesInOrder, sysvars

-----------------------------------------------------------------------------
(* Instructions that write one account.                                    *)

\* Initialize and InitializeChecked write no delegation.
LEMMA InitializeOK ==
  ASSUME Inv, NEW a \in Accounts, NEW staker \in Keys, NEW withdrawer \in Keys,
         NEW lockup \in Lockup, DoInitialize(a, staker, withdrawer, lockup)
  PROVE  Inv'
<1>. DEFINE meta == [staker |-> staker, withdrawer |-> withdrawer, lockup |-> lockup]
<1>1. meta \in Meta
  BY DEF Meta
<1>2. /\ Initialized(meta) \in AccountData
      /\ Initialized(meta).kind # "Stake"
  BY <1>1 DEF Initialized, AccountData, StakeStateV2
<1>3. Sound(Initialized(meta), clock.epoch) /\ Backed(Initialized(meta), lamports[a])
  BY <1>2, NoStakeIsSound
<1>4. AccountsOK'
  <2>1. SetState(a, Initialized(meta)) /\ UNCHANGED <<lamports, clock>>
    BY DEF DoInitialize, sysvars
  <2>. HIDE DEF meta
  <2>. QED
    BY <1>3, <2>1, WriteOK
<1>. QED
  BY <1>4, SysvarsUnchanged DEF Inv, DoInitialize

\* A change of the Meta only.
LEMMA MetaWriteOK ==
  ASSUME Inv, NEW a \in Accounts, HasMeta(data[a]), NEW meta \in Meta,
         SetState(a, [data[a] EXCEPT !.meta = meta]), UNCHANGED <<lamports, sysvars>>
  PROVE  Inv'
<1>. DEFINE state == [data[a] EXCEPT !.meta = meta]
<1>1. data[a] \in AccountData /\ Sound(data[a], clock.epoch)
      /\ Backed(data[a], lamports[a])
  BY DEF Inv, AccountsOK
<1>2. /\ state \in AccountData
      /\ state.kind = data[a].kind
      /\ state.kind = "Stake" => state.stake = data[a].stake
  BY <1>1, MetaData
<1>3. Sound(state, clock.epoch) /\ Backed(state, lamports[a])
  <2>. HIDE DEF state
  <2>. QED
    BY <1>1, <1>2 DEF Sound, Backed
<1>4. AccountsOK'
  <2>1. SetState(a, state) /\ UNCHANGED <<lamports, clock>>
    BY DEF sysvars
  <2>. HIDE DEF state
  <2>. QED
    BY <1>3, <2>1, WriteOK
<1>. QED
  BY <1>4, SysvarsUnchanged DEF Inv

\* The forms of Authorize leave the delegation alone.
LEMMA AuthorizeOK ==
  ASSUME Inv, NEW a \in Accounts, NEW signers, NEW new \in Keys,
         NEW who \in StakeAuthorize, NEW custodian,
         DoAuthorize(a, signers, new, who, custodian)
  PROVE  Inv'
<1>. DEFINE meta == WithAuthority(data[a].meta, who, new)
<1>1. HasMeta(data[a]) /\ UNCHANGED <<lamports, sysvars>>
      /\ SetState(a, [data[a] EXCEPT !.meta = meta])
  BY DEF DoAuthorize
<1>2. data[a].meta \in Meta
  <2>1. data[a] \in AccountData
    BY DEF Inv, AccountsOK
  <2>. QED
    BY <1>1, <2>1 DEF HasMeta, AccountData, StakeStateV2, Uninitialized,
                       NoAccount, Closed
<1>3. meta \in Meta
  BY <1>2 DEF Meta, WithAuthority, StakeAuthorize
<1>. HIDE DEF meta
<1>. QED
  BY <1>1, <1>3, MetaWriteOK

\* SetLockup and SetLockupChecked leave the delegation alone.
LEMMA SetLockupOK ==
  ASSUME Inv, NEW a \in Accounts, NEW signers, NEW args \in LockupArgs,
         DoSetLockup(a, signers, args)
  PROVE  Inv'
<1>. DEFINE meta == WithLockup(data[a].meta, args)
<1>1. HasMeta(data[a]) /\ UNCHANGED <<lamports, sysvars>>
      /\ SetState(a, [data[a] EXCEPT !.meta = meta])
  BY DEF DoSetLockup
<1>2. data[a].meta \in Meta
  BY <1>1 DEF Inv, AccountsOK, HasMeta, AccountData, StakeStateV2, Uninitialized,
              NoAccount, Closed
<1>3. meta \in Meta
  BY <1>2, LockupUpdate
<1>. HIDE DEF meta
<1>. QED
  BY <1>1, <1>3, MetaWriteOK

\* Credits stay in range: a vote account votes at most once in an epoch.
LEMMA CreditsOK ==
  ASSUME Inv, NEW v \in Voters
  PROVE  Credits(v) \in U64
<1>. DEFINE voted == epoch_credits[v]
<1>1. voted \in Seq(Nat) /\ clock.epoch \in 0..MaxEpoch
      /\ (voted # << >> => /\ voted[Len(voted)] <= clock.epoch
                           /\ Len(voted) - 1 <= voted[Len(voted)])
  BY DEF Inv, SysvarsOK, VotesInOrder, Clock
<1>2. Len(voted) \in Nat /\ (voted # << >> => voted[Len(voted)] \in Nat)
      /\ (voted = << >> => Len(voted) = 0)
  BY <1>1
<1>. HIDE DEF voted
<1>3. Len(voted) <= MaxU64
  BY <1>1, <1>2, NumbersOK DEF Never
<1>. QED
  BY <1>2, <1>3, NumbersOK DEF Credits, voted, U64

\* DelegateStake delegates what the balance covers, and rescinds a deactivation
\* only of stake the balance covers.
LEMMA DelegateOK ==
  ASSUME Inv, NEW S, NEW a \in Accounts, NEW v \in Voters, Delegate(S, a, v)
  PROVE  Inv'
<1>. DEFINE amount == SatSub(lamports[a], rent)
            fresh == NewStake(amount, v, Credits(v), clock.epoch)
            rescinded == [data[a] EXCEPT !.stake.deactivation_epoch = Never]
<1>1. /\ lamports[a] \in U64 /\ rent \in U64 /\ clock.epoch \in 0..MaxEpoch
      /\ data[a] \in AccountData
      /\ Sound(data[a], clock.epoch)
  BY DEF Inv, AccountsOK, SysvarsOK, Clock, Holders, Lamports
<1>2. amount \in U64 /\ amount <= lamports[a]
  BY <1>1, NumbersOK DEF U64, SatSub
<1>3. HasMeta(data[a]) /\ amount >= MinimumDelegation
      /\ UNCHANGED <<lamports, sysvars>>
  BY DEF Delegate
<1>4. data[a].meta \in Meta
  BY <1>1, <1>3 DEF HasMeta, AccountData, StakeStateV2, Uninitialized, NoAccount,
                    Closed
<1>5. CASE SetState(a, Staked(data[a].meta, fresh))
  <2>. DEFINE state == Staked(data[a].meta, fresh)
  <2>1. clock.epoch \in U64 /\ Never \in U64 /\ clock.epoch # Never
    BY <1>1, NumbersOK DEF U64, Never
  <2>2. fresh \in Stake /\ fresh.stake = amount
        /\ fresh.activation_epoch = clock.epoch /\ fresh.deactivation_epoch = Never
    BY <1>2, <2>1, CreditsOK DEF NewStake, Stake, Lamports
  <2>. HIDE DEF fresh
  <2>3. state \in AccountData /\ state.kind = "Stake" /\ state.stake = fresh
    BY <1>4, <2>2, BuiltData
  <2>4. Sound(state, clock.epoch) /\ Backed(state, lamports[a])
    <3>. HIDE DEF state, amount
    <3>. QED
      BY <1>1, <1>2, <1>3, <2>2, <2>3, NumbersOK DEF Sound, Backed
  <2>5. AccountsOK'
    <3>. HIDE DEF state
    <3>. QED
      BY <1>3, <1>5, <2>4, WriteOK DEF state, sysvars
  <2>. QED
    BY <1>3, <2>5, SysvarsUnchanged DEF Inv
<1>6. CASE IsStake(a) /\ amount >= data[a].stake.stake /\ SetState(a, rescinded)
  <2>1. /\ data[a].stake \in Stake
        /\ data[a] = [kind |-> "Stake", meta |-> data[a].meta,
                      stake |-> data[a].stake]
    BY <1>1, <1>6, StakeData DEF IsStake
  <2>. DEFINE stake == [data[a].stake EXCEPT !.deactivation_epoch = Never]
  <2>2. stake \in Stake /\ stake.stake = data[a].stake.stake
        /\ stake.activation_epoch = data[a].stake.activation_epoch
        /\ stake.deactivation_epoch = Never
    BY <2>1, NumbersOK DEF Stake, U64, Never
  <2>3. rescinded = Staked(data[a].meta, stake)
    BY <2>1 DEF Staked
  <2>. HIDE DEF stake, rescinded
  <2>4. rescinded \in AccountData /\ rescinded.kind = "Stake"
        /\ rescinded.stake = stake
    BY <1>4, <2>2, <2>3, BuiltData
  <2>5. data[a].stake.stake <= lamports[a]
    <3>1. data[a].stake.stake \in U64
      BY <2>1 DEF Stake, Lamports
    <3>. QED
      BY <1>1, <1>2, <1>6, <3>1, NumbersOK DEF U64
  <2>6. Sound(rescinded, clock.epoch) /\ Backed(rescinded, lamports[a])
    BY <1>1, <1>6, <2>2, <2>4, <2>5 DEF Sound, Backed, IsStake
  <2>7. AccountsOK'
    BY <1>3, <1>6, <2>6, WriteOK DEF sysvars
  <2>. QED
    BY <1>3, <2>7, SysvarsUnchanged DEF Inv
<1>7. \/ SetState(a, Staked(data[a].meta, fresh))
      \/ IsStake(a) /\ amount >= data[a].stake.stake /\ SetState(a, rescinded)
  BY DEF Delegate, MayRescind
<1>. QED
  BY <1>5, <1>6, <1>7

\* Deactivate and DeactivateDelinquent set the epoch to the current one.
LEMMA DeactivateOK ==
  ASSUME Inv, NEW a \in Accounts, IsStake(a), DoDeactivate(a)
  PROVE  Inv'
<1>. DEFINE stake == [data[a].stake EXCEPT !.deactivation_epoch = clock.epoch]
            state == [data[a] EXCEPT !.stake.deactivation_epoch = clock.epoch]
<1>1. /\ data[a] \in AccountData /\ data[a].stake \in Stake
      /\ data[a].meta \in Meta
      /\ data[a] = [kind |-> "Stake", meta |-> data[a].meta, stake |-> data[a].stake]
      /\ Sound(data[a], clock.epoch)
      /\ clock.epoch \in 0..MaxEpoch
  BY StakeData DEF Inv, AccountsOK, SysvarsOK, Clock, IsStake
<1>2. clock.epoch \in U64 /\ clock.epoch # Never
  BY <1>1, NumbersOK DEF U64, Never
<1>3. /\ stake \in Stake /\ stake.stake = data[a].stake.stake
      /\ stake.activation_epoch = data[a].stake.activation_epoch
      /\ stake.deactivation_epoch = clock.epoch
  BY <1>1, <1>2 DEF Stake
<1>4. state = Staked(data[a].meta, stake)
  BY <1>1 DEF Staked
<1>. HIDE DEF stake
<1>5. state \in AccountData /\ state.kind = "Stake" /\ state.stake = stake
  BY <1>1, <1>3, <1>4, BuiltData
<1>6. stake.activation_epoch \in Nat
  BY <1>3, NumbersOK DEF Stake
<1>7. Sound(state, clock.epoch) /\ Backed(state, lamports[a])
  <2>. HIDE DEF state
  <2>. QED
    BY <1>1, <1>2, <1>3, <1>5, <1>6 DEF Sound, Backed, IsStake
<1>8. AccountsOK'
  <2>1. SetState(a, state) /\ UNCHANGED <<lamports, clock>>
    BY DEF DoDeactivate, sysvars
  <2>. HIDE DEF state
  <2>. QED
    BY <1>7, <2>1, WriteOK
<1>. QED
  BY <1>8, SysvarsUnchanged DEF Inv, DoDeactivate

-----------------------------------------------------------------------------
(* Instructions that move lamports.                                        *)

\* What Inv says of one account.
LEMMA AccountOK ==
  ASSUME Inv, NEW a \in Accounts
  PROVE  /\ a \in Holders /\ a # Wallet
         /\ lamports[a] \in Nat /\ rent \in Nat
         /\ data[a] \in AccountData
         /\ Sound(data[a], clock.epoch) /\ Backed(data[a], lamports[a])
<1>1. a \in Holders /\ a # Wallet
  BY ProgramConstants DEF Holders
<1>2. lamports[a] \in Lamports /\ rent \in Lamports
  BY <1>1 DEF Inv, AccountsOK, SysvarsOK
<1>. QED
  BY <1>1, <1>2, NumbersOK DEF Inv, AccountsOK

\* A larger balance backs what a smaller one backs.
LEMMA BackedByMore ==
  ASSUME NEW state \in AccountData, NEW balance \in Nat, NEW more \in Nat,
         Backed(state, balance), balance <= more
  PROVE  Backed(state, more)
<1>1. state.kind = "Stake" => state.stake.stake \in Nat
  BY StakeData, NumbersOK DEF Stake
<1>. QED
  BY <1>1 DEF Backed

\* A full split moves the delegation with all its lamports.
LEMMA SplitFullOK ==
  ASSUME Inv, NEW S, NEW from \in Accounts, NEW to \in Accounts, NEW n \in Nat,
         SplitFull(S, from, to, n)
  PROVE  Inv'
<1>1. /\ from # to /\ n = lamports[from]
      /\ Relocate(from, to, n)
      /\ SetStates(to, data[from], from, Closed)
      /\ UNCHANGED sysvars
  BY DEF SplitFull, SplitChecks
<1>2. data' = [b \in Accounts |-> IF b = to THEN data[from]
                                  ELSE IF b = from THEN Closed ELSE data[b]]
  BY <1>1 DEF SetStates, Inv, AccountsOK
<1>3. Sound(Closed, clock.epoch) /\ Backed(Closed, lamports[from] - n)
  BY DEF Closed, AccountData, Sound, Backed
<1>4. Sound(data[from], clock.epoch) /\ Backed(data[from], lamports[to] + n)
  BY <1>1, AccountOK, BackedByMore
<1>5. from \in Holders /\ to \in Holders /\ UNCHANGED clock
  BY <1>1, AccountOK DEF sysvars
<1>6. AccountsOK'
  BY <1>1, <1>2, <1>3, <1>4, <1>5, TransferOK
<1>. QED
  BY <1>1, <1>6, SysvarsUnchanged DEF Inv

\* Of inactive stake the delegation is deactivated, so both copies are Backed.
LEMMA SplitInactiveOK ==
  ASSUME Inv, NEW S, NEW from \in Accounts, NEW to \in Accounts, NEW n \in Nat,
         SplitInactive(S, from, to, n)
  PROVE  Inv'
<1>1. /\ from # to /\ ~IsActiveOrActivating(from)
      /\ Relocate(from, to, n)
      /\ SetState(to, data[from])
      /\ UNCHANGED sysvars
  BY DEF SplitInactive, SplitChecks
<1>2. data' = [b \in Accounts |-> IF b = to THEN data[from]
                                  ELSE IF b = from THEN data[from] ELSE data[b]]
  BY <1>1 DEF SetState, Inv, AccountsOK
<1>3. Sound(data[from], clock.epoch)
  BY AccountOK
<1>4. ASSUME NEW balance PROVE Backed(data[from], balance)
  BY <1>1, IdleIsDeactivated DEF Backed, IsStake
<1>5. from \in Holders /\ to \in Holders /\ UNCHANGED clock
  BY <1>1, AccountOK DEF sysvars
<1>6. AccountsOK'
  BY <1>1, <1>2, <1>3, <1>4, <1>5, TransferOK
<1>. QED
  BY <1>1, <1>6, SysvarsUnchanged DEF Inv

\* A Sound and Backed account whose delegation is replaced by another amount.
LEMMA AmountReplaced ==
  ASSUME NEW state \in AccountData, state.kind = "Stake", NEW now,
         Sound(state, now), NEW amount \in U64, amount >= MinimumDelegation
  PROVE  /\ Sound([state EXCEPT !.stake.stake = amount], now)
         /\ \A balance : balance >= amount =>
               Backed([state EXCEPT !.stake.stake = amount], balance)
         /\ state.stake.deactivation_epoch # Never =>
               \A balance : Backed([state EXCEPT !.stake.stake = amount], balance)
<1>. DEFINE stake == [state.stake EXCEPT !.stake = amount]
            changed == [state EXCEPT !.stake.stake = amount]
<1>1. /\ state.stake \in Stake /\ state.meta \in Meta
      /\ state = [kind |-> "Stake", meta |-> state.meta, stake |-> state.stake]
  BY StakeData
<1>2. /\ stake \in Stake /\ stake.stake = amount
      /\ stake.activation_epoch = state.stake.activation_epoch
      /\ stake.deactivation_epoch = state.stake.deactivation_epoch
  BY <1>1 DEF Stake, Lamports
<1>3. changed = Staked(state.meta, stake)
  BY <1>1 DEF Staked
<1>. HIDE DEF stake
<1>4. changed \in AccountData /\ changed.kind = "Stake" /\ changed.stake = stake
  BY <1>1, <1>2, <1>3, BuiltData
<1>. HIDE DEF changed
<1>5. Sound(changed, now)
  BY <1>2, <1>4 DEF Sound
<1>6. \A balance : balance >= amount => Backed(changed, balance)
  BY <1>2, <1>4 DEF Backed
<1>7. state.stake.deactivation_epoch # Never =>
        \A balance : Backed(changed, balance)
  BY <1>2, <1>4 DEF Backed
<1>. QED
  BY <1>5, <1>6, <1>7 DEF changed

\* A partial split moves one delegated lamport with each lamport.
LEMMA SplitActiveOK ==
  ASSUME Inv, NEW S, NEW from \in Accounts, NEW to \in Accounts, NEW n \in Nat,
         SplitActive(S, from, to, n)
  PROVE  Inv'
<1>. DEFINE rest == data[from].stake.stake - n
            source == [data[from] EXCEPT !.stake.stake = @ - n]
            target == [data[from] EXCEPT !.stake.stake = n]
<1>1. /\ from # to /\ IsStake(from)
      /\ rest >= MinimumDelegation /\ n >= MinimumDelegation
      /\ data[from].stake.stake >= n
      /\ Relocate(from, to, n)
      /\ SetStates(from, source, to, target)
      /\ UNCHANGED sysvars
  BY DEF SplitActive, SplitChecks, IsActiveOrActivating
<1>2. data' = [b \in Accounts |-> IF b = to THEN target
                                  ELSE IF b = from THEN source ELSE data[b]]
  BY <1>1 DEF SetStates, Inv, AccountsOK
<1>3. /\ data[from] \in AccountData /\ data[from].kind = "Stake"
      /\ Sound(data[from], clock.epoch) /\ Backed(data[from], lamports[from])
      /\ lamports[from] \in Nat /\ lamports[to] \in Nat
      /\ from \in Holders /\ to \in Holders /\ UNCHANGED clock
  BY <1>1, AccountOK DEF IsStake, sysvars
<1>4. data[from].stake.stake \in U64
  BY <1>3, StakeData DEF Stake, Lamports
<1>5. rest \in U64 /\ n \in U64
  BY <1>1, <1>4, NumbersOK DEF U64
<1>6. source = [data[from] EXCEPT !.stake.stake = rest]
  OBVIOUS
<1>. HIDE DEF rest, source, target
<1>7. Sound(target, clock.epoch) /\ Backed(target, lamports[to] + n)
  <2>1. lamports[to] + n >= n
    BY <1>3
  <2>. QED
    BY <1>1, <1>3, <1>5, <2>1, AmountReplaced DEF target
<1>8. Sound(source, clock.epoch) /\ Backed(source, lamports[from] - n)
  <2>1. data[from].stake.deactivation_epoch = Never => lamports[from] - n >= rest
    BY <1>1, <1>3, <1>4, NumbersOK DEF Backed, rest, U64
  <2>. QED
    BY <1>1, <1>3, <1>5, <1>6, <2>1, AmountReplaced
<1>9. AccountsOK'
  BY <1>1, <1>2, <1>3, <1>7, <1>8, TransferOK
<1>. QED
  BY <1>1, <1>9, SysvarsUnchanged DEF Inv

\* Lamports that go from one holder to another and leave all data as it is.
LEMMA LamportsMovedOK ==
  ASSUME Inv, NEW from \in Holders, NEW to \in Holders, from # to, NEW n \in Nat,
         Relocate(from, to, n), UNCHANGED <<data, sysvars>>,
         from \in Accounts => Backed(data[from], lamports[from] - n)
  PROVE  Inv'
<1>1. data' = [b \in Accounts |-> IF b = to THEN data[to]
                                  ELSE IF b = from THEN data[from] ELSE data[b]]
  BY DEF Inv, AccountsOK
<1>2. ASSUME to \in Accounts
      PROVE  Sound(data[to], clock.epoch) /\ Backed(data[to], lamports[to] + n)
  <2>1. lamports[to] \in Nat /\ lamports[to] + n \in Nat
        /\ lamports[to] <= lamports[to] + n
    BY <1>2, AccountOK
  <2>. QED
    BY <1>2, <2>1, AccountOK, BackedByMore
<1>3. from \in Accounts => Sound(data[from], clock.epoch)
  BY AccountOK
<1>4. AccountsOK'
  BY <1>1, <1>2, <1>3, TransferOK DEF sysvars
<1>. QED
  BY <1>4, SysvarsUnchanged DEF Inv

\* A full withdrawal closes the account.
LEMMA WithdrawAllOK ==
  ASSUME Inv, NEW S, NEW a \in Accounts, NEW to \in Holders, NEW custodian,
         WithdrawAll(S, a, to, custodian)
  PROVE  Inv'
<1>1. /\ a # to /\ SetState(a, Closed) /\ UNCHANGED sysvars
      /\ Relocate(a, to, lamports[a])
  BY DEF WithdrawAll
<1>2. data' = [b \in Accounts |-> IF b = to THEN data[to]
                                  ELSE IF b = a THEN Closed ELSE data[b]]
  BY <1>1 DEF SetState, Inv, AccountsOK
<1>3. lamports[a] \in Nat /\ a \in Holders
  BY AccountOK
<1>4. ASSUME to \in Accounts
      PROVE  Sound(data[to], clock.epoch) /\ Backed(data[to], lamports[to] + lamports[a])
  <2>1. lamports[to] \in Nat /\ lamports[to] + lamports[a] \in Nat
        /\ lamports[to] <= lamports[to] + lamports[a]
    BY <1>3, <1>4, AccountOK
  <2>. QED
    BY <1>4, <2>1, AccountOK, BackedByMore
<1>5. Sound(Closed, clock.epoch) /\ Backed(Closed, lamports[a] - lamports[a])
  BY DEF Closed, AccountData, Sound, Backed
<1>6. AccountsOK'
  BY <1>1, <1>2, <1>3, <1>4, <1>5, TransferOK DEF sysvars
<1>. QED
  BY <1>1, <1>6, SysvarsUnchanged DEF Inv

\* A partial withdrawal leaves the delegation of an account that is not
\* deactivated covered.
LEMMA WithdrawPartOK ==
  ASSUME Inv, NEW S, NEW a \in Accounts, NEW to \in Holders, NEW n \in Nat,
         NEW custodian, WithdrawPart(S, a, to, n, custodian)
  PROVE  Inv'
<1>1. /\ a # to /\ Relocate(a, to, n) /\ UNCHANGED <<data, sysvars>>
      /\ n + (IF HasMeta(data[a]) THEN LockedStake(a) + rent ELSE 0) <= lamports[a]
  BY DEF WithdrawPart
<1>2. Backed(data[a], lamports[a] - n)
  <2>1. SUFFICES ASSUME IsStake(a), data[a].stake.deactivation_epoch = Never
                 PROVE  lamports[a] - n >= data[a].stake.stake
    BY DEF Backed, IsStake
  <2>2. LockedStake(a) = data[a].stake.stake
    <3>1. ~(clock.epoch >= Never)
      BY <2>1, DelegationOK, NumbersOK DEF Never
    <3>. QED
      BY <2>1, <3>1 DEF LockedStake
  <2>3. data[a].stake.stake \in Nat /\ lamports[a] \in Nat /\ rent \in Nat
    BY <2>1, StatusOK, AccountOK
  <2>. QED
    BY <1>1, <2>1, <2>2, <2>3 DEF HasMeta, IsStake
<1>3. a \in Holders
  BY AccountOK
<1>. QED
  BY <1>1, <1>2, <1>3, LamportsMovedOK

\* MoveLamports takes only what a fully active account did not delegate.
LEMMA MoveLamportsOK ==
  ASSUME Inv, NEW S, NEW from \in Accounts, NEW to \in Accounts, NEW n \in Nat,
         MoveLamports(S, from, to, n)
  PROVE  Inv'
<1>1. /\ from # to /\ HasMeta(data[from]) /\ n > 0
      /\ Kind(from) \in {"FullyActive", "Inactive"} /\ n <= FreeLamports(from)
      /\ Relocate(from, to, n) /\ UNCHANGED <<data, sysvars>>
  BY DEF MoveLamports, MoveChecks, Mergeable
<1>2. CASE Kind(from) = "FullyActive"
  <2>1. IsStake(from)
    BY <1>1, <1>2, KindOK
  <2>2. data[from].stake.stake \in Nat /\ lamports[from] \in Nat /\ rent \in Nat
    BY <2>1, StatusOK, AccountOK
  <2>3. lamports[from] - n >= data[from].stake.stake
    BY <1>1, <1>2, <2>2 DEF FreeLamports, SatSub
  <2>. QED
    BY <1>1, <2>3, AccountOK, LamportsMovedOK DEF Backed
<1>3. CASE Kind(from) = "Inactive"
  <2>1. Backed(data[from], lamports[from] - n)
    BY <1>1, <1>3, KindOK DEF Backed, IsStake
  <2>. QED
    BY <1>1, <2>1, AccountOK, LamportsMovedOK
<1>. QED
  BY <1>1, <1>2, <1>3

\* A stake account that absorbs stake.
LEMMA AbsorbOK ==
  ASSUME NEW state \in AccountData, state.kind = "Stake", NEW now, Sound(state, now),
         NEW absorbed \in Nat, NEW credits \in U64,
         state.stake.stake + absorbed <= MaxU64
  PROVE  LET merged == [state EXCEPT !.stake = Absorb(@, absorbed, credits)]
         IN  /\ Sound(merged, now)
             /\ \A balance : balance >= state.stake.stake + absorbed =>
                   Backed(merged, balance)
<1>. DEFINE stake == Absorb(state.stake, absorbed, credits)
            merged == [state EXCEPT !.stake = Absorb(@, absorbed, credits)]
<1>1. /\ state.stake \in Stake /\ state.meta \in Meta
      /\ state = [kind |-> "Stake", meta |-> state.meta, stake |-> state.stake]
  BY StakeData
<1>2. state.stake.stake \in Nat /\ state.stake.stake >= MinimumDelegation
  BY <1>1, NumbersOK DEF Stake, Sound
<1>3. /\ stake \in Stake
      /\ stake.stake = state.stake.stake + absorbed
      /\ stake.activation_epoch = state.stake.activation_epoch
      /\ stake.deactivation_epoch = state.stake.deactivation_epoch
  <2>1. state.stake.stake # 0
    BY <1>2, NumbersOK
  <2>. QED
    BY <1>1, <2>1, AbsorbInRange
<1>4. merged = Staked(state.meta, stake)
  <2>1. merged = [state EXCEPT !.stake = stake]
    OBVIOUS
  <2>. HIDE DEF stake, merged
  <2>. QED
    BY <1>1, <2>1 DEF Staked
<1>. HIDE DEF stake
<1>5. merged \in AccountData /\ merged.kind = "Stake" /\ merged.stake = stake
  BY <1>1, <1>3, <1>4, BuiltData
<1>. HIDE DEF merged
<1>6. stake.stake >= MinimumDelegation
  BY <1>2, <1>3, NumbersOK
<1>7. Sound(merged, now)
  BY <1>3, <1>5, <1>6 DEF Sound
<1>8. \A balance : balance >= state.stake.stake + absorbed => Backed(merged, balance)
  BY <1>3, <1>5 DEF Backed
<1>. QED
  BY <1>7, <1>8 DEF merged

\* Merge adds to the delegation at most the lamports that come with the source.
LEMMA MergeOK ==
  ASSUME Inv, NEW S, NEW from \in Accounts, NEW to \in Accounts, Merge(S, to, from)
  PROVE  Inv'
<1>. DEFINE dk == Kind(to)
            sk == Kind(from)
            held == lamports[from]
            target == Merged(data[to], dk, data[from], sk, held)
            absorbed == Absorbed(data[from], sk, held)
<1>1. /\ from # to /\ HasMeta(data[to]) /\ HasMeta(data[from])
      /\ KindsCanMerge(dk, sk)
      /\ (dk # "Inactive" /\ sk # "Inactive" =>
            ActiveDelegationsCanMerge(data[to].stake, data[from].stake))
      /\ (dk # "Inactive" => data[to].stake.stake + absorbed <= MaxU64)
      /\ Relocate(from, to, held) /\ UNCHANGED sysvars
      /\ SetStates(to, target, from, Closed)
  BY DEF Merge, Mergeable, CanMerge
<1>2. data' = [b \in Accounts |-> IF b = to THEN target
                                  ELSE IF b = from THEN Closed ELSE data[b]]
  BY <1>1 DEF SetStates, Inv, AccountsOK
<1>3. /\ held \in Nat /\ lamports[to] \in Nat /\ lamports[to] + held \in Nat
      /\ lamports[to] <= lamports[to] + held
      /\ data[to] \in AccountData /\ data[from] \in AccountData
      /\ Sound(data[to], clock.epoch) /\ Backed(data[to], lamports[to])
      /\ Sound(data[from], clock.epoch) /\ Backed(data[from], held)
      /\ from \in Holders /\ to \in Holders
  BY AccountOK
<1>4. Sound(target, clock.epoch) /\ Backed(target, lamports[to] + held)
  <2>1. CASE dk = "Inactive"
    <3>1. target = data[to]
      BY <2>1 DEF Merged
    <3>. HIDE DEF target, held
    <3>. QED
      BY <1>3, <3>1, BackedByMore
  <2>2. CASE dk # "Inactive"
    <3>1. IsStake(to) /\ data[to].kind = "Stake"
      BY <1>1, <2>2, KindOK DEF IsStake
    <3>2. data[to].stake \in Stake /\ data[to].stake.stake \in Nat
      BY <1>3, <3>1, StakeData, StatusOK
    <3>3. CASE sk = "Inactive"
      <4>1. absorbed = held
        BY <3>3 DEF Absorbed
      <4>2. target = [data[to] EXCEPT !.stake.stake = data[to].stake.stake + held]
        BY <2>2, <3>3 DEF Merged
      <4>. HIDE DEF target, held, absorbed
      <4>3. /\ data[to].stake.stake + held \in U64
            /\ data[to].stake.stake + held >= MinimumDelegation
        BY <1>1, <1>3, <2>2, <3>1, <3>2, <4>1, NumbersOK DEF U64, Sound
      <4>4. Sound(target, clock.epoch)
        BY <1>3, <3>1, <4>2, <4>3, AmountReplaced
      <4>5. data[to].stake.deactivation_epoch = Never =>
              lamports[to] + held >= data[to].stake.stake + held
        BY <1>3, <3>1, <3>2 DEF Backed
      <4>6. Backed(target, lamports[to] + held)
        BY <1>3, <3>1, <4>2, <4>3, <4>5, AmountReplaced
      <4>. QED
        BY <4>4, <4>6
    <3>4. CASE sk # "Inactive"
      <4>1. /\ IsStake(from) /\ data[from].kind = "Stake"
            /\ data[from].stake.deactivation_epoch = Never
            /\ data[to].stake.deactivation_epoch = Never
        BY <1>1, <2>2, <3>4, KindOK DEF IsStake, ActiveDelegationsCanMerge
      <4>2. data[from].stake.stake \in Nat /\ data[from].stake.credits_observed \in U64
        BY <1>3, <4>1, StakeData, StatusOK DEF Stake
      <4>3. data[from].stake.stake <= held /\ data[to].stake.stake <= lamports[to]
        BY <1>3, <3>1, <3>2, <4>1, <4>2 DEF Backed
      <4>4. absorbed \in Nat /\ absorbed <= held
        BY <1>3, <4>2, <4>3 DEF Absorbed
      <4>5. target = [data[to] EXCEPT !.stake =
                        Absorb(@, absorbed, data[from].stake.credits_observed)]
        BY <2>2, <3>4 DEF Merged
      <4>. HIDE DEF target, held, absorbed
      <4>6. lamports[to] + held >= data[to].stake.stake + absorbed
        BY <1>3, <3>2, <4>3, <4>4
      <4>7. data[to].stake.stake + absorbed <= MaxU64
        BY <1>1, <2>2
      <4>. QED
        BY <1>3, <3>1, <4>2, <4>4, <4>5, <4>6, <4>7, AbsorbOK
    <3>. QED
      BY <3>3, <3>4
  <2>. QED
    BY <2>1, <2>2
<1>5. Sound(Closed, clock.epoch) /\ Backed(Closed, held - held)
  BY DEF Closed, AccountData, Sound, Backed
<1>6. AccountsOK'
  <2>. HIDE DEF target, held
  <2>1. UNCHANGED clock
    BY <1>1 DEF sysvars
  <2>. QED
    BY <1>1, <1>2, <1>3, <1>4, <1>5, <2>1, TransferOK DEF held
<1>. QED
  BY <1>1, <1>6, SysvarsUnchanged DEF Inv

\* MoveStake moves one lamport with each delegated lamport, and leaves each
\* side the minimum delegation or none.
LEMMA MoveStakeOK ==
  ASSUME Inv, NEW S, NEW from \in Accounts, NEW to \in Accounts, NEW n \in Nat,
         MoveStake(S, from, to, n)
  PROVE  Inv'
<1>. DEFINE rest == data[from].stake.stake - n
            source == Remainder(from, n)
            target == Moved(from, to, n)
<1>1. /\ from # to /\ HasMeta(data[to]) /\ HasMeta(data[from])
      /\ Kind(from) = "FullyActive"
      /\ data[from].stake.stake >= n
      /\ rest \in {0} \cup MinimumDelegation..MaxU64
      /\ \/ /\ Kind(to) = "FullyActive"
            /\ data[to].stake.stake + n \in MinimumDelegation..MaxU64
         \/ Kind(to) = "Inactive" /\ n >= MinimumDelegation
      /\ Relocate(from, to, n) /\ UNCHANGED sysvars
      /\ SetStates(to, target, from, source)
  BY DEF MoveStake, MoveStakeChecks, MoveChecks, Mergeable
<1>2. data' = [b \in Accounts |-> IF b = to THEN target
                                  ELSE IF b = from THEN source ELSE data[b]]
  BY <1>1 DEF SetStates, Inv, AccountsOK
<1>3. /\ lamports[from] \in Nat /\ lamports[to] \in Nat
      /\ data[to] \in AccountData /\ data[from] \in AccountData
      /\ Sound(data[to], clock.epoch) /\ Backed(data[to], lamports[to])
      /\ Sound(data[from], clock.epoch) /\ Backed(data[from], lamports[from])
      /\ from \in Holders /\ to \in Holders
  BY AccountOK
<1>4. /\ IsStake(from) /\ data[from].kind = "Stake"
      /\ data[from].stake.deactivation_epoch = Never
  BY <1>1, KindOK DEF IsStake
<1>5. /\ data[from].stake \in Stake /\ data[from].meta \in Meta
      /\ data[from].stake.stake \in U64
      /\ data[from].stake.credits_observed \in U64
      /\ data[from].stake.stake <= lamports[from]
  BY <1>3, <1>4, StakeData DEF Stake, Lamports, Backed
<1>6. n \in U64 /\ rest \in U64 /\ data[from].stake.stake \in Nat
  BY <1>1, <1>5, NumbersOK DEF U64
<1>7. Sound(source, clock.epoch) /\ Backed(source, lamports[from] - n)
  <2>1. CASE rest = 0
    <3>1. source = Initialized(data[from].meta)
      BY <1>6, <2>1 DEF Remainder
    <3>. HIDE DEF source, rest
    <3>. QED
      BY <1>5, <3>1, NoStakeIsSound DEF Initialized, AccountData, StakeStateV2
  <2>2. CASE rest # 0
    <3>1. source = [data[from] EXCEPT !.stake.stake = rest]
      BY <1>6, <2>2 DEF Remainder
    <3>2. lamports[from] - n >= rest
      BY <1>3, <1>5, <1>6
    <3>. HIDE DEF source, rest
    <3>3. rest >= MinimumDelegation
      BY <1>1, <2>2
    <3>. QED
      BY <1>3, <1>4, <1>6, <3>1, <3>2, <3>3, AmountReplaced
  <2>. QED
    BY <2>1, <2>2
<1>8. Sound(target, clock.epoch) /\ Backed(target, lamports[to] + n)
  <2>1. CASE Kind(to) = "FullyActive"
    <3>1. /\ IsStake(to) /\ data[to].kind = "Stake"
          /\ data[to].stake.deactivation_epoch = Never
      BY <1>1, <2>1, KindOK DEF IsStake
    <3>2. data[to].stake.stake \in Nat /\ data[to].stake.stake <= lamports[to]
      BY <1>3, <3>1, StatusOK DEF Backed
    <3>3. target = [data[to] EXCEPT !.stake =
                      Absorb(@, n, data[from].stake.credits_observed)]
      BY <2>1 DEF Moved
    <3>. HIDE DEF target
    <3>4. lamports[to] + n >= data[to].stake.stake + n
      BY <1>3, <3>2
    <3>5. data[to].stake.stake + n <= MaxU64
      BY <1>1, <2>1, NumbersOK
    <3>. QED
      BY <1>3, <1>5, <3>1, <3>3, <3>4, <3>5, AbsorbOK
  <2>2. CASE Kind(to) # "FullyActive"
    <3>. DEFINE stake == [data[from].stake EXCEPT !.stake = n]
    <3>1. target = Staked(data[to].meta, stake)
      BY <2>2 DEF Moved
    <3>2. /\ stake \in Stake /\ stake.stake = n
          /\ stake.activation_epoch = data[from].stake.activation_epoch
          /\ stake.deactivation_epoch = Never
      BY <1>4, <1>5, <1>6 DEF Stake, Lamports
    <3>3. data[to].meta \in Meta
      BY <1>1, <1>3 DEF HasMeta, AccountData, StakeStateV2, Uninitialized,
                        NoAccount, Closed
    <3>. HIDE DEF stake, target
    <3>4. target \in AccountData /\ target.kind = "Stake" /\ target.stake = stake
      BY <3>1, <3>2, <3>3, BuiltData
    <3>5. n >= MinimumDelegation /\ lamports[to] + n >= n
      BY <1>1, <1>3, <2>2
    <3>6. data[from].stake.activation_epoch <= clock.epoch
      BY <1>3, <1>4 DEF Sound
    <3>. QED
      BY <3>2, <3>4, <3>5, <3>6 DEF Sound, Backed
  <2>. QED
    BY <2>1, <2>2
<1>9. AccountsOK'
  <2>. HIDE DEF target, source
  <2>1. UNCHANGED clock
    BY <1>1 DEF sysvars
  <2>. QED
    BY <1>1, <1>2, <1>3, <1>7, <1>8, <2>1, TransferOK
<1>. QED
  BY <1>1, <1>9, SysvarsUnchanged DEF Inv

-----------------------------------------------------------------------------
(* The runtime.                                                            *)

\* A new account has no delegation.
LEMMA CreateAccountOK ==
  ASSUME Inv, NEW a \in Accounts, CreateAccount(a)
  PROVE  Inv'
<1>1. Sound(Uninitialized, clock.epoch) /\ Backed(Uninitialized, lamports[a])
  BY DEF Uninitialized, AccountData, StakeStateV2, Sound, Backed
<1>2. SetState(a, Uninitialized) /\ UNCHANGED <<lamports, sysvars>>
  BY DEF CreateAccount
<1>. QED
  BY <1>1, <1>2, WriteOK, SysvarsUnchanged DEF Inv, sysvars

\* An account that is removed has no delegation.
LEMMA ReapOK ==
  ASSUME Inv, NEW a \in Accounts, Reap(a)
  PROVE  Inv'
<1>1. Sound(NoAccount, clock.epoch) /\ Backed(NoAccount, lamports[a])
  BY DEF NoAccount, AccountData, Sound, Backed
<1>2. SetState(a, NoAccount) /\ UNCHANGED <<lamports, sysvars>>
  BY DEF Reap
<1>. QED
  BY <1>1, <1>2, WriteOK, SysvarsUnchanged DEF Inv, sysvars

\* A transfer into an account only raises its balance.
LEMMA DepositOK ==
  ASSUME Inv, NEW a \in Accounts, NEW n \in Nat, Deposit(a, n)
  PROVE  Inv'
<1>1. Wallet \in Holders /\ Wallet \notin Accounts
  BY ProgramConstants DEF Holders
<1>2. Relocate(Wallet, a, n) /\ UNCHANGED <<data, sysvars>>
  BY DEF Deposit
<1>. QED
  BY <1>1, <1>2, AccountOK, LamportsMovedOK

\* A sum over a set, as MapThenSumSet folds it: it takes out one element at a
\* time, which CHOOSE picks.
Some(s) == CHOOSE a \in s : TRUE

SumOf(f, S) ==
    LET sum[s \in SUBSET S] ==
          IF s = {} THEN 0 ELSE f[Some(s)] + sum[s \ {Some(s)}]
    IN  sum

\* The sum as a recursive function on subsets.
LEMMA SumIsFold ==
  ASSUME NEW f, NEW S
  PROVE  MapThenSumSet(LAMBDA a : f[a], S) = SumOf(f, S)[S]
BY DEF MapThenSumSet, MapThenFoldSet, SumOf, Some

\* The function that SumOf chooses exists: the sum of a set of n elements is
\* computed in n rounds.
NoSum(S) == [s \in SUBSET S |-> 0]
SumRound(f, S, g) ==
    [s \in SUBSET S |->
        IF s = {} THEN 0 ELSE f[Some(s)] + g[s \ {Some(s)}]]
SumRounds(f, S) ==
    LET round[n \in Nat] ==
          IF n = 0 THEN NoSum(S) ELSE SumRound(f, S, round[n - 1])
    IN  round

\* Each round computes the sums of sets with one element more.
LEMMA SumRoundsUnfolded ==
  ASSUME NEW f, NEW S
  PROVE  SumRounds(f, S) =
           [n \in Nat |->
              IF n = 0 THEN NoSum(S)
              ELSE SumRound(f, S, SumRounds(f, S)[n - 1])]
BY DEF SumRounds

\* The sum of a finite set takes one element out at a time.
LEMMA SumUnfolded ==
  ASSUME NEW f, NEW S, IsFiniteSet(S)
  PROVE  \A s \in SUBSET S :
            SumOf(f, S)[s] =
              IF s = {} THEN 0
              ELSE f[Some(s)] + SumOf(f, S)[s \ {Some(s)}]
<1>. DEFINE g == [s \in SUBSET S |-> SumRounds(f, S)[Cardinality(s)][s]]
<1>1. ASSUME NEW s \in SUBSET S, s # {}
      PROVE  g[s] = f[Some(s)] + g[s \ {Some(s)}]
  <2>1. Some(s) \in s
    BY <1>1 DEF Some
  <2>2. IsFiniteSet(s) /\ Cardinality(s) \in Nat
    BY FS_Subset, FS_CardinalityType
  <2>3. Cardinality(s) # 0
    BY <1>1, <2>2, FS_EmptySet
  <2>4. Cardinality(s \ {Some(s)}) = Cardinality(s) - 1
    BY <2>1, <2>2, FS_RemoveElement
  <2>5. s \ {Some(s)} \in SUBSET S
    BY <1>1
  <2>6. SumRounds(f, S)[Cardinality(s)]
          = SumRound(f, S, SumRounds(f, S)[Cardinality(s) - 1])
    BY <2>2, <2>3, SumRoundsUnfolded
  <2>7. SumRounds(f, S)[Cardinality(s)][s]
          = f[Some(s)]
              + SumRounds(f, S)[Cardinality(s) - 1][s \ {Some(s)}]
    BY <1>1, <2>6 DEF SumRound
  <2>. QED
    BY <2>4, <2>5, <2>7
<1>2. g[{}] = 0
  <2>1. Cardinality({}) = 0
    BY FS_EmptySet
  <2>2. SumRounds(f, S)[0] = NoSum(S)
    BY SumRoundsUnfolded
  <2>3. {} \in SUBSET S /\ NoSum(S)[{}] = 0
    BY DEF NoSum
  <2>. QED
    BY <2>1, <2>2, <2>3
<1>. HIDE DEF g
<1>3. g = [s \in SUBSET S |->
             IF s = {} THEN 0 ELSE f[Some(s)] + g[s \ {Some(s)}]]
  <2>1. g = [s \in SUBSET S |-> g[s]]
    BY DEF g
  <2>. QED
    BY <1>1, <1>2, <2>1
<1>4. \E h : h = [s \in SUBSET S |->
                    IF s = {} THEN 0
                    ELSE f[Some(s)] + h[s \ {Some(s)}]]
  BY <1>3
<1>. DEFINE sum == SumOf(f, S)
<1>5. sum = [s \in SUBSET S |->
               IF s = {} THEN 0 ELSE f[Some(s)] + sum[s \ {Some(s)}]]
  BY <1>4, Zenon DEF SumOf
<1>. HIDE DEF sum
<1>6. \A s \in SUBSET S :
         sum[s] = IF s = {} THEN 0 ELSE f[Some(s)] + sum[s \ {Some(s)}]
  BY <1>5
<1>. QED
  BY <1>6 DEF sum

(***************************************************************************)
(* The sum of f over the elements of s.  The lemmas below say what it is   *)
(* without the order in which elements are taken out, by induction on      *)
(* their number.                                                           *)
(***************************************************************************)
Total(f, s) == MapThenSumSet(LAMBDA a : f[a], s)

\* Subsets are summed in the same order, whatever they are subsets of.
LEMMA SumRestricted ==
  ASSUME NEW f, NEW S, IsFiniteSet(S), NEW s \in SUBSET S
  PROVE  SumOf(f, S)[s] = Total(f, s)
<1>. DEFINE T == {n \in Nat : \A U, u :
                     IsFiniteSet(U) /\ u \in SUBSET U /\ Cardinality(u) = n =>
                        SumOf(f, U)[u] = SumOf(f, u)[u]}
<1>1. 0 \in T
  <2>. SUFFICES ASSUME NEW U, NEW u, IsFiniteSet(U), u \in SUBSET U,
                       Cardinality(u) = 0
                PROVE  SumOf(f, U)[u] = SumOf(f, u)[u]
    OBVIOUS
  <2>1. IsFiniteSet(u) /\ u = {}
    BY FS_Subset, FS_EmptySet
  <2>2. SumOf(f, U)[u] = 0
    BY <2>1, SumUnfolded
  <2>3. SumOf(f, u)[u] = 0
    BY <2>1, SumUnfolded
  <2>. QED
    BY <2>2, <2>3
<1>2. ASSUME NEW n \in Nat, n \in T
      PROVE  n + 1 \in T
  <2>. SUFFICES ASSUME NEW U, NEW u, IsFiniteSet(U), u \in SUBSET U,
                       Cardinality(u) = n + 1
                PROVE  SumOf(f, U)[u] = SumOf(f, u)[u]
    OBVIOUS
  <2>. DEFINE rest == u \ {Some(u)}
  <2>1. IsFiniteSet(u)
    BY FS_Subset
  <2>2. Cardinality({}) = 0
    BY FS_EmptySet
  <2>3. u # {}
    BY <2>2
  <2>4. Some(u) \in u
    BY <2>3 DEF Some
  <2>5. Cardinality(rest) = n
    <3>1. Cardinality(rest) = Cardinality(u) - 1
      BY <2>1, <2>4, FS_RemoveElement
    <3>. QED
      BY <3>1
  <2>6. SumOf(f, U)[u] = f[Some(u)] + SumOf(f, U)[rest]
    BY <2>3, SumUnfolded
  <2>7. SumOf(f, u)[u] = f[Some(u)] + SumOf(f, u)[rest]
    BY <2>1, <2>3, SumUnfolded
  <2>8. rest \in SUBSET U /\ rest \in SUBSET u
    OBVIOUS
  <2>. HIDE DEF rest
  <2>9. SumOf(f, U)[rest] = SumOf(f, rest)[rest]
    BY <1>2, <2>5, <2>8
  <2>10. SumOf(f, u)[rest] = SumOf(f, rest)[rest]
    BY <1>2, <2>1, <2>5, <2>8
  <2>. QED
    BY <2>6, <2>7, <2>9, <2>10
<1>3. IsFiniteSet(s) /\ Cardinality(s) \in Nat
  BY FS_Subset, FS_CardinalityType
<1>4. Cardinality(s) \in T
  <2>. HIDE DEF T
  <2>1. \A n \in 0..Cardinality(s) : n \in T
    BY <1>1, <1>2, <1>3, BoundedInduction
  <2>. QED
    BY <1>3, <2>1
<1>5. SumOf(f, S)[s] = SumOf(f, s)[s]
  BY <1>4
<1>. QED
  BY <1>5, SumIsFold DEF Total

LEMMA TotalEmpty ==
  ASSUME NEW f
  PROVE  Total(f, {}) = 0
<1>1. IsFiniteSet({})
  BY FS_EmptySet
<1>2. SumOf(f, {})[{}] = 0
  BY <1>1, SumUnfolded
<1>. QED
  BY <1>2, SumIsFold DEF Total

LEMMA TotalPicked ==
  ASSUME NEW f, NEW s, IsFiniteSet(s), s # {}
  PROVE  /\ Some(s) \in s
         /\ Total(f, s) = f[Some(s)] + Total(f, s \ {Some(s)})
<1>1. Some(s) \in s
  BY DEF Some
<1>2. SumOf(f, s)[s] = f[Some(s)] + SumOf(f, s)[s \ {Some(s)}]
  BY SumUnfolded
<1>3. SumOf(f, s)[s] = Total(f, s)
  BY SumRestricted
<1>4. SumOf(f, s)[s \ {Some(s)}] = Total(f, s \ {Some(s)})
  BY SumRestricted
<1>. QED
  BY <1>1, <1>2, <1>3, <1>4

\* A sum of integers is one, of natural numbers one of those, of zeros zero.
LEMMA TotalTyped ==
  ASSUME NEW D \in {Int, Nat, {0}}, NEW f, NEW s, IsFiniteSet(s),
         \A a \in s : f[a] \in D
  PROVE  Total(f, s) \in D
<1>. DEFINE T == {n \in Nat : \A u \in SUBSET s :
                                Cardinality(u) = n => Total(f, u) \in D}
<1>1. \A u \in SUBSET s : IsFiniteSet(u) /\ Cardinality(u) \in Nat
  BY FS_Subset, FS_CardinalityType
<1>2. 0 \in T
  <2>. SUFFICES ASSUME NEW u \in SUBSET s, Cardinality(u) = 0
                PROVE  Total(f, u) \in D
    OBVIOUS
  <2>1. u = {}
    BY <1>1, FS_EmptySet
  <2>. QED
    BY <2>1, TotalEmpty
<1>3. ASSUME NEW n \in Nat, n \in T
      PROVE  n + 1 \in T
  <2>. SUFFICES ASSUME NEW u \in SUBSET s, Cardinality(u) = n + 1
                PROVE  Total(f, u) \in D
    OBVIOUS
  <2>1. u # {}
    <3>1. Cardinality({}) = 0
      BY FS_EmptySet
    <3>. QED
      BY <3>1
  <2>2. Some(u) \in u /\ Total(f, u) = f[Some(u)] + Total(f, u \ {Some(u)})
    BY <1>1, <2>1, TotalPicked
  <2>3. Cardinality(u \ {Some(u)}) = Cardinality(u) - 1
    <3>. DEFINE c == Some(u)
    <3>1. c \in u /\ IsFiniteSet(u)
      BY <1>1, <2>2
    <3>. HIDE DEF c
    <3>2. Cardinality(u \ {c}) = Cardinality(u) - 1
      BY <3>1, FS_RemoveElement
    <3>. QED
      BY <3>2 DEF c
  <2>4. u \ {Some(u)} \in SUBSET s /\ Cardinality(u \ {Some(u)}) = n
    BY <2>3
  <2>5. Total(f, u \ {Some(u)}) \in D /\ f[Some(u)] \in D
    BY <1>3, <2>2, <2>4
  <2>. QED
    BY <2>2, <2>5
<1>4. Cardinality(s) \in T
  <2>. HIDE DEF T
  <2>1. s \in SUBSET s
    OBVIOUS
  <2>2. \A n \in 0..Cardinality(s) : n \in T
    BY <1>1, <1>2, <1>3, <2>1, BoundedInduction
  <2>. QED
    BY <1>1, <2>1, <2>2
<1>. QED
  BY <1>4

\* Any element can be the first that is taken out.
LEMMA TotalWithout ==
  ASSUME NEW f, NEW s, IsFiniteSet(s), \A a \in s : f[a] \in Int
  PROVE  \A a \in s : Total(f, s) = f[a] + Total(f, s \ {a})
<1>. DEFINE summed(u) == \A a \in u : Total(f, u) = f[a] + Total(f, u \ {a})
            T == {n \in Nat : \A u \in SUBSET s : Cardinality(u) = n => summed(u)}
<1>1. \A u \in SUBSET s :
         IsFiniteSet(u) /\ Cardinality(u) \in Nat /\ Total(f, u) \in Int
  BY FS_Subset, FS_CardinalityType, TotalTyped
<1>2. 0 \in T
  <2>. SUFFICES ASSUME NEW u \in SUBSET s, Cardinality(u) = 0
                PROVE  summed(u)
    OBVIOUS
  <2>1. u = {}
    BY <1>1, FS_EmptySet
  <2>. QED
    BY <2>1
<1>3. ASSUME NEW n \in Nat, n \in T
      PROVE  n + 1 \in T
  <2>. SUFFICES ASSUME NEW u \in SUBSET s, Cardinality(u) = n + 1,
                       NEW a \in u
                PROVE  Total(f, u) = f[a] + Total(f, u \ {a})
    OBVIOUS
  <2>. DEFINE c == Some(u)
  <2>1. c \in u /\ Total(f, u) = f[c] + Total(f, u \ {c})
    BY <1>1, TotalPicked
  <2>. HIDE DEF c
  <2>2. ASSUME NEW b \in u PROVE summed(u \ {b})
    <3>1. Cardinality(u \ {b}) = Cardinality(u) - 1
      BY <1>1, FS_RemoveElement
    <3>2. u \ {b} \in SUBSET s /\ Cardinality(u \ {b}) = n
      BY <3>1
    <3>. QED
      BY <1>3, <3>2
  <2>3. CASE a = c
    BY <2>1, <2>3
  <2>4. CASE a # c
    <3>. DEFINE rest == (u \ {a}) \ {c}
    <3>1. rest = (u \ {c}) \ {a}
      OBVIOUS
    <3>2. Total(f, u \ {c}) = f[a] + Total(f, rest)
      BY <2>1, <2>2, <2>4, <3>1
    <3>3. Total(f, u \ {a}) = f[c] + Total(f, rest)
      BY <2>1, <2>2, <2>4
    <3>4. f[a] \in Int /\ f[c] \in Int /\ Total(f, rest) \in Int
      BY <1>1, <2>1
    <3>. HIDE DEF rest
    <3>. QED
      BY <2>1, <3>2, <3>3, <3>4
  <2>. QED
    BY <2>3, <2>4
<1>4. Cardinality(s) \in T
  <2>. HIDE DEF T
  <2>1. s \in SUBSET s
    OBVIOUS
  <2>2. \A n \in 0..Cardinality(s) : n \in T
    BY <1>1, <1>2, <1>3, <2>1, BoundedInduction
  <2>. QED
    BY <1>1, <2>1, <2>2
<1>. QED
  BY <1>4

\* No element is above a sum of natural numbers.
LEMMA TotalCovers ==
  ASSUME NEW f, NEW s, IsFiniteSet(s), \A a \in s : f[a] \in Nat
  PROVE  Total(f, s) \in Nat /\ \A a \in s : f[a] <= Total(f, s)
<1>1. Total(f, s) \in Nat
  BY TotalTyped
<1>2. ASSUME NEW a \in s PROVE f[a] <= Total(f, s)
  <2>1. IsFiniteSet(s \ {a})
    BY FS_RemoveElement
  <2>2. Total(f, s \ {a}) \in Nat /\ f[a] \in Nat
    BY <2>1, TotalTyped
  <2>3. Total(f, s) = f[a] + Total(f, s \ {a})
    BY TotalWithout
  <2>. QED
    BY <2>2, <2>3
<1>. QED
  BY <1>1, <1>2

\* The sum of a function that is given by its values.
LEMMA TotalIsFold ==
  ASSUME NEW F(_), NEW s
  PROVE  MapThenSumSet(F, s) = Total([a \in s |-> F(a)], s)
<1>. DEFINE f == [a \in s |-> F(a)]
<1>1. \A u \in SUBSET s : u # {} => F(Some(u)) = f[Some(u)]
  BY DEF Some
<1>2. \A g : [u \in SUBSET s |->
                 IF u = {} THEN 0 ELSE F(Some(u)) + g[u \ {Some(u)}]]
           = [u \in SUBSET s |->
                 IF u = {} THEN 0 ELSE f[Some(u)] + g[u \ {Some(u)}]]
  <2>. HIDE DEF f
  <2>. QED
    BY <1>1
<1>. HIDE DEF f
<1>3. (CHOOSE g : g = [u \in SUBSET s |->
                  IF u = {} THEN 0 ELSE F(Some(u)) + g[u \ {Some(u)}]])
        = (CHOOSE g : g = [u \in SUBSET s |->
                  IF u = {} THEN 0 ELSE f[Some(u)] + g[u \ {Some(u)}]])
  BY <1>2, Zenon
<1>. QED
  BY <1>3 DEF MapThenSumSet, MapThenFoldSet, Some, Total, f

\* The cluster's totals are numbers, and no account has more.
LEMMA ClusterTotalOK ==
  ASSUME Inv, NEW field \in {"effective", "activating", "deactivating"},
         NEW background \in Entry
  PROVE  /\ ClusterTotal(field, background) \in Nat
         /\ \A a \in Accounts :
               IsStake(a) => Status(a)[field] <= ClusterTotal(field, background)
<1>. DEFINE staked == {a \in Accounts : IsStake(a)}
            value == [a \in staked |-> Status(a)[field]]
<1>1. \A a \in staked : Status(a)[field] \in Nat
  BY StatusOK
<1>2. IsFiniteSet(staked)
  BY ProgramConstants, FS_Subset
<1>3. ClusterTotal(field, background) = background[field] + Total(value, staked)
  BY TotalIsFold DEF ClusterTotal
<1>4. Total(value, staked) \in Nat /\ \A a \in staked : value[a] <= Total(value, staked)
  <2>1. \A a \in staked : value[a] \in Nat
    BY <1>1
  <2>. HIDE DEF value, staked
  <2>. QED
    BY <1>2, <2>1, TotalCovers
<1>5. background[field] \in Nat
  BY DEF Entry
<1>6. \A a \in Accounts : IsStake(a) => a \in staked /\ value[a] = Status(a)[field]
  OBVIOUS
<1>. HIDE DEF value, staked
<1>. QED
  BY <1>1, <1>3, <1>4, <1>5, <1>6

\* The entry of the epoch that ends is typed, and all accounts stay Sound in
\* the next one.
LEMMA AdvanceEpochOK ==
  ASSUME Inv, AdvanceEpoch
  PROVE  Inv'
<1>. DEFINE total(background) ==
              [effective    |-> ClusterTotal("effective", background),
               activating   |-> ClusterTotal("activating", background),
               deactivating |-> ClusterTotal("deactivating", background)]
<1>1. /\ clock \in Clock /\ clock.epoch \in 0..MaxEpoch
      /\ clock.epoch < MaxEpoch
      /\ history \in [0..(clock.epoch - 1) -> Entry]
      /\ clock' = [clock EXCEPT !.epoch = @ + 1]
      /\ UNCHANGED <<lamports, data, epoch_credits, rent>>
  BY DEF Inv, SysvarsOK, Clock, AdvanceEpoch
<1>2. rewards_active' \in BOOLEAN
  BY DEF AdvanceEpoch
<1>3. clock' \in Clock /\ clock'.epoch = clock.epoch + 1 /\ clock.epoch \in Nat
  BY <1>1, NumbersOK DEF Clock
<1>4. PICK background \in Background :
         history' = [e \in 0..clock.epoch |->
                       IF e < clock.epoch THEN history[e] ELSE total(background)]
  BY DEF AdvanceEpoch
<1>5. background \in Entry
  BY ProgramConstants
<1>6. total(background) \in Entry
  BY <1>5, ClusterTotalOK DEF Entry
<1>. HIDE DEF total
<1>7. history' \in [0..(clock'.epoch - 1) -> Entry]
  <2>1. clock'.epoch - 1 = clock.epoch
    BY <1>3
  <2>2. \A e \in 0..clock.epoch : e < clock.epoch => history[e] \in Entry
    BY <1>1, <1>3
  <2>. QED
    BY <1>4, <1>6, <2>1, <2>2
<1>8. VotesInOrder'
  <2>1. SUFFICES ASSUME NEW v \in Voters, epoch_credits[v] # << >>
                 PROVE  LET voted == epoch_credits[v]
                        IN  /\ voted[Len(voted)] <= clock.epoch + 1
                            /\ Len(voted) - 1 <= voted[Len(voted)]
    BY <1>1, <1>3 DEF VotesInOrder
  <2>2. epoch_credits[v] \in Seq(Nat) /\ epoch_credits[v][Len(epoch_credits[v])] \in Nat
    BY <2>1 DEF Inv, SysvarsOK
  <2>3. LET voted == epoch_credits[v]
        IN  /\ voted[Len(voted)] <= clock.epoch
            /\ Len(voted) - 1 <= voted[Len(voted)]
    BY <2>1 DEF Inv, SysvarsOK, VotesInOrder
  <2>. QED
    BY <1>3, <2>2, <2>3
<1>9. SysvarsOK'
  <2>1. epoch_credits \in [Voters -> Seq(Nat)] /\ rent \in Lamports
    BY DEF Inv, SysvarsOK
  <2>. QED
    BY <1>1, <1>3, <1>7, <1>8, <1>2, <2>1 DEF SysvarsOK
<1>10. AccountsOK'
  <2>1. \A a \in Accounts : Sound(data[a], clock.epoch + 1)
    <3>1. SUFFICES ASSUME NEW a \in Accounts
                   PROVE  Sound(data[a], clock.epoch + 1)
      OBVIOUS
    <3>2. Sound(data[a], clock.epoch) /\ data[a] \in AccountData
      BY AccountOK
    <3>3. data[a].kind = "Stake" => /\ data[a].stake.activation_epoch \in Nat
                                    /\ data[a].stake.deactivation_epoch \in Nat
      BY <3>2, StakeData, NumbersOK DEF Stake
    <3>. QED
      BY <1>3, <3>2, <3>3 DEF Sound
  <2>2. /\ lamports \in [Holders -> Lamports] /\ data \in [Accounts -> AccountData]
        /\ \A a \in Accounts : Backed(data[a], lamports[a])
    BY DEF Inv, AccountsOK
  <2>. QED
    BY <1>1, <1>3, <2>1, <2>2 DEF AccountsOK, Sound, Backed
<1>. QED
  BY <1>9, <1>10 DEF Inv

\* The history of the next epoch has one entry more.
LEMMA HistoryExtended ==
  ASSUME Inv, AdvanceEpoch
  PROVE  /\ clock'.epoch = clock.epoch + 1
         /\ clock.epoch \in Nat /\ clock.epoch + 1 < Never
         /\ IsHistory(history) /\ IsHistory(history')
         /\ Extends(history', history, clock.epoch)
<1>1. /\ clock \in Clock /\ clock.epoch \in 0..MaxEpoch
      /\ clock.epoch < MaxEpoch
      /\ clock' = [clock EXCEPT !.epoch = @ + 1]
      /\ history \in [0..(clock.epoch - 1) -> Entry]
      /\ \E last : history' = [e \in 0..clock.epoch |->
                                 IF e < clock.epoch THEN history[e] ELSE last]
  BY DEF Inv, SysvarsOK, Clock, AdvanceEpoch
<1>2. clock'.epoch = clock.epoch + 1 /\ clock.epoch \in Nat
  BY <1>1 DEF Clock
<1>3. clock.epoch + 1 < Never
  BY <1>1, <1>2, NumbersOK DEF Never
<1>4. Extends(history', history, clock.epoch)
  BY <1>1, <1>2 DEF Extends
<1>5. IsHistory(history) /\ IsHistory(history')
  <2>1. Inv'
    BY AdvanceEpochOK
  <2>. QED
    BY <2>1 DEF Inv, SysvarsOK, IsHistory
<1>. QED
  BY <1>2, <1>3, <1>4, <1>5

\* A vote adds one record, of the current epoch.
LEMMA VoteOK ==
  ASSUME Inv, NEW v \in Voters, Vote(v)
  PROVE  Inv'
<1>. DEFINE voted == epoch_credits[v]
<1>1. /\ epoch_credits \in [Voters -> Seq(Nat)] /\ voted \in Seq(Nat)
      /\ clock.epoch \in Nat
      /\ (voted # << >> => /\ voted[Len(voted)] <= clock.epoch
                           /\ Len(voted) - 1 <= voted[Len(voted)]
                           /\ voted[Len(voted)] # clock.epoch)
      /\ epoch_credits' = [epoch_credits EXCEPT ![v] = Append(voted, clock.epoch)]
      /\ UNCHANGED <<lamports, data, clock, history, rent, rewards_active>>
  BY DEF Inv, SysvarsOK, VotesInOrder, Clock, Vote
<1>2. /\ Append(voted, clock.epoch) \in Seq(Nat)
      /\ Len(Append(voted, clock.epoch)) = Len(voted) + 1
      /\ Append(voted, clock.epoch)[Len(voted) + 1] = clock.epoch
      /\ Len(voted) \in Nat
      /\ (voted # << >> => voted[Len(voted)] \in Nat)
      /\ (voted = << >> => Len(voted) = 0)
  BY <1>1
<1>3. Len(voted) <= clock.epoch
  <2>. HIDE DEF voted
  <2>. QED
    BY <1>1, <1>2
<1>. HIDE DEF voted
<1>4. VotesInOrder'
  <2>1. SUFFICES ASSUME NEW u \in Voters, epoch_credits'[u] # << >>
                 PROVE  /\ epoch_credits'[u][Len(epoch_credits'[u])] <= clock.epoch
                        /\ Len(epoch_credits'[u]) - 1
                             <= epoch_credits'[u][Len(epoch_credits'[u])]
    BY <1>1 DEF VotesInOrder
  <2>2. CASE u = v
    <3>1. epoch_credits'[u] = Append(voted, clock.epoch)
      BY <1>1, <2>2
    <3>. QED
      BY <1>1, <1>2, <1>3, <3>1
  <2>3. CASE u # v
    <3>1. epoch_credits'[u] = epoch_credits[u]
      BY <1>1, <2>3
    <3>. QED
      BY <2>1, <3>1 DEF Inv, SysvarsOK, VotesInOrder
  <2>. QED
    BY <2>2, <2>3
<1>5. SysvarsOK'
  BY <1>1, <1>2, <1>4 DEF Inv, SysvarsOK
<1>6. AccountsOK'
  BY <1>1 DEF Inv, AccountsOK, Sound, Backed
<1>. QED
  BY <1>5, <1>6 DEF Inv

\* The end of the rewards touches no account.
LEMMA EndRewardsOK ==
  ASSUME Inv, EndRewards
  PROVE  Inv'
BY DEF Inv, AccountsOK, SysvarsOK, VotesInOrder, Sound, Backed, EndRewards

\* Inv does not mention how much rent is.
LEMMA ChangeRentOK ==
  ASSUME Inv, ChangeRent
  PROVE  Inv'
<1>1. rent' \in Lamports
  BY ProgramConstants DEF ChangeRent
<1>. QED
  BY <1>1 DEF Inv, AccountsOK, SysvarsOK, VotesInOrder, Sound, Backed, ChangeRent

\* Time touches no account.
LEMMA AdvanceTimeOK ==
  ASSUME Inv, AdvanceTime
  PROVE  Inv'
<1>1. clock' \in Clock /\ clock'.epoch = clock.epoch
  BY NumbersOK DEF Inv, SysvarsOK, AdvanceTime, Clock
<1>2. UNCHANGED <<lamports, data, history, epoch_credits, rent, rewards_active>>
  BY DEF AdvanceTime
<1>. QED
  BY <1>1, <1>2 DEF Inv, AccountsOK, SysvarsOK, VotesInOrder, Sound, Backed

-----------------------------------------------------------------------------
(* The inductive invariant.                                                *)

\* The inputs of the instructions are typed.
LEMMA InputsOK ==
  /\ Parties \subseteq Keys
  /\ InitialLockups \subseteq Lockup /\ DefaultLockup \in Lockup
  /\ LockupChanges \subseteq LockupArgs
  /\ Amounts \subseteq Nat
BY ProgramConstants, MetaConstants, NumbersOK DEF DefaultLockup, Lockup

\* The initial states satisfy the invariant.
LEMMA InitOK == Init => Inv
<1>. SUFFICES ASSUME Init PROVE Inv
  OBVIOUS
<1>1. lamports \in [Holders -> Lamports] /\ rent \in Lamports
  BY ProgramConstants, NumbersOK DEF Init, Lamports, U64
<1>2. \A a \in Accounts : Sound(data[a], clock.epoch) /\ Backed(data[a], lamports[a])
  BY DEF Init, NoAccount, AccountData, Sound, Backed
<1>3. clock \in Clock /\ clock.epoch = 0
  BY NumbersOK DEF Init, Clock
<1>4. history \in [0..(clock.epoch - 1) -> Entry]
  BY <1>3 DEF Init
<1>5. epoch_credits \in [Voters -> Seq(Nat)] /\ VotesInOrder
  BY DEF Init, VotesInOrder
<1>6. data \in [Accounts -> AccountData]
  BY DEF Init, NoAccount, AccountData
<1>7. rewards_active \in BOOLEAN
  BY Zenon DEF Init
<1>. QED
  BY <1>1, <1>2, <1>3, <1>4, <1>5, <1>6, <1>7 DEF Inv, SysvarsOK, AccountsOK

\* One step per instruction.
LEMMA ProcessOK ==
  ASSUME Inv, NEW S, Process(S)
  PROVE  Inv'
<1>. PICK a \in Accounts :
        \/ Initialize(a)
        \/ InitializeChecked(S, a)
        \/ Authorize(S, a)
        \/ AuthorizeChecked(S, a)
        \/ AuthorizeWithSeed(S, a)
        \/ AuthorizeCheckedWithSeed(S, a)
        \/ SetLockup(S, a)
        \/ SetLockupChecked(S, a)
        \/ \E v \in Voters : Delegate(S, a, v)
        \/ Deactivate(S, a)
        \/ \E delinquent, reference \in Voters :
              DeactivateDelinquent(a, delinquent, reference)
        \/ \E to \in Holders : Withdraw(S, a, to)
        \/ \E to \in Accounts : Merge(S, to, a)
        \/ \E to \in Accounts : \E n \in Amounts \cup {lamports[a]} :
              \/ SplitFull(S, a, to, n)
              \/ SplitInactive(S, a, to, n)
              \/ SplitActive(S, a, to, n)
              \/ MoveStake(S, a, to, n)
              \/ MoveLamports(S, a, to, n)
  BY Zenon DEF Process
<1>1. CASE Initialize(a)
  BY <1>1, InputsOK, InitializeOK DEF Initialize
<1>2. CASE InitializeChecked(S, a)
  BY <1>2, InputsOK, InitializeOK DEF InitializeChecked
<1>3. CASE Authorize(S, a)
  BY <1>3, InputsOK, AuthorizeOK DEF Authorize
<1>4. CASE AuthorizeChecked(S, a)
  BY <1>4, InputsOK, AuthorizeOK DEF AuthorizeChecked
<1>5. CASE AuthorizeWithSeed(S, a)
  BY <1>5, InputsOK, AuthorizeOK DEF AuthorizeWithSeed
<1>6. CASE AuthorizeCheckedWithSeed(S, a)
  BY <1>6, InputsOK, AuthorizeOK DEF AuthorizeCheckedWithSeed
<1>7. CASE SetLockup(S, a)
  BY <1>7, InputsOK, SetLockupOK DEF SetLockup
<1>8. CASE SetLockupChecked(S, a)
  BY <1>8, InputsOK, SetLockupOK DEF SetLockupChecked
<1>9. CASE \E v \in Voters : Delegate(S, a, v)
  BY <1>9, DelegateOK
<1>10. CASE Deactivate(S, a)
  BY <1>10, DeactivateOK DEF Deactivate
<1>11. CASE \E delinquent, reference \in Voters :
               DeactivateDelinquent(a, delinquent, reference)
  BY <1>11, DeactivateOK DEF DeactivateDelinquent
<1>12. CASE \E to \in Holders : Withdraw(S, a, to)
  BY <1>12, InputsOK, WithdrawAllOK, WithdrawPartOK DEF Withdraw
<1>13. CASE \E to \in Accounts : Merge(S, to, a)
  BY <1>13, MergeOK
<1>14. CASE \E to \in Accounts : \E n \in Amounts \cup {lamports[a]} :
               \/ SplitFull(S, a, to, n)
               \/ SplitInactive(S, a, to, n)
               \/ SplitActive(S, a, to, n)
               \/ MoveStake(S, a, to, n)
               \/ MoveLamports(S, a, to, n)
  <2>1. PICK to \in Accounts, n \in Amounts \cup {lamports[a]} :
               \/ SplitFull(S, a, to, n)
               \/ SplitInactive(S, a, to, n)
               \/ SplitActive(S, a, to, n)
               \/ MoveStake(S, a, to, n)
               \/ MoveLamports(S, a, to, n)
    BY <1>14
  <2>2. n \in Nat
    BY InputsOK, AccountOK
  <2>. QED
    BY <2>1, <2>2, SplitFullOK, SplitInactiveOK, SplitActiveOK, MoveStakeOK,
       MoveLamportsOK
<1>. QED
  BY <1>1, <1>2, <1>3, <1>4, <1>5, <1>6, <1>7, <1>8, <1>9, <1>10, <1>11, <1>12,
     <1>13, <1>14

\* The steps of the runtime preserve the invariant.
LEMMA RuntimeOK ==
  ASSUME Inv, Runtime
  PROVE  Inv'
<1>1. ASSUME NEW a \in Accounts, CreateAccount(a) PROVE Inv'
  BY <1>1, CreateAccountOK
<1>2. ASSUME NEW a \in Accounts, NEW n \in Amounts, Deposit(a, n) PROVE Inv'
  BY <1>2, InputsOK, DepositOK
<1>3. ASSUME NEW a \in Accounts, Reap(a) PROVE Inv'
  BY <1>3, ReapOK
<1>4. CASE AdvanceEpoch
  BY <1>4, AdvanceEpochOK
<1>5. CASE EndRewards
  BY <1>5, EndRewardsOK
<1>6. CASE AdvanceTime
  BY <1>6, AdvanceTimeOK
<1>7. ASSUME NEW v \in Voters, Vote(v) PROVE Inv'
  BY <1>7, VoteOK
<1>8. CASE ChangeRent
  BY <1>8, ChangeRentOK
<1>. QED
  BY <1>1, <1>2, <1>3, <1>4, <1>5, <1>6, <1>7, <1>8 DEF Runtime

\* So do all steps.
LEMMA NextOK == Inv /\ [Next]_vars => Inv'
<1>. SUFFICES ASSUME Inv, [Next]_vars PROVE Inv'
  OBVIOUS
<1>1. ASSUME NEW S \in SignerSets, Process(S) PROVE Inv'
  BY <1>1, ProcessOK
<1>2. CASE Runtime
  BY <1>2, RuntimeOK
<1>3. CASE UNCHANGED vars
  BY <1>3 DEF vars, Inv, AccountsOK, SysvarsOK, VotesInOrder, Sound, Backed
<1>. QED
  BY <1>1, <1>2, <1>3 DEF Next

(***************************************************************************)
(* Inv holds in every state of every execution: whatever the accounts, the *)
(* signers, the rent, the history and the order of the instructions.       *)
(***************************************************************************)
THEOREM Invariance == Spec => []Inv
<1>1. Init => Inv
  BY InitOK
<1>2. Inv /\ [Next]_vars => Inv'
  BY NextOK
<1>. QED
  BY <1>1, <1>2, PTL DEF Spec

-----------------------------------------------------------------------------
(* What follows from it.                                                   *)

(***************************************************************************)
(* Every instruction writes well-formed state: balances and delegations    *)
(* stay within u64, authorities and lockups are there when they are read,  *)
(* and the history has a well-formed entry for every epoch.                *)
(***************************************************************************)
THEOREM TypeCorrect == Spec => []TypeOK
<1>1. Inv => TypeOK
  BY DEF Inv, SysvarsOK, AccountsOK, TypeOK
<1>. QED
  BY <1>1, Invariance, PTL

(***************************************************************************)
(* No delegation is ever below the minimum: Split, MoveStake, Merge and    *)
(* DelegateStake each check amounts of their own, and together they keep   *)
(* it.                                                                     *)
(***************************************************************************)
THEOREM MinimumKept == Spec => []MinimumDelegated
<1>1. Inv => MinimumDelegated
  BY DEF Inv, AccountsOK, Sound, MinimumDelegated, StakeAccounts, IsStake
<1>. QED
  BY <1>1, Invariance, PTL

(***************************************************************************)
(* The epochs of a delegation are in the order that the status is computed *)
(* for, however delegations are copied, moved, rescinded and deactivated.  *)
(***************************************************************************)
THEOREM EpochsKeptInOrder == Spec => []EpochsOrdered
<1>1. Inv => EpochsOrdered
  BY DEF Inv, AccountsOK, Sound, EpochsOrdered, StakeAccounts, IsStake
<1>. QED
  BY <1>1, Invariance, PTL

(***************************************************************************)
(* A delegation that is not deactivated is covered by lamports in the      *)
(* account, although rent may rise and fall at any time: no sequence of    *)
(* instructions delegates a lamport twice.                                 *)
(***************************************************************************)
THEOREM DelegationsKeptBacked == Spec => []DelegationsBacked
<1>1. Inv => DelegationsBacked
  BY DEF Inv, AccountsOK, Backed, DelegationsBacked, StakeAccounts, IsStake
<1>. QED
  BY <1>1, Invariance, PTL

=============================================================================
