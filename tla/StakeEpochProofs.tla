---------------------------- MODULE StakeEpochProofs ----------------------------
(***************************************************************************)
(* What instructions and epochs do to the status of stake: theorems about  *)
(* the warmup and the cooldown of StakeProgram, and about who may end a    *)
(* delegation, for every value of the constants.                           *)
(*                                                                         *)
(* Instructions never make up epochs: Descends says that a delegation that *)
(* one of them writes is either new or continues one that an account had   *)
(* before.  So what the history holds for the epochs of a delegation       *)
(* (StartCounted, CoolCounted) only has to be shown when an epoch ends.    *)
(***************************************************************************)
EXTENDS StakeReserveProofs

-----------------------------------------------------------------------------
(* What instructions do to delegations.                                    *)

\* Delegated by DelegateStake in this epoch.
Fresh(d) == d.activation_epoch = clock.epoch /\ d.deactivation_epoch = Never

\* The same delegation; or a part of one, or, in force, more than it; or one
\* that is deactivated, or no longer deactivated, in this epoch.
Continues(d, e) ==
    \/ d = e
    \/ /\ d.activation_epoch = e.activation_epoch
       /\ d.deactivation_epoch = Never \/ d.stake <= e.stake
       /\ \/ /\ d.deactivation_epoch = e.deactivation_epoch
             /\ \/ e.deactivation_epoch = Never
                \/ StakeActivatingAndDeactivating(e, history, clock.epoch).effective # 0
          \/ d.deactivation_epoch = clock.epoch /\ e.deactivation_epoch = Never
          \/ d.deactivation_epoch = Never /\ e.deactivation_epoch = clock.epoch

Descends(state) ==
    state.kind = "Stake" =>
        \/ Fresh(state.stake)
        \/ \E b \in Accounts : IsStake(b) /\ Continues(state.stake, data[b].stake)

\* All accounts after a step, as far as Descends tells.
AllDescend == \A c \in Accounts : Descends(data'[c])

\* What is there descends from itself.
LEMMA SameDescends ==
  ASSUME NEW a \in Accounts
  PROVE  Descends(data[a])
BY DEF Descends, Continues, IsStake

\* A step that leaves the data as it is.
LEMMA UnchangedDescend ==
  ASSUME UNCHANGED data
  PROVE  AllDescend
BY SameDescends DEF AllDescend

\* An instruction that writes one account.
LEMMA WriteDescends ==
  ASSUME Inv, NEW a \in Accounts, NEW state, Descends(state), SetState(a, state)
  PROVE  AllDescend
<1>1. \A c \in Accounts : data'[c] = IF c = a THEN state ELSE data[c]
  BY DEF Inv, AccountsOK, SetState
<1>. QED
  BY <1>1, SameDescends DEF AllDescend

\* An instruction that writes two accounts.
LEMMA WritesDescend ==
  ASSUME Inv, NEW a \in Accounts, NEW state, Descends(state),
         NEW b \in Accounts, NEW other, Descends(other),
         SetStates(a, state, b, other)
  PROVE  AllDescend
<1>1. \A c \in Accounts : data'[c] = IF c = b THEN other
                                     ELSE IF c = a THEN state ELSE data[c]
  BY DEF Inv, AccountsOK, SetStates
<1>. QED
  BY <1>1, SameDescends DEF AllDescend

\* Data without a delegation descends from anything.
LEMMA NoStakeDescends ==
  ASSUME NEW meta
  PROVE  /\ Descends(Closed) /\ Descends(NoAccount) /\ Descends(Uninitialized)
         /\ Descends(Initialized(meta))
BY DEF Descends, Closed, NoAccount, Uninitialized, Initialized

\* A new Meta leaves the delegation as it is.
LEMMA MetaWriteDescends ==
  ASSUME Inv, NEW a \in Accounts, HasMeta(data[a]), NEW meta,
         SetState(a, [data[a] EXCEPT !.meta = meta])
  PROVE  AllDescend
<1>. DEFINE state == [data[a] EXCEPT !.meta = meta]
<1>1. data[a] \in AccountData
  BY AccountOK
<1>2. state.kind = data[a].kind /\ (state.kind = "Stake" => state.stake = data[a].stake)
  <2>1. CASE data[a].kind = "Stake"
    BY <1>1, <2>1, StakeData
  <2>2. CASE data[a].kind = "Initialized"
    BY <1>1, <2>2 DEF AccountData, StakeStateV2, Uninitialized, NoAccount, Closed
  <2>. QED
    BY <2>1, <2>2 DEF HasMeta
<1>. HIDE DEF state
<1>3. Descends(state)
  BY <1>2 DEF Descends, Continues, IsStake
<1>. QED
  BY <1>3, WriteDescends DEF state

\* Another amount in the delegation of an account; another end to it.
LEMMA ChangedDescends ==
  ASSUME Inv, NEW a \in Accounts, IsStake(a), NEW amount, NEW end,
         NEW credits
  PROVE  /\ \/ data[a].stake.deactivation_epoch = Never
            \/ Status(a).effective # 0 /\ amount <= data[a].stake.stake
            => /\ Descends([data[a] EXCEPT !.stake.stake = amount])
               /\ \A meta : Descends(Staked(meta,
                               [data[a].stake EXCEPT !.stake = amount]))
         /\ data[a].stake.deactivation_epoch = Never =>
               Descends([data[a] EXCEPT !.stake = Absorb(@, amount, credits)])
         /\ {end, data[a].stake.deactivation_epoch} = {Never, clock.epoch} =>
               Descends([data[a] EXCEPT !.stake.deactivation_epoch = end])
<1>. DEFINE e == data[a].stake
            part == [e EXCEPT !.stake = amount]
            more == Absorb(e, amount, credits)
            ended == [e EXCEPT !.deactivation_epoch = end]
<1>1. /\ e \in Stake
      /\ data[a] = [kind |-> "Stake", meta |-> data[a].meta, stake |-> e]
  BY AccountOK, StakeData DEF IsStake
<1>2. /\ part.activation_epoch = e.activation_epoch
      /\ part.deactivation_epoch = e.deactivation_epoch
      /\ part.stake = amount /\ ended.stake = e.stake
      /\ more.activation_epoch = e.activation_epoch
      /\ more.deactivation_epoch = e.deactivation_epoch
      /\ ended.activation_epoch = e.activation_epoch
      /\ ended.deactivation_epoch = end
  BY <1>1 DEF Absorb, Stake
<1>3. /\ [data[a] EXCEPT !.stake.stake = amount]
           = Staked(data[a].meta, part)
      /\ [data[a] EXCEPT !.stake = Absorb(@, amount, credits)]
           = Staked(data[a].meta, more)
      /\ [data[a] EXCEPT !.stake.deactivation_epoch = end]
           = Staked(data[a].meta, ended)
  <2>1. /\ [data[a] EXCEPT !.stake.stake = amount] = [data[a] EXCEPT !.stake = part]
        /\ [data[a] EXCEPT !.stake = Absorb(@, amount, credits)]
              = [data[a] EXCEPT !.stake = more]
        /\ [data[a] EXCEPT !.stake.deactivation_epoch = end]
              = [data[a] EXCEPT !.stake = ended]
    OBVIOUS
  <2>. HIDE DEF part, more, ended, e
  <2>. QED
    BY <1>1, <2>1 DEF Staked
<1>4. ASSUME NEW meta, NEW d, Continues(d, e)
      PROVE  Descends(Staked(meta, d))
  BY <1>4 DEF Descends, Staked, IsStake
<1>5. /\ \/ e.deactivation_epoch = Never
         \/ Status(a).effective # 0 /\ amount <= e.stake
         => Continues(part, e)
      /\ e.deactivation_epoch = Never => Continues(more, e)
  <2>. HIDE DEF part, more
  <2>. QED
    BY <1>2 DEF Continues, Status
<1>6. {end, e.deactivation_epoch} = {Never, clock.epoch} => Continues(ended, e)
  <2>. HIDE DEF ended
  <2>1. {end, e.deactivation_epoch} = {Never, clock.epoch} =>
           \/ end = Never /\ e.deactivation_epoch = clock.epoch
           \/ end = clock.epoch /\ e.deactivation_epoch = Never
    OBVIOUS
  <2>2. e.stake <= e.stake
    <3>1. e.stake \in Nat
      BY DelegationOK DEF IsDelegation
    <3>. HIDE DEF e
    <3>. QED
      BY <3>1
  <2>. QED
    BY <1>2, <2>1, <2>2 DEF Continues
<1>. HIDE DEF part, more, ended
<1>. QED
  BY <1>3, <1>4, <1>5, <1>6 DEF e, part

\* DelegateStake delegates in this epoch or rescinds a deactivation of this
\* epoch.
LEMMA DelegateDescends ==
  ASSUME Inv, NEW S, NEW a \in Accounts, NEW v, Delegate(S, a, v)
  PROVE  AllDescend
<1>. DEFINE fresh == NewStake(SatSub(lamports[a], rent), v, Credits(v), clock.epoch)
            rescinded == [data[a] EXCEPT !.stake.deactivation_epoch = Never]
<1>1. \/ SetState(a, Staked(data[a].meta, fresh))
      \/ /\ IsStake(a) /\ clock.epoch = data[a].stake.deactivation_epoch
         /\ SetState(a, rescinded)
  BY DEF Delegate, MayRescind
<1>2. Descends(Staked(data[a].meta, fresh))
  BY DEF Descends, Staked, Fresh, NewStake
<1>3. IsStake(a) /\ clock.epoch = data[a].stake.deactivation_epoch =>
        Descends(rescinded)
  BY ChangedDescends
<1>. HIDE DEF fresh, rescinded
<1>. QED
  BY <1>1, <1>2, <1>3, WriteDescends

\* A deactivation ends a delegation in force in this epoch.
LEMMA DeactivateDescends ==
  ASSUME Inv, NEW a \in Accounts, IsStake(a), DoDeactivate(a)
  PROVE  AllDescend
<1>. DEFINE state == [data[a] EXCEPT !.stake.deactivation_epoch = clock.epoch]
<1>1. data[a].stake.deactivation_epoch = Never /\ SetState(a, state)
  BY DEF DoDeactivate
<1>2. Descends(state)
  BY <1>1, ChangedDescends
<1>. HIDE DEF state
<1>. QED
  BY <1>1, <1>2, WriteDescends

\* A split copies a delegation; only what is in force or cools down is divided.
LEMMA SplitDescends ==
  ASSUME Inv, NEW S, NEW from \in Accounts, NEW to \in Accounts, NEW n \in Nat,
         \/ SplitFull(S, from, to, n)
         \/ SplitInactive(S, from, to, n)
         \/ SplitActive(S, from, to, n)
  PROVE  AllDescend
<1>1. CASE SplitFull(S, from, to, n)
  BY <1>1, SameDescends, NoStakeDescends, WritesDescend DEF SplitFull
<1>2. CASE SplitInactive(S, from, to, n)
  BY <1>2, SameDescends, WriteDescends DEF SplitInactive
<1>3. CASE SplitActive(S, from, to, n)
  <2>. DEFINE source == [data[from] EXCEPT !.stake.stake = data[from].stake.stake - n]
              target == [data[from] EXCEPT !.stake.stake = n]
  <2>1. /\ IsStake(from) /\ IsActiveOrActivating(from)
        /\ SetStates(from, source, to, target)
    BY <1>3 DEF SplitActive, IsActiveOrActivating
  <2>2. data[from].stake.deactivation_epoch = Never \/ Status(from).effective # 0
    BY <2>1, StatusOK DEF IsActiveOrActivating
  <2>3. /\ n <= data[from].stake.stake
        /\ data[from].stake.stake - n <= data[from].stake.stake
    BY <1>3, <2>1, StatusOK DEF SplitActive
  <2>4. Descends(source) /\ Descends(target)
    BY <2>1, <2>2, <2>3, ChangedDescends
  <2>. HIDE DEF source, target
  <2>. QED
    BY <2>1, <2>4, WritesDescend
<1>. QED
  BY <1>1, <1>2, <1>3

\* Merge adds to a delegation in force, or leaves it as it is.
LEMMA MergeDescends ==
  ASSUME Inv, NEW S, NEW from \in Accounts, NEW to \in Accounts, Merge(S, to, from)
  PROVE  AllDescend
<1>. DEFINE dk == Kind(to)
            sk == Kind(from)
            held == lamports[from]
            target == Merged(data[to], dk, data[from], sk, held)
<1>1. /\ HasMeta(data[to]) /\ KindsCanMerge(dk, sk)
      /\ SetStates(to, target, from, Closed)
  BY DEF Merge, Mergeable, CanMerge
<1>2. Descends(target)
  <2>1. CASE dk = "Inactive"
    BY <2>1, SameDescends DEF Merged
  <2>2. CASE dk # "Inactive"
    <3>1. IsStake(to) /\ data[to].stake.deactivation_epoch = Never
      BY <1>1, <2>2, KindOK DEF KindsCanMerge
    <3>2. CASE sk = "Inactive"
      <4>1. target = [data[to] EXCEPT !.stake.stake = data[to].stake.stake + held]
        BY <2>2, <3>2 DEF Merged
      <4>. HIDE DEF target, held
      <4>. QED
        BY <3>1, <4>1, ChangedDescends
    <3>3. CASE sk # "Inactive"
      <4>. DEFINE absorbed == Absorbed(data[from], sk, held)
      <4>1. target = [data[to] EXCEPT !.stake =
                        Absorb(@, absorbed, data[from].stake.credits_observed)]
        BY <2>2, <3>3 DEF Merged
      <4>. HIDE DEF target, absorbed
      <4>. QED
        BY <3>1, <4>1, ChangedDescends
    <3>. QED
      BY <3>2, <3>3
  <2>. QED
    BY <2>1, <2>2
<1>. HIDE DEF target
<1>. QED
  BY <1>1, <1>2, NoStakeDescends, WritesDescend

\* MoveStake moves part of a delegation in force, into one that is in force or
\* with the epochs of the source.
LEMMA MoveStakeDescends ==
  ASSUME Inv, NEW S, NEW from \in Accounts, NEW to \in Accounts, NEW n \in Nat,
         MoveStake(S, from, to, n)
  PROVE  AllDescend
<1>. DEFINE source == Remainder(from, n)
            target == Moved(from, to, n)
<1>1. /\ HasMeta(data[from]) /\ HasMeta(data[to]) /\ Kind(from) = "FullyActive"
      /\ SetStates(to, target, from, source)
  BY DEF MoveStake, MoveStakeChecks, MoveChecks, Mergeable
<1>2. IsStake(from) /\ data[from].stake.deactivation_epoch = Never
  BY <1>1, KindOK
<1>3. Descends(source)
  <2>1. CASE data[from].stake.stake = n
    BY <2>1, NoStakeDescends DEF Remainder
  <2>2. CASE data[from].stake.stake # n
    <3>1. source = [data[from] EXCEPT !.stake.stake = data[from].stake.stake - n]
      BY <2>2 DEF Remainder
    <3>. HIDE DEF source
    <3>. QED
      BY <1>2, <3>1, ChangedDescends
  <2>. QED
    BY <2>1, <2>2
<1>4. Descends(target)
  <2>1. CASE Kind(to) = "FullyActive"
    <3>1. IsStake(to) /\ data[to].stake.deactivation_epoch = Never
      BY <1>1, <2>1, KindOK
    <3>2. target = [data[to] EXCEPT !.stake =
                      Absorb(@, n, data[from].stake.credits_observed)]
      BY <2>1 DEF Moved
    <3>. HIDE DEF target
    <3>. QED
      BY <3>1, <3>2, ChangedDescends
  <2>2. CASE Kind(to) # "FullyActive"
    <3>1. target = Staked(data[to].meta, [data[from].stake EXCEPT !.stake = n])
      BY <2>2 DEF Moved
    <3>. HIDE DEF target
    <3>. QED
      BY <1>2, <3>1, ChangedDescends
  <2>. QED
    BY <2>1, <2>2
<1>. HIDE DEF source, target
<1>. QED
  BY <1>1, <1>3, <1>4, WritesDescend

\* So every delegation that an instruction writes descends.
LEMMA ProcessDescends ==
  ASSUME Inv, NEW S, Process(S)
  PROVE  AllDescend
<1>. PICK a \in Accounts :
        \/ Initialize(a)
        \/ InitializeChecked(S, a)
        \/ Authorize(S, a)
        \/ AuthorizeChecked(S, a)
        \/ AuthorizeWithSeed(S, a)
        \/ AuthorizeCheckedWithSeed(S, a)
        \/ SetLockup(S, a)
        \/ SetLockupChecked(S, a)
        \/ \E v \in Voters : Delegate(S, a, v)
        \/ Deactivate(S, a)
        \/ \E delinquent, reference \in Voters :
              DeactivateDelinquent(a, delinquent, reference)
        \/ \E to \in Holders : Withdraw(S, a, to)
        \/ \E to \in Accounts : Merge(S, to, a)
        \/ \E to \in Accounts : \E n \in Amounts \cup {lamports[a]} :
              \/ SplitFull(S, a, to, n)
              \/ SplitInactive(S, a, to, n)
              \/ SplitActive(S, a, to, n)
              \/ MoveStake(S, a, to, n)
              \/ MoveLamports(S, a, to, n)
  BY Zenon DEF Process
<1>1. CASE Initialize(a) \/ InitializeChecked(S, a)
  BY <1>1, NoStakeDescends, WriteDescends
     DEF Initialize, InitializeChecked, DoInitialize
<1>2. ASSUME NEW signers, NEW new, NEW who, NEW custodian,
             DoAuthorize(a, signers, new, who, custodian)
      PROVE  AllDescend
  <2>. DEFINE meta == WithAuthority(data[a].meta, who, new)
  <2>1. HasMeta(data[a]) /\ SetState(a, [data[a] EXCEPT !.meta = meta])
    BY <1>2 DEF DoAuthorize
  <2>. HIDE DEF meta
  <2>. QED
    BY <2>1, MetaWriteDescends
<1>3. CASE \/ Authorize(S, a) \/ AuthorizeChecked(S, a)
           \/ AuthorizeWithSeed(S, a) \/ AuthorizeCheckedWithSeed(S, a)
  BY <1>2, <1>3
     DEF Authorize, AuthorizeChecked, AuthorizeWithSeed, AuthorizeCheckedWithSeed
<1>4. ASSUME NEW args, DoSetLockup(a, S, args)
      PROVE  AllDescend
  <2>. DEFINE meta == WithLockup(data[a].meta, args)
  <2>1. HasMeta(data[a]) /\ SetState(a, [data[a] EXCEPT !.meta = meta])
    BY <1>4 DEF DoSetLockup
  <2>. HIDE DEF meta
  <2>. QED
    BY <2>1, MetaWriteDescends
<1>5. CASE SetLockup(S, a) \/ SetLockupChecked(S, a)
  BY <1>4, <1>5 DEF SetLockup, SetLockupChecked
<1>6. CASE \E v \in Voters : Delegate(S, a, v)
  BY <1>6, DelegateDescends
<1>7. CASE \/ Deactivate(S, a)
           \/ \E delinquent, reference \in Voters :
                 DeactivateDelinquent(a, delinquent, reference)
  BY <1>7, DeactivateDescends DEF Deactivate, DeactivateDelinquent
<1>8. CASE \E to \in Holders : Withdraw(S, a, to)
  BY <1>8, NoStakeDescends, WriteDescends, UnchangedDescend
     DEF Withdraw, WithdrawAll, WithdrawPart
<1>9. CASE \E to \in Accounts : Merge(S, to, a)
  BY <1>9, MergeDescends
<1>10. CASE \E to \in Accounts : \E n \in Amounts \cup {lamports[a]} :
               \/ SplitFull(S, a, to, n)
               \/ SplitInactive(S, a, to, n)
               \/ SplitActive(S, a, to, n)
               \/ MoveStake(S, a, to, n)
               \/ MoveLamports(S, a, to, n)
  <2>1. PICK to \in Accounts, n \in Amounts \cup {lamports[a]} :
               \/ SplitFull(S, a, to, n)
               \/ SplitInactive(S, a, to, n)
               \/ SplitActive(S, a, to, n)
               \/ MoveStake(S, a, to, n)
               \/ MoveLamports(S, a, to, n)
    BY <1>10
  <2>2. n \in Nat
    BY InputsOK, AccountOK
  <2>3. CASE MoveLamports(S, a, to, n)
    BY <2>3, UnchangedDescend DEF MoveLamports
  <2>. QED
    BY <2>1, <2>2, <2>3, SplitDescends, MoveStakeDescends
<1>. QED
  BY <1>1, <1>3, <1>5, <1>6, <1>7, <1>8, <1>9, <1>10

\* No instruction writes a sysvar.
LEMMA ProcessKeepsSysvars ==
  ASSUME NEW S, Process(S)
  PROVE  UNCHANGED sysvars
<1>1. ASSUME NEW a, NEW staker, NEW withdrawer, NEW lockup,
             DoInitialize(a, staker, withdrawer, lockup)
      PROVE  UNCHANGED sysvars
  BY <1>1 DEF DoInitialize
<1>2. ASSUME NEW a, NEW signers, NEW new, NEW who, NEW custodian,
             DoAuthorize(a, signers, new, who, custodian)
      PROVE  UNCHANGED sysvars
  BY <1>2 DEF DoAuthorize
<1>3. ASSUME NEW a, NEW args, DoSetLockup(a, S, args)
      PROVE  UNCHANGED sysvars
  BY <1>3 DEF DoSetLockup
<1>4. ASSUME NEW a, NEW v, Delegate(S, a, v)
      PROVE  UNCHANGED sysvars
  BY <1>4 DEF Delegate
<1>5. ASSUME NEW a, DoDeactivate(a)
      PROVE  UNCHANGED sysvars
  BY <1>5 DEF DoDeactivate
<1>6. ASSUME NEW a, NEW to, Withdraw(S, a, to)
      PROVE  UNCHANGED sysvars
  BY <1>6 DEF Withdraw, WithdrawAll, WithdrawPart
<1>7. ASSUME NEW a, NEW to, NEW n,
             \/ Merge(S, to, a)
             \/ SplitFull(S, a, to, n)
             \/ SplitInactive(S, a, to, n)
             \/ SplitActive(S, a, to, n)
             \/ MoveStake(S, a, to, n)
             \/ MoveLamports(S, a, to, n)
      PROVE  UNCHANGED sysvars
  BY <1>7 DEF Merge, SplitFull, SplitInactive, SplitActive, MoveStake, MoveLamports
<1>. PICK a \in Accounts :
        \/ Initialize(a) \/ InitializeChecked(S, a)
        \/ Authorize(S, a) \/ AuthorizeChecked(S, a)
        \/ AuthorizeWithSeed(S, a) \/ AuthorizeCheckedWithSeed(S, a)
        \/ SetLockup(S, a) \/ SetLockupChecked(S, a)
        \/ \E v : Delegate(S, a, v)
        \/ DoDeactivate(a)
        \/ \E to : Withdraw(S, a, to)
        \/ \E to, n : \/ Merge(S, to, a)
                      \/ SplitFull(S, a, to, n)
                      \/ SplitInactive(S, a, to, n)
                      \/ SplitActive(S, a, to, n)
                      \/ MoveStake(S, a, to, n)
                      \/ MoveLamports(S, a, to, n)
  BY Zenon DEF Process, Deactivate, DeactivateDelinquent
<1>8. CASE Initialize(a) \/ InitializeChecked(S, a)
  BY <1>1, <1>8 DEF Initialize, InitializeChecked
<1>9. CASE \/ Authorize(S, a) \/ AuthorizeChecked(S, a)
           \/ AuthorizeWithSeed(S, a) \/ AuthorizeCheckedWithSeed(S, a)
  BY <1>2, <1>9
     DEF Authorize, AuthorizeChecked, AuthorizeWithSeed, AuthorizeCheckedWithSeed
<1>10. CASE SetLockup(S, a) \/ SetLockupChecked(S, a)
  BY <1>3, <1>10 DEF SetLockup, SetLockupChecked
<1>. QED
  BY <1>4, <1>5, <1>6, <1>7, <1>8, <1>9, <1>10

\* Only the end of an epoch changes the epoch and the history; all other steps
\* write delegations that descend.
LEMMA StepDescends ==
  ASSUME Inv, [Next]_vars, ~AdvanceEpoch
  PROVE  /\ clock'.epoch = clock.epoch /\ history' = history
         /\ AllDescend
<1>1. ASSUME NEW S \in SignerSets, Process(S)
      PROVE  AllDescend /\ UNCHANGED sysvars
  <2>1. AllDescend
    BY <1>1, ProcessDescends
  <2>2. UNCHANGED sysvars
    BY <1>1, ProcessKeepsSysvars
  <2>. QED
    BY <2>1, <2>2
<1>2. ASSUME NEW a \in Accounts, CreateAccount(a) \/ Reap(a)
      PROVE  AllDescend /\ UNCHANGED sysvars
  BY <1>2, NoStakeDescends, WriteDescends DEF CreateAccount, Reap
<1>3. ASSUME NEW a \in Accounts, NEW n \in Amounts, Deposit(a, n)
      PROVE  AllDescend /\ UNCHANGED sysvars
  BY <1>3, UnchangedDescend DEF Deposit
<1>4. CASE \/ EndRewards \/ AdvanceTime \/ ChangeRent
           \/ \E v \in Voters : Vote(v)
           \/ UNCHANGED vars
  <2>1. UNCHANGED <<data, history>>
    BY <1>4 DEF EndRewards, AdvanceTime, ChangeRent, Vote, vars
  <2>2. clock'.epoch = clock.epoch
    BY <1>4 DEF Inv, SysvarsOK, Clock, EndRewards, AdvanceTime, ChangeRent, Vote, vars
  <2>. QED
    BY <2>1, <2>2, UnchangedDescend
<1>5. \/ AllDescend /\ UNCHANGED sysvars
      \/ AllDescend /\ clock'.epoch = clock.epoch /\ history' = history
  <2>1. CASE Next
    BY <2>1, <1>1, <1>2, <1>3, <1>4, UnchangedDescend DEF Next, Runtime
  <2>2. CASE UNCHANGED vars
    BY <2>2, UnchangedDescend DEF vars, sysvars
  <2>. QED
    BY <2>1, <2>2
<1>. QED
  BY <1>5 DEF sysvars

-----------------------------------------------------------------------------
(* What the history holds of an account.                                   *)

\* An epoch counts what every account has activating and deactivating in it.
LEMMA EpochIsCounted ==
  ASSUME Inv, AdvanceEpoch, NEW a \in Accounts, IsStake(a)
  PROVE  /\ Status(a).activating # 0 => history'[clock.epoch].activating # 0
         /\ Status(a).deactivating # 0 => history'[clock.epoch].deactivating # 0
<1>. DEFINE total(background) ==
              [effective    |-> ClusterTotal("effective", background),
               activating   |-> ClusterTotal("activating", background),
               deactivating |-> ClusterTotal("deactivating", background)]
<1>1. PICK background \in Background :
         history' = [e \in 0..clock.epoch |->
                       IF e < clock.epoch THEN history[e] ELSE total(background)]
  BY DEF AdvanceEpoch
<1>2. clock.epoch \in Nat
  BY HistoryExtended
<1>3. history'[clock.epoch] = total(background)
  BY <1>1, <1>2
<1>4. /\ Status(a).activating \in Nat /\ Status(a).deactivating \in Nat
  BY StatusOK
<1>5. background \in Entry
  BY ProgramConstants
<1>6. /\ ClusterTotal("activating", background) \in Nat
      /\ Status(a)["activating"] <= ClusterTotal("activating", background)
      /\ ClusterTotal("deactivating", background) \in Nat
      /\ Status(a)["deactivating"] <= ClusterTotal("deactivating", background)
  BY <1>5, ClusterTotalOK
<1>. QED
  BY <1>3, <1>4, <1>6

(***************************************************************************)
(* Some stake was activating in the epoch in which the delegation of an    *)
(* account began, if it was still there when that epoch ended.             *)
(***************************************************************************)
StartCounted ==
    \A a \in StakeAccounts :
        LET d == data[a].stake
        IN  d.activation_epoch < clock.epoch
              /\ d.deactivation_epoch # d.activation_epoch =>
            history[d.activation_epoch].activating # 0

(***************************************************************************)
(* Some stake was deactivating in every epoch since the deactivation of an *)
(* account, as long as it has stake left that cools down.                  *)
(***************************************************************************)
CoolCounted ==
    \A a \in StakeAccounts :
        LET d == data[a].stake
        IN  d.deactivation_epoch # Never =>
              \/ Status(a).effective = 0
              \/ \A e \in d.deactivation_epoch..(clock.epoch - 1) :
                    history[e].deactivating # 0

\* The account is counted itself in the epoch in which it is delegated.
LEMMA StartCountedKept ==
  ASSUME Inv, StartCounted, [Next]_vars
  PROVE  StartCounted'
<1>1. CASE AdvanceEpoch
  <2>. SUFFICES ASSUME NEW a \in Accounts, IsStake(a),
                       data[a].stake.activation_epoch < clock'.epoch,
                       data[a].stake.deactivation_epoch
                         # data[a].stake.activation_epoch
                PROVE  history'[data[a].stake.activation_epoch].activating # 0
    BY <1>1 DEF AdvanceEpoch, StartCounted, StakeAccounts, IsStake
  <2>. DEFINE d == data[a].stake
  <2>1. /\ clock'.epoch = clock.epoch + 1 /\ clock.epoch \in Nat
        /\ clock.epoch < Never
        /\ IsHistory(history) /\ Extends(history', history, clock.epoch)
    BY <1>1, HistoryExtended, DelegationOK
  <2>2. /\ IsDelegation(d) /\ d.activation_epoch \in Nat
        /\ d.deactivation_epoch \in {Never} \cup d.activation_epoch..clock.epoch
    BY DelegationOK DEF IsDelegation
  <2>3. CASE d.activation_epoch < clock.epoch
    <3>1. history[d.activation_epoch].activating # 0
      BY <2>3 DEF StartCounted, StakeAccounts
    <3>2. history'[d.activation_epoch] = history[d.activation_epoch]
      <4>1. d.activation_epoch \in 0..(clock.epoch - 1)
        BY <2>1, <2>2, <2>3
      <4>. HIDE DEF d
      <4>. QED
        BY <2>1, <4>1 DEF Extends
    <3>. QED
      BY <3>1, <3>2
  <2>4. CASE d.activation_epoch = clock.epoch
    <3>1. d.deactivation_epoch = Never
      BY <2>1, <2>2, <2>4
    <3>2. Status(a).activating = d.stake
      <4>1. Status(a) = StakeActivatingAndDeactivating(d, history, clock.epoch)
        BY DEF Status
      <4>. HIDE DEF d
      <4>. QED
        BY <2>1, <2>2, <2>4, <3>1, <4>1, FreshActivates
    <3>3. Status(a).activating # 0
      BY <3>2, StatusOK
    <3>4. history'[clock.epoch].activating # 0
      BY <1>1, <3>3, EpochIsCounted
    <3>. QED
      BY <2>4, <3>4
  <2>5. d.activation_epoch < clock.epoch \/ d.activation_epoch = clock.epoch
    <3>1. d.activation_epoch < clock.epoch + 1
      BY <2>1
    <3>. HIDE DEF d
    <3>. QED
      BY <2>1, <2>2, <3>1
  <2>. QED
    BY <2>3, <2>4, <2>5
<1>2. CASE ~AdvanceEpoch
  <2>1. clock'.epoch = clock.epoch /\ history' = history /\ AllDescend
    BY <1>2, StepDescends
  <2>. SUFFICES ASSUME NEW a \in Accounts, data'[a].kind = "Stake",
                       data'[a].stake.activation_epoch < clock.epoch,
                       data'[a].stake.deactivation_epoch
                         # data'[a].stake.activation_epoch
                PROVE  history[data'[a].stake.activation_epoch].activating # 0
    BY <2>1 DEF StartCounted, StakeAccounts, IsStake
  <2>. DEFINE d == data'[a].stake
  <2>2. clock.epoch \in Nat
    BY DEF Inv, SysvarsOK, Clock
  <2>3. PICK b \in Accounts : IsStake(b) /\ Continues(d, data[b].stake)
    <3>1. ~Fresh(d)
      BY <2>2 DEF Fresh
    <3>. QED
      BY <2>1, <3>1 DEF AllDescend, Descends
  <2>. DEFINE e == data[b].stake
  <2>4. /\ e.activation_epoch \in Nat /\ e.activation_epoch <= clock.epoch
        /\ clock.epoch < Never /\ Never \in Nat
    BY <2>3, DelegationOK, NumbersOK DEF IsDelegation, Never
  <2>5. /\ e.activation_epoch = d.activation_epoch
        /\ e.deactivation_epoch \in {d.deactivation_epoch, Never, clock.epoch}
    BY <2>3 DEF Continues
  <2>6. d.activation_epoch < clock.epoch /\ d.deactivation_epoch # d.activation_epoch
    OBVIOUS
  <2>. HIDE DEF d
  <2>7. e.deactivation_epoch # e.activation_epoch
    <3>. HIDE DEF e
    <3>. QED
      BY <2>2, <2>4, <2>5, <2>6
  <2>8. history[e.activation_epoch].activating # 0
    BY <2>3, <2>5, <2>6, <2>7 DEF StartCounted, StakeAccounts
  <2>. QED
    BY <2>5, <2>8 DEF d
<1>. QED
  BY <1>1, <1>2

\* The account is counted itself in every epoch it cools down in.
LEMMA CoolCountedKept ==
  ASSUME Inv, CoolCounted, WarmedUpInTime, [Next]_vars
  PROVE  CoolCounted'
<1>1. CASE AdvanceEpoch
  <2>. SUFFICES ASSUME NEW a \in Accounts, IsStake(a),
                       data[a].stake.deactivation_epoch # Never,
                       StakeActivatingAndDeactivating(data[a].stake, history',
                                                      clock'.epoch).effective # 0,
                       NEW e \in data[a].stake.deactivation_epoch..(clock'.epoch - 1)
                PROVE  history'[e].deactivating # 0
    BY <1>1 DEF AdvanceEpoch, CoolCounted, StakeAccounts, IsStake, Status
  <2>. DEFINE d == data[a].stake
              new == StakeActivatingAndDeactivating(d, history', clock'.epoch).effective
  <2>1. /\ clock'.epoch = clock.epoch + 1 /\ clock.epoch \in Nat
        /\ IsHistory(history')
        /\ Extends(history', history, clock.epoch)
    BY <1>1, HistoryExtended
  <2>2. IsDelegation(d) /\ d.deactivation_epoch \in Nat
    BY DelegationOK DEF IsDelegation
  <2>3. new \in Nat
    <3>1. new \in 0..d.stake
      BY <2>1, <2>2, StatusBounded
    <3>. QED
      BY <3>1
  <2>4. new # 0 /\ new <= Status(a).effective
    BY <1>1, StatusInTheNextEpoch
  <2>5. /\ Status(a).effective \in Nat
        /\ Status(a).deactivating = Status(a).effective
    BY StatusOK
  <2>. HIDE DEF new
  <2>6. Status(a).effective # 0
    BY <2>3, <2>4, <2>5
  <2>7. CASE e = clock.epoch
    BY <1>1, <2>5, <2>6, <2>7, EpochIsCounted
  <2>8. CASE e # clock.epoch
    <3>1. e \in 0..(clock.epoch - 1) /\ e \in d.deactivation_epoch..(clock.epoch - 1)
      BY <2>1, <2>2, <2>8
    <3>2. history[e].deactivating # 0
      BY <2>6, <3>1 DEF CoolCounted, StakeAccounts
    <3>3. history'[e] = history[e]
      BY <2>1, <3>1 DEF Extends
    <3>. QED
      BY <3>2, <3>3
  <2>. QED
    BY <2>7, <2>8
<1>2. CASE ~AdvanceEpoch
  <2>1. clock'.epoch = clock.epoch /\ history' = history /\ AllDescend
    BY <1>2, StepDescends
  <2>. SUFFICES ASSUME NEW a \in Accounts, data'[a].kind = "Stake",
                       data'[a].stake.deactivation_epoch # Never,
                       StakeActivatingAndDeactivating(data'[a].stake, history,
                                                      clock.epoch).effective # 0,
                       NEW past \in data'[a].stake.deactivation_epoch
                                      ..(clock.epoch - 1)
                PROVE  history[past].deactivating # 0
    BY <2>1 DEF CoolCounted, StakeAccounts, IsStake, Status
  <2>. DEFINE d == data'[a].stake
  <2>2. clock.epoch \in Nat
    BY DEF Inv, SysvarsOK, Clock
  <2>3. d.deactivation_epoch # clock.epoch
    BY <2>2
  <2>4. PICK b \in Accounts : IsStake(b) /\ Continues(d, data[b].stake)
    <3>1. ~Fresh(d)
      BY DEF Fresh
    <3>. QED
      BY <2>1, <3>1 DEF AllDescend, Descends
  <2>5. /\ data[b].stake.deactivation_epoch = d.deactivation_epoch
        /\ Status(b).effective # 0
    BY <2>3, <2>4 DEF Continues, Status
  <2>. QED
    BY <2>4, <2>5 DEF CoolCounted, StakeAccounts
<1>. QED
  BY <1>1, <1>2

-----------------------------------------------------------------------------
(* What follows for accounts.                                              *)

(***************************************************************************)
(* Stake that Merge takes for stake of its activation epoch was delegated  *)
(* in this epoch: stake that began to warm up in an earlier one has some   *)
(* of it effective by now, however small its share of the cluster's.  So   *)
(* all lamports of the source may be added to it.                          *)
(***************************************************************************)
THEOREM ActivationEpochKept == Spec => []ActivationEpochIsNow
<1>1. Init => StartCounted
  BY DEF Init, StartCounted, StakeAccounts, IsStake, NoAccount
<1>2. Inv /\ StartCounted /\ [Next]_vars => StartCounted'
  BY StartCountedKept
<1>3. ASSUME Inv, StartCounted
      PROVE  ActivationEpochIsNow
  <2>. SUFFICES ASSUME NEW a \in Accounts, IsStake(a), Kind(a) = "ActivationEpoch",
                       data[a].stake.activation_epoch # clock.epoch
                PROVE  FALSE
    BY DEF ActivationEpochIsNow, StakeAccounts
  <2>. DEFINE d == data[a].stake
  <2>1. d.deactivation_epoch = Never
    BY <1>3, KindOK DEF HasMeta, IsStake
  <2>2. /\ IsDelegation(d) /\ d.activation_epoch \in Nat
        /\ clock.epoch \in Nat /\ clock.epoch < Never
        /\ IsHistory(history)
        /\ d.activation_epoch <= clock.epoch
    BY <1>3, DelegationOK DEF IsDelegation
  <2>3. d.stake # 0
    BY <1>3, StatusOK
  <2>4. DOMAIN history = 0..(clock.epoch - 1)
    BY <1>3 DEF Inv, SysvarsOK
  <2>5. StakeActivatingAndDeactivating(d, history, clock.epoch).effective = 0
    BY DEF Kind, MergeKind, IsStake
  <2>6. d.activation_epoch # clock.epoch
    OBVIOUS
  <2>7. d.activation_epoch < clock.epoch /\ d.deactivation_epoch # d.activation_epoch
    <3>1. Never \in Nat
      BY NumbersOK DEF Never
    <3>. HIDE DEF d
    <3>. QED
      BY <2>1, <2>2, <2>6, <3>1
  <2>8. history[d.activation_epoch].activating # 0
    BY <1>3, <2>7 DEF StartCounted, StakeAccounts
  <2>. HIDE DEF d
  <2>. QED
    BY <2>1, <2>2, <2>3, <2>4, <2>5, <2>7, <2>8, StartedIsEffective
<1>4. Inv /\ StartCounted => ActivationEpochIsNow
  BY <1>3
<1>. QED
  BY <1>1, <1>2, <1>4, Invariance, PTL DEF Spec

(***************************************************************************)
(* Deactivated stake loses at least a lamport in each epoch, in whatever   *)
(* company it cools down and however it was split meanwhile.  Stake        *)
(* deactivated while it warmed up is assumed to be gone in time.           *)
(***************************************************************************)
THEOREM CooldownKeepsOn == Spec /\ []WarmedUpInTime => []CooldownProgresses
<1>1. Init => CoolCounted
  BY DEF Init, CoolCounted, StakeAccounts, IsStake, NoAccount
<1>2. Inv /\ CoolCounted /\ WarmedUpInTime /\ [Next]_vars => CoolCounted'
  BY CoolCountedKept
<1>3. ASSUME Inv, CoolCounted
      PROVE  CooldownProgresses
  <2>. SUFFICES ASSUME NEW a \in Accounts, IsStake(a),
                       data[a].stake.deactivation_epoch < clock.epoch
                PROVE  Status(a).effective
                         <= SatSub(data[a].stake.stake,
                                   clock.epoch - data[a].stake.deactivation_epoch)
    BY DEF CooldownProgresses, StakeAccounts
  <2>. DEFINE d == data[a].stake
              left == SatSub(d.stake, clock.epoch - d.deactivation_epoch)
  <2>1. /\ IsDelegation(d) /\ d.deactivation_epoch \in Nat /\ d.stake \in Nat
        /\ clock.epoch \in Nat /\ clock.epoch < Never
        /\ IsHistory(history)
    BY <1>3, DelegationOK DEF IsDelegation
  <2>2. DOMAIN history = 0..(clock.epoch - 1)
    BY <1>3 DEF Inv, SysvarsOK
  <2>3. left \in Nat
    BY <2>1 DEF SatSub
  <2>4. d.deactivation_epoch # Never
    <3>1. d.deactivation_epoch < clock.epoch /\ Never \in Nat
      BY NumbersOK DEF Never
    <3>. HIDE DEF d
    <3>. QED
      BY <2>1, <3>1
  <2>5. CASE Status(a).effective = 0
    <3>. HIDE DEF left
    <3>1. Status(a).effective <= left
      BY <2>3, <2>5
    <3>. QED
      BY <3>1 DEF left
  <2>6. CASE \A e \in d.deactivation_epoch..(clock.epoch - 1) :
                history[e].deactivating # 0
    <3>1. StakeActivatingAndDeactivating(d, history, clock.epoch).effective <= left
      <4>1. d.deactivation_epoch < clock.epoch
        OBVIOUS
      <4>. HIDE DEF d
      <4>. QED
        BY <2>1, <2>2, <2>6, <4>1, CooledByTheEpoch DEF left
    <3>. QED
      BY <3>1 DEF Status
  <2>. QED
    BY <1>3, <2>4, <2>5, <2>6 DEF CoolCounted, StakeAccounts
<1>4. Inv /\ CoolCounted => CooldownProgresses
  BY <1>3
<1>. QED
  BY <1>1, <1>2, <1>4, Invariance, PTL DEF Spec

(***************************************************************************)
(* At the end of an epoch no account in force loses effective stake and no *)
(* deactivated one gains any, whatever was split off it or merged into it  *)
(* since the epochs that its status is computed from.  Stake deactivated   *)
(* while it warmed up is assumed to be gone in time.                       *)
(***************************************************************************)
THEOREM EpochsAreMonotone ==
  Spec /\ []WarmedUpInTime => WarmupAndCooldownMonotone
<1>. DEFINE Monotone ==
              clock'.epoch = clock.epoch + 1 =>
                \A a \in StakeAccounts :
                   IF data[a].stake.deactivation_epoch = Never
                   THEN Status(a)'.effective >= Status(a).effective
                   ELSE Status(a)'.effective <= Status(a).effective
<1>1. ASSUME Inv, WarmedUpInTime, [Next]_vars
      PROVE  Monotone
  <2>1. CASE AdvanceEpoch
    <3>1. ASSUME NEW a \in Accounts
          PROVE  Status(a)' = StakeActivatingAndDeactivating(data[a].stake, history',
                                                             clock'.epoch)
      BY <2>1 DEF AdvanceEpoch, Status
    <3>. QED
      BY <1>1, <2>1, <3>1, StatusInTheNextEpoch DEF StakeAccounts
  <2>2. CASE ~AdvanceEpoch
    <3>1. clock'.epoch = clock.epoch /\ clock.epoch \in Nat
      BY <1>1, <2>2, StepDescends DEF Inv, SysvarsOK, Clock
    <3>. QED
      BY <3>1
  <2>. QED
    BY <2>1, <2>2
<1>2. Inv /\ WarmedUpInTime /\ [Next]_vars => [Monotone]_vars
  BY <1>1
<1>3. WarmupAndCooldownMonotone <=> [][Monotone]_vars
  BY DEF WarmupAndCooldownMonotone
<1>. HIDE DEF Monotone
<1>. QED
  BY <1>2, <1>3, Invariance, PTL DEF Spec

-----------------------------------------------------------------------------
(* Who may end a delegation.                                               *)

\* The records of every vote account are in order: none is later than the
\* last one.
RecordsSorted ==
    \A v \in Voters :
        LET voted == epoch_credits[v]
        IN  \A i \in DOMAIN voted : voted[i] <= voted[Len(voted)]

\* A vote is recorded at the end, and is not earlier than the last one.
LEMMA RecordsSortedKept ==
  ASSUME Inv, RecordsSorted, [Next]_vars
  PROVE  RecordsSorted'
<1>1. ASSUME NEW v \in Voters, Vote(v)
      PROVE  RecordsSorted'
  <2>. DEFINE voted == epoch_credits[v]
              more == Append(voted, clock.epoch)
  <2>1. /\ voted \in Seq(Nat) /\ clock.epoch \in Nat
        /\ epoch_credits' = [epoch_credits EXCEPT ![v] = more]
        /\ epoch_credits \in [Voters -> Seq(Nat)]
        /\ voted # << >> => voted[Len(voted)] <= clock.epoch
        /\ \A i \in DOMAIN voted : voted[i] <= voted[Len(voted)]
    BY <1>1 DEF Vote, Inv, SysvarsOK, Clock, VotesInOrder, RecordsSorted
  <2>2. /\ Len(voted) \in Nat /\ DOMAIN voted = 1..Len(voted)
        /\ Len(more) = Len(voted) + 1 /\ DOMAIN more = 1..(Len(voted) + 1)
        /\ more[Len(voted) + 1] = clock.epoch
        /\ \A i \in 1..Len(voted) : more[i] = voted[i] /\ voted[i] \in Nat
        /\ voted = << >> => Len(voted) = 0
    BY <2>1
  <2>3. \A i \in DOMAIN more : more[i] <= more[Len(more)]
    <3>. SUFFICES ASSUME NEW i \in DOMAIN more
                  PROVE  more[i] <= clock.epoch
      BY <2>2
    <3>. HIDE DEF voted, more
    <3>1. CASE i = Len(voted) + 1
      BY <2>1, <2>2, <3>1
    <3>2. CASE i # Len(voted) + 1
      <4>1. i \in 1..Len(voted) /\ Len(voted) \in 1..Len(voted) /\ voted # << >>
        BY <2>2, <3>2
      <4>2. more[i] = voted[i] /\ voted[i] \in Nat /\ voted[Len(voted)] \in Nat
        BY <2>2, <4>1
      <4>3. voted[i] <= voted[Len(voted)] /\ voted[Len(voted)] <= clock.epoch
        BY <2>1, <2>2, <4>1
      <4>. QED
        BY <2>1, <4>2, <4>3
    <3>. QED
      BY <3>1, <3>2
  <2>4. \A u \in Voters : epoch_credits'[u] = IF u = v THEN more ELSE epoch_credits[u]
    BY <2>1
  <2>. HIDE DEF more
  <2>. QED
    BY <2>3, <2>4 DEF RecordsSorted
<1>2. CASE UNCHANGED epoch_credits
  BY <1>2 DEF RecordsSorted
<1>3. ASSUME NEW S \in SignerSets, Process(S)
      PROVE  UNCHANGED epoch_credits
  BY <1>3, ProcessKeepsSysvars DEF sysvars
<1>4. UNCHANGED epoch_credits \/ \E v \in Voters : Vote(v)
  <2>1. CASE Runtime
    BY <2>1 DEF Runtime, CreateAccount, Deposit, Reap, AdvanceEpoch, EndRewards,
                AdvanceTime, ChangeRent, sysvars
  <2>2. CASE UNCHANGED vars
    BY <2>2 DEF vars
  <2>. QED
    BY <1>3, <2>1, <2>2 DEF Next
<1>. QED
  BY <1>1, <1>2, <1>4

\* An acceptable reference voted in each of the recent epochs.
LEMMA ReferenceVoted ==
  ASSUME Inv, NEW v \in Voters,
         AcceptableReferenceEpochCredits(epoch_credits[v], clock.epoch)
  PROVE  RecentEpochs \subseteq VotedIn(v)
<1>. DEFINE voted == epoch_credits[v]
            now == clock.epoch
            few == MinimumDelinquentEpochs
<1>1. /\ voted \in Seq(Nat) /\ now \in Nat /\ few \in Nat
  BY DelinquencyConstants DEF Inv, SysvarsOK, Clock
<1>2. /\ Len(voted) >= few
      /\ \A back \in 0..(few - 1) :
            voted[Len(voted) - back] = IF back <= now THEN now - back ELSE 0
  BY DEF AcceptableReferenceEpochCredits
<1>3. Len(voted) \in Nat /\ DOMAIN voted = 1..Len(voted)
  BY <1>1
<1>. SUFFICES ASSUME NEW e \in 0..now, e > now - few
              PROVE  \E i \in DOMAIN voted : voted[i] = e
  BY DEF RecentEpochs, VotedIn
<1>. HIDE DEF voted, now, few
<1>4. now - e \in 0..(few - 1) /\ now - e <= now /\ now - (now - e) = e
  BY <1>1
<1>5. voted[Len(voted) - (now - e)] = e
  BY <1>2, <1>4
<1>6. Len(voted) - (now - e) \in DOMAIN voted
  BY <1>1, <1>2, <1>3, <1>4
<1>. QED
  BY <1>5, <1>6

\* A delinquent voted in none of them.
LEMMA DelinquentDidNotVote ==
  ASSUME Inv, RecordsSorted, NEW v \in Voters,
         EligibleForDeactivateDelinquent(epoch_credits[v], clock.epoch)
  PROVE  VotedIn(v) \cap RecentEpochs = {}
<1>. DEFINE voted == epoch_credits[v]
            now == clock.epoch
            few == MinimumDelinquentEpochs
<1>1. /\ voted \in Seq(Nat) /\ now \in Nat /\ few \in Nat
      /\ \A i \in DOMAIN voted : voted[i] <= voted[Len(voted)]
  BY DelinquencyConstants DEF Inv, SysvarsOK, Clock, RecordsSorted
<1>2. voted # << >> => voted[Len(voted)] <= now - few
  BY DEF EligibleForDeactivateDelinquent
<1>3. \A i \in DOMAIN voted : voted[i] \in Nat /\ voted # << >>
                              /\ voted[Len(voted)] \in Nat
  BY <1>1
<1>. SUFFICES ASSUME NEW i \in DOMAIN voted, voted[i] > now - few
              PROVE  FALSE
  BY DEF RecentEpochs, VotedIn
<1>. HIDE DEF voted, now, few
<1>4. voted[i] <= voted[Len(voted)] /\ voted[Len(voted)] <= now - few
      /\ voted[i] \in Nat /\ voted[Len(voted)] \in Nat
  BY <1>1, <1>2, <1>3
<1>. QED
  BY <1>1, <1>4

(***************************************************************************)
(* A delegation in force is ended by the instructions for it only: no      *)
(* split, merge or move leaves a deactivated delegation in an account that *)
(* had one in force.                                                       *)
(***************************************************************************)
LEMMA OnlyDeactivationEnds ==
  ASSUME Inv, NEW S, Process(S), NEW a \in Accounts, IsStake(a),
         data[a].stake.deactivation_epoch = Never,
         data'[a].kind = "Stake", data'[a].stake.deactivation_epoch # Never
  PROVE  \/ Deactivate(S, a)
         \/ \E delinquent, reference \in Voters :
               DeactivateDelinquent(a, delinquent, reference)
<1>. DEFINE InForce(state) ==
              state.kind = "Stake" => state.stake.deactivation_epoch = Never
<1>0. /\ data[a] \in AccountData
      /\ data[a] = [kind |-> "Stake", meta |-> data[a].meta, stake |-> data[a].stake]
      /\ data[a].stake \in Stake
      /\ data[a] # Uninitialized
  BY AccountOK, StakeData DEF IsStake, Uninitialized
<1>1. ~InForce(data'[a])
  OBVIOUS
<1>2. ASSUME NEW b \in Accounts, NEW state, SetState(b, state),
             a = b => InForce(state)
      PROVE  FALSE
  <2>1. data'[a] = IF a = b THEN state ELSE data[a]
    BY <1>2 DEF SetState, Inv, AccountsOK
  <2>. QED
    BY <1>2, <2>1
<1>3. ASSUME NEW b \in Accounts, NEW state, NEW c \in Accounts, NEW other,
             SetStates(b, state, c, other), b # c,
             a = b => InForce(state), a = c => InForce(other)
      PROVE  FALSE
  <2>1. data'[a] = IF a = c THEN other ELSE IF a = b THEN state ELSE data[a]
    BY <1>3 DEF SetStates, Inv, AccountsOK
  <2>. QED
    BY <1>3, <2>1
<1>4. InForce(Closed) /\ \A meta : InForce(Initialized(meta))
  BY DEF Closed, Initialized
<1>5. UNCHANGED data => FALSE
  OBVIOUS
<1>6. \A meta : InForce([data[a] EXCEPT !.meta = meta])
  BY <1>0
<1>7. \A amount, credits :
         /\ InForce([data[a] EXCEPT !.stake.stake = amount])
         /\ InForce([data[a] EXCEPT !.stake = Absorb(@, amount, credits)])
  BY <1>0 DEF Absorb, Stake
<1>. HIDE DEF InForce
<1>. PICK b \in Accounts :
        \/ Initialize(b)
        \/ InitializeChecked(S, b)
        \/ Authorize(S, b)
        \/ AuthorizeChecked(S, b)
        \/ AuthorizeWithSeed(S, b)
        \/ AuthorizeCheckedWithSeed(S, b)
        \/ SetLockup(S, b)
        \/ SetLockupChecked(S, b)
        \/ \E v \in Voters : Delegate(S, b, v)
        \/ Deactivate(S, b)
        \/ \E delinquent, reference \in Voters :
              DeactivateDelinquent(b, delinquent, reference)
        \/ \E to \in Holders : Withdraw(S, b, to)
        \/ \E to \in Accounts : Merge(S, to, b)
        \/ \E to \in Accounts : \E n \in Amounts \cup {lamports[b]} :
              \/ SplitFull(S, b, to, n)
              \/ SplitInactive(S, b, to, n)
              \/ SplitActive(S, b, to, n)
              \/ MoveStake(S, b, to, n)
              \/ MoveLamports(S, b, to, n)
  BY Zenon DEF Process
<1>8. ~(Initialize(b) \/ InitializeChecked(S, b))
  BY <1>2, <1>4 DEF Initialize, InitializeChecked, DoInitialize
<1>9. ASSUME NEW signers, NEW new, NEW who, NEW custodian,
             DoAuthorize(b, signers, new, who, custodian)
      PROVE  FALSE
  <2>. DEFINE meta == WithAuthority(data[b].meta, who, new)
  <2>1. SetState(b, [data[b] EXCEPT !.meta = meta])
    BY <1>9 DEF DoAuthorize
  <2>. HIDE DEF meta
  <2>. QED
    BY <1>2, <1>6, <2>1
<1>10. ~(\/ Authorize(S, b) \/ AuthorizeChecked(S, b)
         \/ AuthorizeWithSeed(S, b) \/ AuthorizeCheckedWithSeed(S, b))
  BY <1>9
     DEF Authorize, AuthorizeChecked, AuthorizeWithSeed, AuthorizeCheckedWithSeed
<1>11. ASSUME NEW args, DoSetLockup(b, S, args)
       PROVE  FALSE
  <2>. DEFINE meta == WithLockup(data[b].meta, args)
  <2>1. SetState(b, [data[b] EXCEPT !.meta = meta])
    BY <1>11 DEF DoSetLockup
  <2>. HIDE DEF meta
  <2>. QED
    BY <1>2, <1>6, <2>1
<1>12. ~(SetLockup(S, b) \/ SetLockupChecked(S, b))
  BY <1>11 DEF SetLockup, SetLockupChecked
<1>13. ASSUME NEW v, Delegate(S, b, v)
       PROVE  FALSE
  <2>. DEFINE fresh == NewStake(SatSub(lamports[b], rent), v, Credits(v), clock.epoch)
              rescinded == [data[b] EXCEPT !.stake.deactivation_epoch = Never]
  <2>1. \/ SetState(b, Staked(data[b].meta, fresh))
        \/ SetState(b, rescinded)
    BY <1>13 DEF Delegate
  <2>2. InForce(Staked(data[b].meta, fresh))
    BY DEF InForce, Staked, NewStake
  <2>3. a = b => InForce(rescinded)
    BY <1>0 DEF InForce, Stake
  <2>. HIDE DEF fresh, rescinded
  <2>. QED
    BY <1>2, <2>1, <2>2, <2>3
<1>14. CASE \/ Deactivate(S, b)
            \/ \E delinquent, reference \in Voters :
                  DeactivateDelinquent(b, delinquent, reference)
  <2>1. SetState(b, [data[b] EXCEPT !.stake.deactivation_epoch = clock.epoch])
    BY <1>14 DEF Deactivate, DeactivateDelinquent, DoDeactivate
  <2>2. a = b
    BY <1>2, <2>1
  <2>. QED
    BY <1>14, <2>2
<1>15. ASSUME NEW to, Withdraw(S, b, to)
       PROVE  FALSE
  BY <1>2, <1>4, <1>5, <1>15 DEF Withdraw, WithdrawAll, WithdrawPart
<1>16. ASSUME NEW to \in Accounts, Merge(S, to, b)
       PROVE  FALSE
  <2>. DEFINE target == Merged(data[to], Kind(to), data[b], Kind(b), lamports[b])
  <2>1. to # b /\ SetStates(to, target, b, Closed)
    BY <1>16 DEF Merge
  <2>2. a = to => InForce(target)
    <3>. SUFFICES ASSUME a = to PROVE InForce(target)
      OBVIOUS
    <3>. DEFINE absorbed == Absorbed(data[b], Kind(b), lamports[b])
                credits == data[b].stake.credits_observed
                more == data[to].stake.stake + lamports[b]
    <3>1. \/ target = data[to]
          \/ target = [data[to] EXCEPT !.stake.stake = more]
          \/ target = [data[to] EXCEPT !.stake = Absorb(@, absorbed, credits)]
      BY DEF Merged
    <3>. HIDE DEF target, absorbed, credits, more
    <3>2. InForce(data[a])
      BY DEF InForce
    <3>3. InForce([data[to] EXCEPT !.stake.stake = more])
      BY <1>7
    <3>4. InForce([data[to] EXCEPT !.stake = Absorb(@, absorbed, credits)])
      BY <1>7
    <3>. QED
      BY <3>1, <3>2, <3>3, <3>4
  <2>. HIDE DEF target
  <2>. QED
    BY <1>3, <1>4, <2>1, <2>2
<1>17. ASSUME NEW to \in Accounts, NEW n,
              \/ SplitFull(S, b, to, n)
              \/ SplitInactive(S, b, to, n)
              \/ SplitActive(S, b, to, n)
       PROVE  FALSE
  <2>1. b # to /\ a # to
    BY <1>0, <1>17 DEF SplitFull, SplitInactive, SplitActive, SplitChecks
  <2>2. CASE SplitFull(S, b, to, n)
    BY <1>3, <1>4, <2>1, <2>2 DEF SplitFull
  <2>3. CASE SplitInactive(S, b, to, n)
    BY <1>2, <2>1, <2>3 DEF SplitInactive
  <2>4. CASE SplitActive(S, b, to, n)
    <3>. DEFINE source == [data[b] EXCEPT !.stake.stake = data[b].stake.stake - n]
                target == [data[b] EXCEPT !.stake.stake = n]
    <3>1. SetStates(b, source, to, target)
      BY <2>4 DEF SplitActive
    <3>2. a = b => InForce(source)
      BY <1>7
    <3>. HIDE DEF source, target
    <3>. QED
      BY <1>3, <2>1, <3>1, <3>2
  <2>. QED
    BY <1>17, <2>2, <2>3, <2>4
<1>18. ASSUME NEW to \in Accounts, NEW n, MoveStake(S, b, to, n)
       PROVE  FALSE
  <2>. DEFINE source == Remainder(b, n)
              target == Moved(b, to, n)
  <2>1. /\ b # to /\ SetStates(to, target, b, source)
        /\ HasMeta(data[b]) /\ HasMeta(data[to])
        /\ Kind(to) \in {"FullyActive", "Inactive"}
    BY <1>18 DEF MoveStake, MoveStakeChecks, MoveChecks, Mergeable
  <2>2. a = b => InForce(source)
    <3>1. source \in {Initialized(data[b].meta),
                      [data[b] EXCEPT !.stake.stake = data[b].stake.stake - n]}
      BY DEF Remainder
    <3>. HIDE DEF source
    <3>. QED
      BY <1>4, <1>7, <3>1
  <2>3. a = to => InForce(target)
    <3>. SUFFICES ASSUME a = to PROVE InForce(target)
      OBVIOUS
    <3>1. Kind(to) = "FullyActive"
      BY <2>1, KindOK
    <3>2. target = [data[to] EXCEPT !.stake =
                      Absorb(@, n, data[b].stake.credits_observed)]
      BY <3>1 DEF Moved
    <3>. HIDE DEF target
    <3>. QED
      BY <1>7, <3>2
  <2>. HIDE DEF source, target
  <2>. QED
    BY <1>3, <2>1, <2>2, <2>3
<1>19. ASSUME NEW to, NEW n, MoveLamports(S, b, to, n)
       PROVE  FALSE
  BY <1>5, <1>19 DEF MoveLamports
<1>. QED
  BY <1>8, <1>10, <1>12, <1>13, <1>14, <1>15, <1>16, <1>17, <1>18, <1>19

(***************************************************************************)
(* Without the staker's signature a delegation in force is ended only when *)
(* its validator voted in none of the recent epochs while another one      *)
(* voted in each: whatever the records of the vote accounts look like, the *)
(* comparison with their last records only sees what it is meant to see.   *)
(***************************************************************************)
THEOREM OnlyDelinquentsForced == Spec => ForcedOnlyIfDelinquent
<1>. DEFINE Delinquent ==
              \A a \in StakeAccounts :
                 LET d == data[a].stake
                 IN  /\ d.deactivation_epoch = Never
                     /\ IsStake(a)' /\ data'[a].stake.deactivation_epoch # Never
                     /\ \E S \in SignerSets :
                           ~Check(data[a].meta, S, "Staker") /\ Process(S)
                     => /\ VotedIn(d.voter_pubkey) \cap RecentEpochs = {}
                        /\ \E v \in Voters : RecentEpochs \subseteq VotedIn(v)
<1>1. Init => RecordsSorted
  BY DEF Init, RecordsSorted
<1>2. Inv /\ RecordsSorted /\ [Next]_vars => RecordsSorted'
  BY RecordsSortedKept
<1>3. ASSUME Inv, RecordsSorted
      PROVE  Delinquent
  <2>. SUFFICES ASSUME NEW a \in Accounts, IsStake(a),
                       data[a].stake.deactivation_epoch = Never,
                       IsStake(a)', data'[a].stake.deactivation_epoch # Never,
                       NEW S \in SignerSets,
                       ~Check(data[a].meta, S, "Staker"), Process(S)
                PROVE  /\ VotedIn(data[a].stake.voter_pubkey) \cap RecentEpochs = {}
                       /\ \E v \in Voters : RecentEpochs \subseteq VotedIn(v)
    BY DEF StakeAccounts
  <2>1. PICK delinquent \in Voters, reference \in Voters :
           DeactivateDelinquent(a, delinquent, reference)
    <3>1. data'[a].kind = "Stake"
      BY DEF IsStake
    <3>2. ~Deactivate(S, a)
      BY DEF Deactivate
    <3>. QED
      BY <1>3, <3>1, <3>2, OnlyDeactivationEnds
  <2>2. /\ AcceptableReferenceEpochCredits(epoch_credits[reference], clock.epoch)
        /\ data[a].stake.voter_pubkey = delinquent
        /\ EligibleForDeactivateDelinquent(epoch_credits[delinquent], clock.epoch)
    BY <2>1 DEF DeactivateDelinquent
  <2>. QED
    BY <1>3, <2>2, ReferenceVoted, DelinquentDidNotVote
<1>4. Inv /\ RecordsSorted => Delinquent
  BY <1>3
<1>5. ForcedOnlyIfDelinquent <=> [][Delinquent]_vars
  BY DEF ForcedOnlyIfDelinquent
<1>. HIDE DEF Delinquent
<1>. QED
  BY <1>1, <1>2, <1>4, <1>5, Invariance, PTL DEF Spec

=============================================================================
