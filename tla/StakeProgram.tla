---------------------------- MODULE StakeProgram ----------------------------
(***************************************************************************)
(* The stake program (program/src/processor.rs) running on a cluster: one  *)
(* action per instruction, and the parts of the runtime the instructions   *)
(* depend on (epochs, stake history, votes, rent, account lifetimes).      *)
(*                                                                         *)
(* An instruction that fails changes nothing, so an action is a successful *)
(* instruction: its guards are the code's error paths.  S is the set of    *)
(* keys that signed.  A key that the code accepts from any position in the *)
(* account list only has to be in S; the custodian has a position of its   *)
(* own and is an input, in S or absent.                                    *)
(***************************************************************************)
EXTENDS StakeState, VoteDelinquency, FiniteSets, FiniteSetsExt

CONSTANTS
    Accounts,        \* addresses at which stake accounts are created
    Wallet,          \* every lamport held outside the stake program
    DerivedKeys,     \* for each key, the addresses create_with_seed gives it
    Supply,          \* lamports in existence
    Background,      \* possible stakes of the delegations not modelled here
    RentValues       \* minimum balances the Rent sysvar may ask for

CONSTANTS            \* bounds on the inputs and on the environment
    Amounts,         \* lamport amounts the inputs name
    SignerSets,      \* sets of keys that sign a transaction
    Parties,         \* keys the instructions name as authorities
    InitialLockups,  \* lockups given to Initialize
    LockupChanges,   \* arguments given to SetLockup
    MaxEpoch,        \* last epoch
    MaxTime,         \* last unix timestamp
    VotingEpochs,    \* epochs in which vote accounts may vote
    RewardEpochs     \* epochs that may start by paying rewards

ASSUME ProgramConstants ==
    /\ IsFiniteSet(Accounts) /\ Accounts \subseteq Keys
    /\ Wallet \notin Accounts
    /\ DerivedKeys \in [Keys -> SUBSET Keys]
    /\ Supply \in Lamports
    /\ Background \subseteq Entry
    /\ RentValues \subseteq Lamports /\ RentValues # {}
    /\ Amounts \subseteq Lamports
    /\ SignerSets \subseteq SUBSET (Keys \ {DefaultKey})
    /\ Parties \subseteq Keys
    /\ InitialLockups \subseteq Lockup
    /\ LockupChanges \subseteq LockupArgs
    /\ MaxEpoch \in 0..(MaxU64 - 1) /\ MaxTime \in Nat
    /\ VotingEpochs \subseteq Nat /\ RewardEpochs \subseteq Nat

VARIABLES
    lamports,       \* balance of each account, and of the wallet
    data,           \* contents of each account
    clock,          \* the Clock sysvar
    history,        \* the StakeHistory sysvar, every entry since epoch 0
    epoch_credits,  \* epochs in which each vote account voted
    rent,           \* minimum balance of an account of the size of StakeStateV2
    rewards_active  \* the flag of the EpochRewards sysvar

vars == <<lamports, data, clock, history, epoch_credits, rent, rewards_active>>
sysvars == <<clock, history, epoch_credits, rent, rewards_active>>

Holders == Accounts \cup {Wallet}

\* An address with no account, and an account truncated to no data.
NoAccount == [kind |-> "None"]
Closed == [kind |-> "Closed"]
AccountData == StakeStateV2 \cup {NoAccount, Closed}

Clock == [epoch : 0..MaxEpoch, unix_timestamp : 0..MaxTime]

TypeOK ==
    /\ lamports \in [Holders -> Lamports]
    /\ data \in [Accounts -> AccountData]
    /\ clock \in Clock
    /\ history \in [0..(clock.epoch - 1) -> Entry]
    /\ epoch_credits \in [Voters -> Seq(Nat)]
    /\ rent \in Lamports
    /\ rewards_active \in BOOLEAN

Init ==
    /\ lamports = [h \in Holders |-> IF h = Wallet THEN Supply ELSE 0]
    /\ data = [a \in Accounts |-> NoAccount]
    /\ clock = [epoch |-> 0, unix_timestamp |-> 0]
    /\ history = [e \in {} |-> 0]
    /\ epoch_credits = [v \in Voters |-> << >>]
    /\ rent \in RentValues
    /\ rewards_active = FALSE

-----------------------------------------------------------------------------
(* What the instructions read.                                             *)

IsStake(a) == data[a].kind = "Stake"

Status(a) == StakeActivatingAndDeactivating(data[a].stake, history, clock.epoch)

Kind(a) == MergeKind(data[a], history, clock.epoch)

\* Mutant: stake that still warms up is taken for idle.
IsActive(a) ==
    IsStake(a) /\ Status(a).effective > 0

IsActiveOrActivating(a) ==
    IsStake(a) /\ (Status(a).effective > 0 \/ Status(a).activating > 0)

\* VoteState::credits(): one credit per epoch in which the account voted.
Credits(v) == Len(epoch_credits[v])

\* The optional custodian account, which must sign to count.
Custodians(S) == S \cup {NoKey}

\* The signers of AuthorizeWithSeed: an address derived from a signing base,
\* the custodian, and extra keys the instruction requires to sign.
SeedSigners(S, base, derived, custodian, extra) ==
    ({custodian} \ {NoKey}) \cup extra
        \cup (IF base \in S THEN {derived} ELSE {})

\* relocate_lamports: n lamports go from one holder to another.
Relocate(from, to, n) ==
    /\ n <= lamports[from]
    /\ lamports[to] + n <= MaxU64
    /\ lamports' = [lamports EXCEPT ![from] = @ - n, ![to] = @ + n]

SetState(a, state) == data' = [data EXCEPT ![a] = state]
SetStates(a, state, b, other) == data' = [data EXCEPT ![a] = state, ![b] = other]

-----------------------------------------------------------------------------
(* Initialize and InitializeChecked.                                       *)

DoInitialize(a, staker, withdrawer, lockup) ==
    /\ data[a] = Uninitialized
    /\ lamports[a] >= rent
    /\ SetState(a, Initialized([staker |-> staker, withdrawer |-> withdrawer,
                                lockup |-> lockup]))
    /\ UNCHANGED <<lamports, sysvars>>

Initialize(a) ==
    \E staker, withdrawer \in Parties, lockup \in InitialLockups :
        DoInitialize(a, staker, withdrawer, lockup)

InitializeChecked(S, a) ==
    \E staker \in Parties, withdrawer \in S \cap Parties :
        DoInitialize(a, staker, withdrawer, DefaultLockup)

-----------------------------------------------------------------------------
(* The four forms of Authorize.                                            *)

DoAuthorize(a, signers, new, who, custodian) ==
    /\ HasMeta(data[a])
    /\ MayAuthorize(data[a].meta, signers, who, clock, custodian)
    /\ SetState(a, [data[a] EXCEPT !.meta = WithAuthority(@, who, new)])
    /\ UNCHANGED <<lamports, sysvars>>

Authorize(S, a) ==
    \E new \in Parties, who \in StakeAuthorize, custodian \in Custodians(S) :
        DoAuthorize(a, S, new, who, custodian)

AuthorizeChecked(S, a) ==
    \E new \in S \cap Parties, who \in StakeAuthorize, custodian \in Custodians(S) :
        DoAuthorize(a, S, new, who, custodian)

AuthorizeWithSeed(S, a) ==
    \E base \in Keys :
    \E derived \in DerivedKeys[base], new \in Parties, who \in StakeAuthorize,
       custodian \in Custodians(S) :
        DoAuthorize(a, SeedSigners(S, base, derived, custodian, {}),
                    new, who, custodian)

AuthorizeCheckedWithSeed(S, a) ==
    \E base \in Keys :
    \E derived \in DerivedKeys[base], new \in S \cap Parties, who \in StakeAuthorize,
       custodian \in Custodians(S) :
        DoAuthorize(a, SeedSigners(S, base, derived, custodian, {new}),
                    new, who, custodian)

-----------------------------------------------------------------------------
(* SetLockup and SetLockupChecked.                                         *)

DoSetLockup(a, signers, args) ==
    /\ HasMeta(data[a])
    /\ MaySetLockup(data[a].meta, signers, clock)
    /\ SetState(a, [data[a] EXCEPT !.meta = WithLockup(@, args)])
    /\ UNCHANGED <<lamports, sysvars>>

SetLockup(S, a) == \E args \in LockupChanges : DoSetLockup(a, S, args)

SetLockupChecked(S, a) ==
    \E args \in LockupChanges :
        /\ args.custodian \in S \cup {Unset}
        /\ DoSetLockup(a, S, args)

-----------------------------------------------------------------------------
(* DelegateStake: a first delegation or one of stake with nothing          *)
(* effective, and the rescission of a deactivation requested this epoch.   *)

\* Mutant: the lamports that cover the delegation may have been withdrawn.
MayRescindUnbacked(stake, v, amount) ==
    /\ clock.epoch = stake.deactivation_epoch
    /\ stake.voter_pubkey = v

\* A deactivation of this epoch is withdrawn, for the same validator and with
\* the whole delegation still in the account.
MayRescind(stake, v, amount) ==
    /\ clock.epoch = stake.deactivation_epoch
    /\ stake.voter_pubkey = v
    /\ amount >= stake.stake

Delegate(S, a, v) ==
    LET amount == SatSub(lamports[a], rent)
        stake  == data[a].stake
        fresh  == NewStake(amount, v, Credits(v), clock.epoch)
    IN  /\ HasMeta(data[a])
        /\ Check(data[a].meta, S, "Staker")
        /\ amount >= MinimumDelegation
        /\ \/ /\ IsStake(a) => Status(a).effective = 0
              /\ SetState(a, Staked(data[a].meta, fresh))
           \/ /\ IsStake(a) /\ Status(a).effective # 0
              /\ MayRescind(stake, v, amount)
              /\ SetState(a, [data[a] EXCEPT !.stake.deactivation_epoch = Never])
        /\ UNCHANGED <<lamports, sysvars>>

-----------------------------------------------------------------------------
(* Split.                                                                  *)

SplitChecks(S, from, to, n) ==
    /\ from # to
    /\ data[to] = Uninitialized
    /\ n \in 1..lamports[from]
    /\ \/ HasMeta(data[from]) /\ Check(data[from].meta, S, "Staker")
       \/ data[from] = Uninitialized /\ from \in S

\* All lamports go: the destination takes over the state, the source closes.
SplitFull(S, from, to, n) ==
    LET active    == IsActiveOrActivating(from)
        delegated == IF active THEN data[from].stake.stake ELSE 0
    IN  /\ SplitChecks(S, from, to, n)
        /\ n = lamports[from]
        /\ SatSub(lamports[to] + n, delegated) >= rent
        /\ active => delegated >= MinimumDelegation
        /\ SetStates(to, data[from], from, Closed)
        /\ Relocate(from, to, n)
        /\ UNCHANGED sysvars

\* Nothing is active or activating: only rent exemption matters.
SplitInactive(S, from, to, n) ==
    /\ SplitChecks(S, from, to, n)
    /\ n # lamports[from]
    /\ ~IsActiveOrActivating(from)
    /\ lamports[from] - n >= rent
    /\ lamports[to] + n >= rent
    /\ SetState(to, data[from])
    /\ Relocate(from, to, n)
    /\ UNCHANGED sysvars

\* Mutant: the check that the code's comment calls unreachable is gone.
SplitTrusted(from, n) == TRUE

\* The sanity check of a partial split: what stays covers the delegation that
\* stays, and the rent.
SplitLeavesSourceExempt(from, n) ==
    SatSub(lamports[from] - n, data[from].stake.stake - n) >= rent

\* The delegation is shared out, one lamport of it with each lamport moved.
SplitActive(S, from, to, n) ==
    LET stake == data[from].stake
    IN  /\ SplitChecks(S, from, to, n)
        /\ n # lamports[from]
        /\ IsActiveOrActivating(from)
        /\ lamports[to] >= rent
        /\ stake.stake >= n
        /\ stake.stake - n >= MinimumDelegation
        /\ SplitLeavesSourceExempt(from, n)
        /\ n >= MinimumDelegation
        /\ SetStates(from, [data[from] EXCEPT !.stake.stake = @ - n],
                     to,   [data[from] EXCEPT !.stake.stake = n])
        /\ Relocate(from, to, n)
        /\ UNCHANGED sysvars

-----------------------------------------------------------------------------
(* Withdraw.                                                               *)

\* Mutant: deactivated stake is free at once.
LockedUntilDeactivated(a) ==
    IF ~IsStake(a) \/ clock.epoch >= data[a].stake.deactivation_epoch THEN 0
    ELSE data[a].stake.stake

\* The stake an account may not be left without: what is still effective once
\* the deactivation epoch has come, the whole delegation before that.
LockedStake(a) ==
    IF ~IsStake(a) THEN 0
    ELSE IF clock.epoch >= data[a].stake.deactivation_epoch
         THEN Status(a).effective
         ELSE data[a].stake.stake

MayWithdraw(S, a, custodian) ==
    \/ /\ HasMeta(data[a])
       /\ Check(data[a].meta, S, "Withdrawer")
       /\ ~IsInForce(data[a].meta.lockup, clock, custodian)
    \/ /\ data[a] \in {Uninitialized, Closed}
       /\ a \in S

WithdrawAll(S, a, to, custodian) ==
    /\ a # to
    /\ MayWithdraw(S, a, custodian)
    /\ LockedStake(a) = 0
    /\ SetState(a, Closed)
    /\ Relocate(a, to, lamports[a])
    /\ UNCHANGED sysvars

WithdrawPart(S, a, to, n, custodian) ==
    LET reserve == IF HasMeta(data[a]) THEN LockedStake(a) + rent ELSE 0
    IN  /\ a # to
        /\ MayWithdraw(S, a, custodian)
        /\ n # lamports[a]
        /\ n + reserve <= lamports[a]
        /\ Relocate(a, to, n)
        /\ UNCHANGED <<data, sysvars>>

Withdraw(S, a, to) ==
    \E custodian \in Custodians(S) :
        \/ WithdrawAll(S, a, to, custodian)
        \/ \E n \in Amounts : WithdrawPart(S, a, to, n, custodian)

-----------------------------------------------------------------------------
(* Deactivate and DeactivateDelinquent.                                    *)

DoDeactivate(a) ==
    /\ data[a].stake.deactivation_epoch = Never
    /\ SetState(a, [data[a] EXCEPT !.stake.deactivation_epoch = clock.epoch])
    /\ UNCHANGED <<lamports, sysvars>>

Deactivate(S, a) ==
    /\ IsStake(a)
    /\ Check(data[a].meta, S, "Staker")
    /\ DoDeactivate(a)

\* Anyone may do this: no key has to sign.
DeactivateDelinquent(a, delinquent, reference) ==
    /\ AcceptableReferenceEpochCredits(epoch_credits[reference], clock.epoch)
    /\ IsStake(a)
    /\ data[a].stake.voter_pubkey = delinquent
    /\ EligibleForDeactivateDelinquent(epoch_credits[delinquent], clock.epoch)
    /\ DoDeactivate(a)

-----------------------------------------------------------------------------
(* Merge.                                                                  *)

Merge(S, to, from) ==
    /\ to # from
    /\ Mergeable(data[to], history, clock.epoch)
    /\ Check(data[to].meta, S, "Staker")
    /\ Mergeable(data[from], history, clock.epoch)
    /\ CanMerge(data[to], Kind(to), data[from], Kind(from), lamports[from], clock)
    /\ SetStates(to, Merged(data[to], Kind(to), data[from], Kind(from),
                            lamports[from]),
                 from, Closed)
    /\ Relocate(from, to, lamports[from])
    /\ UNCHANGED sysvars

-----------------------------------------------------------------------------
(* MoveStake and MoveLamports.                                             *)

MoveChecks(S, from, to, n) ==
    /\ from # to
    /\ n > 0
    /\ Mergeable(data[from], history, clock.epoch)
    /\ Check(data[from].meta, S, "Staker")
    /\ Mergeable(data[to], history, clock.epoch)
    /\ MetasCanMerge(data[from].meta, data[to].meta, clock)

\* What the destination of a MoveStake becomes: it absorbs the stake, or
\* starts as a copy of the source's delegation.
Moved(from, to, n) ==
    IF Kind(to) = "FullyActive"
    THEN [data[to] EXCEPT !.stake =
             Absorb(@, n, data[from].stake.credits_observed)]
    ELSE Staked(data[to].meta, [data[from].stake EXCEPT !.stake = n])

\* Mutant: a source with no delegation left stays delegated.
RemainderDelegated(from, n) == [data[from] EXCEPT !.stake.stake = @ - n]

\* What its source becomes: with no delegation left it is only initialized.
Remainder(from, n) ==
    IF data[from].stake.stake = n THEN Initialized(data[from].meta)
    ELSE [data[from] EXCEPT !.stake.stake = @ - n]

\* What is checked before anything is written.
MoveStakeChecks(S, from, to, n) ==
    /\ MoveChecks(S, from, to, n)
    /\ Kind(from) = "FullyActive"
    /\ data[from].stake.stake >= n
    /\ data[from].stake.stake - n \in {0} \cup MinimumDelegation..MaxU64
    /\ \/ /\ Kind(to) = "FullyActive"
          /\ data[from].stake.voter_pubkey = data[to].stake.voter_pubkey
          /\ data[to].stake.stake + n \in MinimumDelegation..MaxU64
       \/ /\ Kind(to) = "Inactive"
          /\ n >= MinimumDelegation

\* What is checked at the end, when both states are written.
MoveLeavesExempt(from, to, n) ==
    /\ lamports[from] - n >= rent
    /\ lamports[to] + n >= rent

MoveStake(S, from, to, n) ==
    /\ MoveStakeChecks(S, from, to, n)
    /\ MoveLeavesExempt(from, to, n)
    /\ SetStates(to, Moved(from, to, n), from, Remainder(from, n))
    /\ Relocate(from, to, n)
    /\ UNCHANGED sysvars

\* Mutant: a fully active account can spare its rent.
FreeOfStake(a) ==
    IF Kind(a) = "FullyActive" THEN SatSub(lamports[a], data[a].stake.stake)
    ELSE SatSub(lamports[a], rent)

\* The lamports an account can spare: neither delegated nor reserved.
FreeLamports(a) ==
    IF Kind(a) = "FullyActive"
    THEN SatSub(SatSub(lamports[a], data[a].stake.stake), rent)
    ELSE SatSub(lamports[a], rent)

MoveLamports(S, from, to, n) ==
    /\ MoveChecks(S, from, to, n)
    /\ Kind(from) \in {"FullyActive", "Inactive"}
    /\ n <= FreeLamports(from)
    /\ Relocate(from, to, n)
    /\ UNCHANGED <<data, sysvars>>

-----------------------------------------------------------------------------
(* The runtime.                                                            *)

\* The system program creates an account of the size of StakeStateV2, owned
\* by the stake program.
CreateAccount(a) ==
    /\ data[a] = NoAccount
    /\ SetState(a, Uninitialized)
    /\ UNCHANGED <<lamports, sysvars>>

\* A system transfer into an account: anyone may fund any address.
Deposit(a, n) ==
    /\ data[a] # NoAccount
    /\ Relocate(Wallet, a, n)
    /\ UNCHANGED <<data, sysvars>>

\* An account without lamports ceases to exist when its transaction ends.
Reap(a) ==
    /\ data[a] # NoAccount
    /\ lamports[a] = 0
    /\ SetState(a, NoAccount)
    /\ UNCHANGED <<lamports, sysvars>>

\* The cluster's total of one field of the status, background included.
ClusterTotal(field, background) ==
    background[field]
      + MapThenSumSet(LAMBDA a : Status(a)[field], {a \in Accounts : IsStake(a)})

\* The epoch ends: its totals become the newest history entry.
AdvanceEpoch ==
    /\ clock.epoch < MaxEpoch
    /\ ~rewards_active
    /\ \A a \in Accounts : lamports[a] = 0 => data[a] = NoAccount
    /\ clock' = [clock EXCEPT !.epoch = @ + 1]
    /\ \E background \in Background :
          history' = [e \in 0..clock.epoch |->
                        IF e < clock.epoch THEN history[e]
                        ELSE [effective    |-> ClusterTotal("effective", background),
                              activating   |-> ClusterTotal("activating", background),
                              deactivating |-> ClusterTotal("deactivating", background)]]
    /\ rewards_active' \in BOOLEAN
    /\ rewards_active' => clock.epoch + 1 \in RewardEpochs
    /\ UNCHANGED <<lamports, data, epoch_credits, rent>>

\* The last partition of the rewards is paid.
EndRewards ==
    /\ rewards_active
    /\ rewards_active' = FALSE
    /\ UNCHANGED <<lamports, data, clock, history, epoch_credits, rent>>

AdvanceTime ==
    /\ clock.unix_timestamp < MaxTime
    /\ clock' = [clock EXCEPT !.unix_timestamp = @ + 1]
    /\ UNCHANGED <<lamports, data, history, epoch_credits, rent, rewards_active>>

Vote(v) ==
    LET voted == epoch_credits[v]
    IN  /\ clock.epoch \in VotingEpochs
        /\ voted # << >> => voted[Len(voted)] # clock.epoch
        /\ epoch_credits' = [epoch_credits EXCEPT ![v] = Append(@, clock.epoch)]
        /\ UNCHANGED <<lamports, data, clock, history, rent, rewards_active>>

ChangeRent ==
    /\ rent' \in RentValues
    /\ UNCHANGED <<lamports, data, clock, history, epoch_credits, rewards_active>>

-----------------------------------------------------------------------------

\* Processor::process: one instruction signed by S; none while rewards are
\* being paid.
Process(S) ==
    /\ ~rewards_active
    /\ \E a \in Accounts :
        \/ Initialize(a)
        \/ InitializeChecked(S, a)
        \/ Authorize(S, a)
        \/ AuthorizeChecked(S, a)
        \/ AuthorizeWithSeed(S, a)
        \/ AuthorizeCheckedWithSeed(S, a)
        \/ SetLockup(S, a)
        \/ SetLockupChecked(S, a)
        \/ \E v \in Voters : Delegate(S, a, v)
        \/ Deactivate(S, a)
        \/ \E delinquent, reference \in Voters :
              DeactivateDelinquent(a, delinquent, reference)
        \/ \E to \in Holders : Withdraw(S, a, to)
        \/ \E to \in Accounts :
              \/ Merge(S, to, a)
              \/ \E n \in Amounts \cup {lamports[a]} :
                    \/ SplitFull(S, a, to, n)
                    \/ SplitInactive(S, a, to, n)
                    \/ SplitActive(S, a, to, n)
                    \/ MoveStake(S, a, to, n)
                    \/ MoveLamports(S, a, to, n)

Runtime ==
    \/ \E a \in Accounts :
        \/ CreateAccount(a)
        \/ \E n \in Amounts : Deposit(a, n)
        \/ Reap(a)
    \/ AdvanceEpoch
    \/ EndRewards
    \/ AdvanceTime
    \/ \E v \in Voters : Vote(v)
    \/ ChangeRent

Next ==
    \/ \E S \in SignerSets : Process(S)
    \/ Runtime

Spec == Init /\ [][Next]_vars

=============================================================================
