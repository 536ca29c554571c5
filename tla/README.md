# A TLA+ model of the stake program

This project models Solana's stake program (`program/`), the parts of `interface/` it is
built from, and the two libraries that clients call it with (`interface/src/instruction.rs`
and the generated `clients/rust`). TLC checks the models on small clusters; TLAPS proves
for any size the invariants of the program, what epochs and instructions do to the stake
that votes, that transactions move funds and stake only with consent, that with consent
they can be moved, and that the instruction builders and the program agree. Line numbers
refer to the sources of this repository.

## The system

A *stake account* holds lamports and a `StakeStateV2`: nothing yet (`Uninitialized`),
authorities and a lockup (`Initialized`), or these and a delegation to a vote account
(`Stake`). The program changes accounts only through the instructions of
`Processor::process`. It keeps no state of its own: it reads the clock, the stake history,
the rent and the rewards flag from sysvars and the votes of a validator from its vote
account. Clients send *transactions*: lists of instructions, each with a list of accounts.

| component | state | operations | where |
|---|---|---|---|
| instruction processor | balance and data of each account | Initialize(Checked), Authorize(Checked)(WithSeed), SetLockup(Checked), DelegateStake, Split, Withdraw, Deactivate, DeactivateDelinquent, Merge, MoveStake, MoveLamports; and for each what it reads from an account list | `program/src/processor.rs` |
| merge rules | none (pure) | class of an account, which classes merge, what a merge writes | `program/src/helpers/merge.rs` |
| delegation | none (pure) | a new delegation and the amount it may have | `program/src/helpers/delegate.rs` |
| authorities and lockup | `Meta` | check, authorize, is_in_force, set_lockup | `interface/src/state.rs` |
| stake activation | none (pure) | status of a delegation in an epoch, from the stake history | `interface/src/state.rs` (`_v2`), `warmup_cooldown_allowance.rs` |
| vote delinquency | none (pure) | reference and delinquent vote records | `interface/src/tools.rs` |
| instruction builders | none (pure) | an instruction, or several for one transaction, from keys and arguments | `interface/src/instruction.rs` |
| generated client | fields that were set | a builder per instruction | `clients/rust/src/generated/instructions` |
| runtime (external) | clock, stake history, rent, rewards flag, vote accounts, the transaction under way | epochs, votes, transactions, the system program, removal of accounts | not in this repository |

How they interact: a client builds a transaction, the runtime merges the flags of its
account lists and calls the program for each instruction. The program finds its accounts
and signers in the list, reads the sysvars, computes the status of the delegations it is
about from the history, classifies them (merge rules), checks authorities against the
signers, writes one or two account states and moves lamports. When an epoch ends, the
runtime sums the statuses of all accounts into the next history entry: the program's
output becomes its input.

What is hard here is not concurrency (instructions on an account are serialised) but long
sequences of legal calls, and three descriptions of one interface:

* the status of an account is a function of the *present* delegation amount over *past*
  cluster totals, and accounts are split and merged in between;
* lamports, delegated stake, effective stake and rent are four quantities that each
  instruction relates in its own way, and rent may change between two calls;
* five parties (staker, withdrawer, custodian, the account's own key, a derived key) have
  different rights, in force or not depending on the time;
* integer rounding with clamps to one lamport decides when stake is free;
* account lists have an old and a new layout, told apart by one key; signatures count at
  any place of the list, or at one place, depending on the instruction; the last account
  is optional; and the builders, the generated client and the processor each have the
  order and the flags written down once more.

What makes each part correct: lamports that are delegated or effective are in the account;
stake warms up and cools down only at epoch boundaries, and gets to the end of it; credits
are not paid twice; funds leave a lockup or a withdrawer, and stake leaves a validator,
only with the consent the account asks for; with that consent, funds and stake can always
be used, through either library. `PROJECT.json` lists the hazards line by line, with the
property that covers each.

## The modules

| module | models | notes |
|---|---|---|
| `StakeActivation` | allowance, warmup and cooldown loops, status | loops are recursive functions of the number of iterations; u128 saturation kept |
| `StakeMeta` | `Authorized`, `Lockup`, `Meta` | an absent key is `NoKey`, an absent argument `Unset` |
| `VoteDelinquency` | `tools.rs` | a record is the epoch it is for |
| `StakeState` | `StakeStateV2`, `MergeKind`, credits average | extends the activation and the meta |
| `StakeProgram` | the instructions, and the runtime around them | one action per instruction; `Process(S)` is a call signed by the keys `S` |
| `AccountLists` | account metas, messages, derived keys | external: the Solana SDK as the crates use it |
| `StakeInstructions` | the builders of the interface crate | |
| `StakeClient` | the account lists and builders of the generated client | an instruction is numbered, as in its serialised form |
| `StakeCpi` | the client's other half, for calls from a program | lists of its own; no default for the sysvars |
| `StakeProcessor` | what `process_*` reads from an account list | gives an operation, or `Refused` |
| `StakeInterface` | builders, client and processor together | |
| `StakeTransactions` | transactions of several instructions | composes `StakeProcessor` with `StakeProgram` |
| `StakeConsent` | what keys control | |
| `StakeCustody` | abstract: lamports held on terms | refined by `StakeTransactions` |
| `StakeProperties`, `StakeTransactionProperties`, `StakeAccess` | the properties | |
| `MCValues`, `MCStakeProgram`, `MCStakeTransactions` | values of the constants for TLC; the transactions submitted | |
| `StakeDocumentation` | statements of docs and comments the code contradicts | violation runs |
| `StakeActivationProofs`, `StakeProgramProofs`, `StakeReserveProofs`, `StakeEpochProofs` | theorems about the program | each extends the one before |
| `StakeTransactionProofs` | theorems about transactions | extends `StakeProgramProofs` |
| `StakeTotalsProofs` | theorems about sums over accounts, and about what those who hold authorities can do | extends all of these, and `StakeAccess` |
| `StakeInterfaceProofs`, `StakeClientProofs` | theorems about builders and client | |

**`StakeProgram`.** State: `lamports` and `data` per account (`lamports` also for `Wallet`,
all lamports outside); `clock`, `history`, `rent` and `rewards_active` for the sysvars;
`epoch_credits` per vote account. `data` has two more values than `StakeStateV2`:
`NoAccount`, and `Closed` for an account truncated to no data that the runtime has not
removed yet. A failing instruction changes nothing, so an action is a successful call and
its guards are the code's error paths. Split is three actions, for the three ways out of
`process_split`; Withdraw two. `SetState`, `SetStates` and `Relocate` are the only ways
data and lamports change, as in the code. Who signs is free: any set `S` of `SignerSets`.

**`StakeProcessor` and `StakeTransactions`.** Here who signs is what account lists say. A
transaction is a sequence of instructions `[name, args, accounts]`; the message merges the
flags of equal keys over all of them (`SignerKeys`, `WritableKeys`); `Read` is the part of
`process_*` that takes accounts from the list, with its checks, and gives an operation such
as `[op |-> "Withdraw", from, to, signers, custodian, lamports]`. `Perform` carries the
operation out with the actions of `StakeProgram`. The variables added are `pending`, what
is left of the transaction under way, and `signed`, who signed the last step. `Submit`
starts a transaction, `Continue` carries out its next instruction with nothing in between,
`Between` is the runtime. A transaction that fails in the middle is rolled back; the model
has the same behaviours without the steps of that transaction, and with an instruction
pending that is not enabled nothing else happens.

Mutant operators (marked *Mutant*) stand before the definition they spoil. They are not
used by any specification; each makes one property of one run fail.

### Abstractions

* `StakeFlags`, `rent_exempt_reserve` and the reserved bytes are left out: written, or
  copied, never read. `RewardsPool` is never written.
* All accounts have the size of `StakeStateV2`, so rent is one number. The checks of
  `data_len` are not modelled, apart from the empty account.
* `bootstrap` delegations (`activation_epoch == u64::MAX`) exist in the status function;
  no instruction makes one.
* A validator earns one credit in an epoch it votes in, so its credits are the number of
  its records.
* In `StakeProgram` accounts without lamports may stay until the epoch ends, and any call
  may come in between: more interleavings than transactions have. In `StakeTransactions`
  they are removed before the next transaction.
* Account lists name keys, sysvars and the config account; arguments are not serialised. A
  seed stands for the seed and its owner, and derives what `CreateWithSeed` says.
* The background is the status total of all delegations elsewhere, the same in every epoch
  of a run.
* The history forgets entries older than `MaxEntries`. An account whose activation is
  forgotten in the middle of its warmup counts as effective at once, an assumption of the
  code (512 epochs are enough to warm up). `WarmedUpInTime` states the assumption as far as
  deactivated stake needs it. Run `rent` forgets entries of accounts that have finished, and
  checks that the assumption holds there; the runs of slow warmup and cooldown keep all
  entries. With few entries and `BusyCluster` the assumption fails, and so do
  `LocksCovered`, `EffectiveStakeBacked` and `WarmupAndCooldownMonotone`: an account
  deactivated in the middle of its warmup, from which the part that never became effective
  was withdrawn, counts in full once its activation is forgotten.
* Rewards are not paid into accounts; only the flag that stops the program is there.
* The warmup rate is one constant: the program asks for the newer one from epoch 0 on.

## The runs

All runs use the real rate (900 of 10000 basis points) and one shared Wallet. Deadlock
checking is off: the clock is bounded, and with all inputs used up the system stops.
Accounts are symmetric, and validators too, except in `cooling`, which checks liveness.

| run | asks | bounds and why they are enough | distinct states |
|---|---|---|---|
| `funds` | do accounts keep what is locked in them, the minimum delegation, and epochs in order; can the last check of MoveStake fail | three accounts, 6 lamports, rent 1, minimum 2, epochs 0 to 2: room for two delegations, an empty destination, a split, a merge and a move before and after activation | 77K |
| `rent` | what survives rent that changes at any time, and a history of two entries; types | two accounts that may sign for themselves, rent 1 or 2, four epochs: a delegation of epoch 0 has dropped out in epoch 3, having warmed up in time | 87K |
| `active` | is stake activated, or are rewards raised, by instructions | two validators, votes in epoch 1 so that credits observed differ, three epochs | 60K |
| `warming` | stake that takes several epochs to warm up; does any instruction make more of it vote | 27 lamports, minimum 8, in a cluster with 60 lamports of other stake warming up and 60 cooling down: a delegation of 17 gains about 5 lamports an epoch; five epochs, so deactivation in the middle, rescission and later epochs happen; u64 and u128 so small that the products of the allowance saturate; time goes on within epochs; splits round up to two lamports in favour of the parts | 43K |
| `cooling` | stake that takes several epochs to cool down; does it come free | 9 lamports with much cooldown elsewhere, five epochs, one of them beginning with rewards: two delegations of the minimum, or one that is split, deactivated and withdrawn from while cooling | 53K |
| `consent` | who can move funds | transactions in both layouts, over two accounts, two keys and a lockup until epoch 1: all lone instructions, creations of every kind, splits with and without seed, two withdrawals in one, a refill of an account that was drained in the same transaction, and instructions in which a signature is missing | 16K |
| `staker` | who can undelegate stake, and what the staker can do | transactions that create and delegate, in both layouts; two keys, two validators, two accounts, delinquency after one epoch | 81K |
| `seeds` | derived keys, checked forms, changes of lockup in epochs and time | one account, three authorities of which one is derived, two lockups and two edits | 1.5K |
| `delinquent` | forced deactivation | two validators voting in any of five epochs, minimum of two epochs, an epoch that starts with rewards | 112K |

`RoundingSlack` is 0 but where stake moves over several epochs: each part of a split
delegation has its share rounded down in both loops, so one split or merge may shift an
effective lamport per loop (two in `warming`). That is the code's behaviour; the property
is that it shifts no more. It is a statement about accounts of similar size: no account
gains less than a lamport in an epoch, so a delegation of one lamport is fully active after
one epoch in any cluster, and merging older stake into it puts all of that stake through
the warmup of that epoch. With a minimum delegation of 1, TLC finds a merge that takes
three effective lamports of four away. With the program's minimum of one SOL such a lamport
is a billionth of the destination; in `warming` the minimum is 8 and the accounts differ by
a factor of two at most. The other direction has no such exception: what instructions can
*add* to the stake that votes is a lamport for each epoch, whatever the amounts
(`EffectiveNotRaised`, proved below where no product saturates, and checked in `warming`
where they do).

What the properties say, in brief (their comments say it in full):

* *Amounts.* `LocksCovered`, `DelegationsBacked`, `EffectiveStakeBacked` relate balance,
  delegation and effective stake; `MoveStakeCovered` says that the check which MoveStake
  makes after it has written never is the one that fails; `MinimumDelegated` and
  `EpochsOrdered` say what delegations look like after any sequence of calls;
  `WarmedUpInTime`, that an activation is not forgotten before it is over.
* *Epochs.* `ActivationEpochIsNow` and `EffectiveFixedInEpoch`: no call activates or
  deactivates stake at once; `EffectiveNotRaised`: however small the accounts are, none
  raises what votes, but for rounding. `CooldownProgresses`, `WarmupAndCooldownMonotone`:
  what an epoch does. `RewardsNotInflated`: merges of credits.
* *Consent.* `ForcedOnlyIfDelinquent` and `DelegationNeedsStaker` for stake. For lamports
  `ImplementsCustody`: `StakeTransactions` implements `StakeCustody`.
* *Access.* `FundsReachable`, `StakeReachable`, `AuthoritiesReplaceable`,
  `RegroupingReachable` (`StakeAccess`): with the consent asked for, what is not locked can
  be withdrawn, stake deactivated and delegated anew, authorities and lockups changed,
  accounts regrouped. For each such operation the instruction of the interface crate in
  both layouts and those of the generated client, for a transaction and for a call, are
  read as the *same* operation, and it is enabled. `CreationsFinish`: a
  transaction that creates an account can go to its end.

### Refinements

`StakeCustody` has no accounts, instructions or stake: a bag of lamports held on *terms*
(withdrawer and lockup), and `Transfer`, one movement from one terms to others, with the
consent that needs. The mapping is `Holdings`: of each terms in use, the sum of the
lamports of the accounts whose `TermsOf` they are; `NoTerms` for the wallet and accounts
without authorities. `ImplementsCustody` is `Custody!CustodySpec` under it, so each step
of a transaction, whatever instruction it is, is a `Transfer`, passes time or changes
nothing. What the check brought out is in `Consented`: lamports move between expired terms
of one withdrawer without that withdrawer (Merge and MoveLamports by the staker), and a
custodian replaces its own lockup.

`ImplementsProgram` (run `consent`) says that each step of `StakeTransactions` is a step of
`StakeProgram` signed by keys that signed the transaction: nothing the processor takes for
a signature, in any layout, is not one. So the properties of `StakeProgram` hold of
transactions.

Both refinements are proved as well (below): `TransactionsKeepCustody` and
`TransactionsImplementProgram`.

### Fairness

`FairSpec` (run `cooling`) is for `DeactivatedIsFreed`: deactivated stake comes free, after
as many epochs as it has lamports at the latest, unless the deactivation is taken back.

* `SF_vars(AdvanceEpoch)`: epochs end by the clock of the cluster, whatever transactions
  do. Strong, because an account that was drained within a transaction has to be removed
  before the epoch ends, and somebody who goes on draining accounts disables the end of the
  epoch again and again without being able to prevent it.
* `WF_vars(EndRewards)`: the payment of rewards has a fixed number of partitions.
* `WF_vars(Reap(a))`: the runtime removes an account without lamports when its transaction
  ends.

No instruction is fair: nobody has to send one. `CoolingDown` asks that the clock's bound
leaves as many epochs as the stake needs, so that the bound does not decide.

### Where documents and code differ

| run | document | code |
|---|---|---|
| `split_branch` | `processor.rs:691`: "sanity check on prior math; this branch is unreachable" | reached by splitting stake that is cooling down after its cooled part was withdrawn; the check is needed, and the mutant without it loses the rent (run `cooling`) |
| `merge_credits` | `instruction.rs:331`: voter and "vote credits observed must match" | credits are averaged |
| `reference` | `instruction.rs:640`: "has voted at least once in the last ... epochs" | must have voted in each of them |

Seen on the way, without a run: the same paragraph of `instruction.rs` asks for "identical
lockup and authority keys" (line 324), but lockups may differ once both have expired; and
it says that all other combinations fail, but an activating source merges into an inactive
destination (its delegation is dropped).

## What is proved

`tlapm` checks the eight proof modules without an unproved leaf. The theorems hold for any
sets of accounts, keys and validators, any amounts and any number of epochs below
`u64::MAX`, from the named assumptions on constants (`ActivationConstants`,
`MetaConstants`, `StateConstants`, `DelinquencyConstants`, `ProgramConstants`,
`AccountConstants`, `TransactionConstants`, `CustodyConstants`), which TLC evaluates in
runs. `TransactionConstants` says that the transactions submitted keep to the inputs of
`StakeProgram` (names, amounts, lockups, seeds that derive what `DerivedKeys` says);
`CustodyConstants`, that `NoTerms` is no terms and that there are lamports.

| theorem | property | assumed besides |
|---|---|---|
| `TypeCorrect`, `MinimumKept`, `EpochsKeptInOrder`, `DelegationsKeptBacked` | `TypeOK`, `MinimumDelegated`, `EpochsOrdered`, `DelegationsBacked` | |
| `LocksKeptCovered` | `LocksCovered` | rent is one positive amount; `[]WarmedUpInTime` |
| `EffectiveKeptBacked` | `EffectiveStakeBacked` | rent is never 0; `[]WarmedUpInTime` |
| `MoveStakeKeptCovered` | `MoveStakeCovered` | rent is one positive amount |
| `InTimeWhileRemembered` | `WarmedUpInTime` | fewer epochs than the history has entries |
| `ActivationEpochKept` | `ActivationEpochIsNow` | |
| `CooldownKeepsOn`, `EpochsAreMonotone` | `CooldownProgresses`, `WarmupAndCooldownMonotone` | `[]WarmedUpInTime` |
| `OnlyDelinquentsForced` | `ForcedOnlyIfDelinquent` | |
| `TransactionsTyped`, `TransactionsImplementProgram` | `TransactionTypeOK`, `ImplementsProgram` | |
| `TransactionsKeepStake` | those of the first row, of transactions | |
| `TransactionsKeepCustody` | `ImplementsCustody` | |
| `DelegationsTakeConsent` | `DelegationNeedsStaker` | |
| `RewardsKeptFair` | `RewardsNotInflated` | |
| `InTimeWhileUnlimited` | `WarmedUpInTime` | no epoch has limited an account (`[]Unlimited`) |
| `EffectiveKeptFixed` | `EffectiveFixedInEpoch` | rent is never 0; `[]Unlimited` |
| `LargeClustersKeepAll` | `EffectiveFixedInEpoch`, `WarmedUpInTime`, `EffectiveStakeBacked`, `CooldownProgresses`, `WarmupAndCooldownMonotone` | rent is never 0; `LargeCluster` |
| `EffectiveRaisedLittle` | `EffectiveNotRaised` | no product has saturated (`[]Unsaturated`) |
| `RoomyClustersRaiseLittle` | `EffectiveNotRaised` | `RoomyCluster`; `[]EffectiveStakeBacked` |
| `FreedInTime` | safety half of `DeactivatedIsFreed` | `[]WarmedUpInTime` |
| `FundsCanLeave`, `StakeCanChange`, `AuthoritiesCanPass` | core of `FundsReachable`, `StakeReachable`, `AuthoritiesReplaceable`, without `ENABLED` | of a state: the invariants named in the theorem, rewards not being paid |

Rent is positive on every cluster; were it 0, the check with which Split ends would be
empty, for it subtracts the delegation from the balance and saturates at 0. One amount is
what "as long as rent does not change" means: with changing rent `LocksCovered` is false,
and what is left is `EffectiveKeptBacked` and `DelegationsKeptBacked`. `WarmedUpInTime` is about what the cluster's totals do, which are
part of the environment here; it is the reason for 512 entries, and is met by every
behaviour until the history is full (`InTimeWhileRemembered`), and by all in which no epoch
limits an account (`InTimeWhileUnlimited`). Without it `LocksCovered`,
`EffectiveStakeBacked` and `WarmupAndCooldownMonotone` are false (Abstractions); for
`CooldownProgresses` TLC found no counterexample, but the proof needs it.

The other conditions are about the cluster's totals. `Ample` says that of one epoch the
rate lets through whatever moved in it (9% of what was effective is no less), and
`Unlimited` that all epochs in the history were so; `LargeCluster` says of the background
that this is so even if all the supply of the modelled accounts moved at once. `Roomy`,
`Unsaturated` and `RoomyCluster` say in the same way that the products of the allowance fit
a u128. With the real numbers they do: some 6 * 10^17 lamports exist, and even one account
with all of them, all effective, would have a product (the square times 900) below 2^128,
though not by much.

**The loops** (`StakeActivationProofs`). The allowance is within the account's portion
whatever saturates (`AllowanceBounded`); after n iterations the warmup loop has activated at
least n lamports, or everything, and never more (`WarmupBounded`); the cooldown loop has
taken at least n lamports off, or everything (`CooldownBounded`); a status is within its
delegation (`StatusBounded`). The loops are recursive functions, and the induction over
their iterations is done by well-foundedness of `<` on numbers (`BoundedInduction`). One
entry more at the end of the history is one iteration more and changes no earlier one
(`StatusAdvances`), which is all that the theorems about epochs need to know of the loops.
Where no epoch limits an account one iteration does everything (`StatusWhole`). In general
two delegations with the same epochs and one that has both their amounts go through the
same iterations, and what is left of the two together after one of them differs from what
is left of the whole by at most one lamport more than before, whether a share was rounded
down or clamped to one lamport (`Near`). That is `StatusShared`.

**The invariant** (`StakeProgramProofs`). `Invariance` is `Spec => []Inv`. `Inv` is the
types, `VotesInOrder` (one record per epoch, so credits stay within u64) and, of each
account, `Sound` and `Backed`. None of the properties is inductive by itself. That Split of
idle stake may copy a delegation without backing it needs that an idle delegation is
deactivated; this needs its status to be all effective or activating until then
(`StatusOK`), which needs the bound of the warmup loop, and epochs in order. That a merged
stake fits u64 needs the minimum delegation, for the average to be defined
(`AbsorbInRange`). The proof has a lemma per action; `WriteOK` and its two-account and
lamport-moving companions reduce each to the states it writes. The sum over accounts that
an epoch ends with is a fold that chooses an order; its typing is proved for finite sets.

**Locks** (`StakeReserveProofs`). `ReserveKept(r, cooling)`: every account with authorities
holds `r` besides what is locked in it. It is inductive, given `Inv`, for every `r` that no
value of rent is below, and is used three times: with the constant rent and all locks for
`LocksCovered`; with `r = 0` for `EffectiveStakeBacked`, whatever rent does; with the
constant rent and only the delegations in force for `MoveStakeCovered`, which then needs
nothing of deactivated stake. The instructions preserve it by what they check, but each in
its own terms: Split and MoveStake against the reserve, Withdraw against the status,
Deactivate and its rescission by `Backed`. The end of an epoch preserves it because
deactivated stake does not gain (`StatusAdvances`).

**Epochs** (`StakeEpochProofs`). Instructions never make up epochs: every delegation one of
them writes is new or continues one that was there (`Descends`, a lemma per action). So
what the history holds for the epochs of a delegation (`StartCounted` when it began,
`CoolCounted` when its deactivation began) need only be shown when an epoch ends and its
totals are entered, which count each account. From this the loops always find an entry to
iterate over, and the bounds of the loops give `ActivationEpochKept`, `CooldownKeepsOn` and
`EpochsAreMonotone`. For `OnlyDelinquentsForced` the invariant is `RecordsSorted`: no
record is later than the last one, so that comparing the last ones, as `tools.rs` does, is
the same as asking about epochs.

**Transactions** (`StakeTransactionProofs`). `ReadHonestly`: whatever list a client sends,
the keys that the operation read from it goes by are signers of the list, or derived from
one of them in the way the instructions with a seed do it (`Honest`); a lemma per function
of `StakeProcessor`. Each `Perform` of an honest operation is a step of `StakeProgram`
(`PerformImplements`), and what is pending is honest and within the inputs (`PendingOK`),
so a transaction is a sequence of steps of `StakeProgram` signed by its signers, and
`TransactionsKeepStake` follows from `Invariance`.

**Sums over accounts** (`StakeTotalsProofs`). A sum is a fold over an order that is chosen;
`TotalWithout`, `TotalInParts` and `TotalMonotone` make it a sum over a set, so that a step
that writes two accounts changes two terms of it.

* Custody: each instruction takes lamports off the terms of one account and puts them on
  those of another, or replaces the terms of one, with the consent that takes; lemmas about
  an account written, a movement, and both. In terms of `Holdings` these are `Transfer`s
  of the abstract specification, or nothing at all when the terms are the same.
* Pledges: what keys have delegated to a validator only falls by writes to accounts that
  the keys control, or by forced deactivation.
* Rewards: `CreditsKept`, no account has observed more credits than its validator has
  earned, is invariant; from it points are natural numbers. `Absorb` rounds the average of
  the credits observed up, so a merged stake is due no more than its parts
  (`AbsorbPaysNoMore`); stake that is not effective earns nothing, and stays so when it is
  written (`NotYetEffective`).
* Effective stake in an unlimited cluster: every status is all or nothing (`AllWhole`), so
  each instruction takes off one account what it gives to another, or touches none that is
  effective (`Balanced`, a lemma per action), and the sum does not change. That needs that
  the history has an entry with the stake of each account (`Counted`), that no delegation
  is of more than there is (`AmountsKept`, deactivated or not), and, for partial
  withdrawals and splits, `EffectiveStakeBacked`. For `LargeClustersKeepAll` the condition
  on the history is itself part of the induction: what an epoch's totals add to the
  background is at most the lamports there are, because what is effective or activating is
  backed.
* Effective stake in any cluster: of the instructions only Split, of an active stake, can
  raise what votes for a validator (`StatusShared`); merges and MoveStake put stake into a
  delegation of the same class, or all into one that is not effective yet, and the others
  write a delegation that is not effective in this epoch, or is the old one. In
  `EffectiveRaisedLittle` the bound is the lamports that one split may gain, one for each
  epoch. There is no bound the other way (see `RoundingSlack`).

**Access** (`StakeTotalsProofs`). The invariants of `StakeAccess` are about `ENABLED`, which
the provers cannot reason about. Their core can be said without it: `FundsCanLeave` names
the step (these lamports, this data, sysvars unchanged) and proves that it is a `Perform` of
the withdrawal; so do `StakeCanChange` and `AuthoritiesCanPass` for deactivation,
delegation, handing on an authority and changing the lockup. `FundsCanLeave` needs that
locks are covered, which is why that is an invariant worth having. Together with
`DelegationAsMeant`, `AuthorityAsMeant`, `LockupAsMeant`, `LamportsAsMeant` and the theorems
about the client, by which the instructions of both libraries are read as just these
operations, this is what the invariants of `StakeAccess` check. `FreedInTime` adds that an
account that has been deactivated long enough has nothing locked: with `FundsCanLeave`, its
withdrawer can take all of it.

**The interface** (`StakeInterfaceProofs`, `StakeClientProofs`). What the builders of the
interface crate build, the processor reads as what was meant, for all keys and arguments:
`CreationAsMeant`, `DelegationAsMeant`, `AuthorityAsMeant`, `SeedAsMeant`, `LockupAsMeant`,
`LamportsAsMeant`. In particular the signers of the operation are exactly the keys that
were named as such, and the custodian is the one named, or none. Both halves of the
generated client build those instructions, whichever setters were called and with whatever
arguments, and panic exactly when a required field is missing: `CreationAgrees`,
`DelegationAgrees`, `AuthorityAgrees`, `LamportsAgree`. Assumed of the caller (`Usual`): no
accounts are added to the list, and a sysvar that is set is that sysvar; for `unused` of
DelegateStake, whose place in the list the processor of the old layout skips as the config
account, that it is the config.

A key may be named twice, and flags are merged, so what the processor finds at a place of
the list depends on all of the list: the `Read`*n* lemmas say once what that is for lists
of *n* accounts, the `Optional` and `Appended` lemmas how an optional account at the end
changes it, and the lemma of each builder follows from these by position. That keys are not
sysvars (`AccountConstants`) is what tells the layouts apart, and is needed in each.

**Model-checked only.** `EffectiveFixedInEpoch` in a cluster whose rate does limit
accounts: it is not true for all constants (see `RoundingSlack`); proved are that it holds
exactly where nothing is limited, and one direction everywhere. Out of the prover's reach
and left to TLC for good: liveness (`DeactivatedIsFreed`; its safety half is `FreedInTime`);
`ENABLED` (`FundsReachable`, `StakeReachable`, `RegroupingReachable`,
`AuthoritiesReplaceable`, `CreationsFinish`; the first two and the fourth have the theorems
above for a core, and the last depends on the transactions that a run submits); and the
value of recursive definitions for every input.

## Not modelled

* The account decoders of the generated client; the JavaScript client. Of a call from a
  program, the account list is modelled and the program that makes it is not.
* Serialisation (borsh, bincode, wincode) and error codes; the entrypoint.
* The floating-point activation functions and the `StakeState` of version 1, which the
  program does not call.
* The deprecated stake config, which the program only skips in account lists.
* Payment of rewards and slashing, which happen in the runtime.
* The IDL, code generation and CI.

## Plan

Done, in this order: activation, meta, state, program, properties, runs, invariance;
then account lists, builders, processor, client, transactions, custody, access, liveness
under fairness, history of few entries, and the theorems about the builders and the
client; then the theorems about locks, epochs, delinquency, transactions, custody, pledges
and rewards; then effective stake within an epoch, and what authorities can do.

Left:

1. A bound on what a merge takes off the effective stake, in terms of the ratio of the two
   amounts: `RoundingSlack` as a function of the minimum delegation.
2. `Submitted` for the two libraries at once: an instruction that either builds is in it
   when it is among the inputs of `StakeProgram`.
3. Merge, MoveStake and MoveLamports between any two accounts, as `RegroupingReachable`
   asks, without `ENABLED`.
4. What a change of lockup leaves of the times it does not name. `TransactionTypeOK` and
   `AuthoritiesReplaceable` cover the custodian only: a time reset to another is well-typed.
