--------------------------- MODULE StakeReserveProofs ---------------------------
(***************************************************************************)
(* A stake account keeps its rent and its locked stake: theorems about the *)
(* balances of StakeProgram for every value of the constants.              *)
(*                                                                         *)
(* ReserveKept says that every account with authorities holds r lamports   *)
(* besides its locked stake.  It is inductive for every r that no value of *)
(* rent is below, given Inv: with r the rent itself, while that is         *)
(* constant, or 0, when it changes.  Stake that is not deactivated is      *)
(* locked as a whole; cooling says whether what is still effective of      *)
(* deactivated stake counts too, which takes WarmedUpInTime to preserve.   *)
(***************************************************************************)
EXTENDS StakeProgramProofs

Lock(cooling, state) ==
    IF state.kind # "Stake" THEN 0
    ELSE IF state.stake.deactivation_epoch = Never THEN state.stake.stake
    ELSE IF cooling
         THEN StakeActivatingAndDeactivating(state.stake, history,
                                             clock.epoch).effective
         ELSE 0

Covers(r, cooling, state, balance) ==
    HasMeta(state) => balance >= r + Lock(cooling, state)

ReserveKept(r, cooling) ==
    /\ rent \in RentValues
    /\ \A a \in Accounts : Covers(r, cooling, data[a], lamports[a])

\* Rent is never free, and never below r.
Baseline(r) ==
    /\ r \in Nat
    /\ \A value \in RentValues : value # 0 /\ r <= value

-----------------------------------------------------------------------------
(* Locks.                                                                  *)

\* The status of a Sound state, and what of it is locked.
LEMMA SoundLock ==
  ASSUME Inv, NEW state, Sound(state, clock.epoch), NEW cooling
  PROVE  /\ Lock(cooling, state) \in Nat
         /\ state.kind # "Stake" => Lock(cooling, state) = 0
         /\ state.kind = "Stake" =>
               /\ state.stake.stake \in Nat
               /\ Lock(cooling, state) <= state.stake.stake
<1>1. CASE state.kind # "Stake"
  BY <1>1 DEF Lock
<1>2. CASE state.kind = "Stake"
  <2>. DEFINE d == state.stake
              effective == StakeActivatingAndDeactivating(d, history,
                                                          clock.epoch).effective
  <2>1. d \in Stake
    BY <1>2, StakeData DEF Sound
  <2>2. IsDelegation(d)
    BY <2>1, NumbersOK DEF Stake, IsDelegation
  <2>3. IsHistory(history) /\ clock.epoch \in Nat
    BY DEF Inv, SysvarsOK, IsHistory, Clock
  <2>4. effective \in 0..d.stake
    BY <2>2, <2>3, StatusBounded
  <2>5. d.stake \in Nat
    BY <2>2 DEF IsDelegation
  <2>6. Lock(cooling, state) \in {d.stake, effective, 0}
    BY <1>2 DEF Lock
  <2>. HIDE DEF effective, d
  <2>7. Lock(cooling, state) \in Nat /\ Lock(cooling, state) <= d.stake
    BY <2>4, <2>5, <2>6
  <2>. QED
    BY <1>2, <2>5, <2>7 DEF d
<1>. QED
  BY <1>1, <1>2

\* What an account holds, locks and owes for rent.
LEMMA HeldOK ==
  ASSUME Inv, NEW r, Baseline(r), NEW cooling, ReserveKept(r, cooling),
         NEW a \in Accounts
  PROVE  /\ r \in Nat /\ rent \in Nat /\ rent # 0 /\ r <= rent
         /\ lamports[a] \in Nat
         /\ data[a] \in AccountData /\ Sound(data[a], clock.epoch)
         /\ Lock(cooling, data[a]) \in Nat
         /\ Covers(r, cooling, data[a], lamports[a])
<1>1. /\ lamports[a] \in Nat /\ rent \in Nat
      /\ data[a] \in AccountData /\ Sound(data[a], clock.epoch)
  BY AccountOK
<1>2. Lock(cooling, data[a]) \in Nat
  BY <1>1, SoundLock
<1>. QED
  BY <1>1, <1>2 DEF Baseline, ReserveKept

\* LockedStake, which Withdraw and DelegateStake go by, is the lock with what
\* is cooling down.
LEMMA LockedStakeIsLock ==
  ASSUME Inv, NEW a \in Accounts
  PROVE  LockedStake(a) = Lock(TRUE, data[a])
<1>1. CASE IsStake(a)
  <2>1. LET d == data[a].stake
        IN  /\ d.activation_epoch \in Nat
            /\ d.deactivation_epoch \in {Never} \cup d.activation_epoch..clock.epoch
            /\ clock.epoch \in Nat /\ clock.epoch < Never
    BY <1>1, DelegationOK DEF IsDelegation
  <2>2. Never \in Nat
    BY NumbersOK DEF Never
  <2>3. clock.epoch >= data[a].stake.deactivation_epoch
          <=> data[a].stake.deactivation_epoch # Never
    BY <2>1, <2>2
  <2>. QED
    BY <1>1, <2>3 DEF LockedStake, Lock, Status, IsStake
<1>2. CASE ~IsStake(a)
  BY <1>2 DEF LockedStake, Lock, IsStake
<1>. QED
  BY <1>1, <1>2

\* The lock is the same or lower when stake that cools down is not counted.
LEMMA LockOfCooling ==
  ASSUME Inv, NEW state, Sound(state, clock.epoch), NEW cooling \in BOOLEAN
  PROVE  Lock(cooling, state) <= Lock(TRUE, state)
<1>. DEFINE some == Lock(cooling, state)
            all == Lock(TRUE, state)
<1>1. all \in Nat
  BY SoundLock
<1>2. some = 0 \/ some = all
  BY DEF Lock
<1>3. some <= all
  <2>. HIDE DEF some, all
  <2>. QED
    BY <1>1, <1>2
<1>. QED
  BY <1>3

\* What is neither effective nor activating is not locked.
LEMMA IdleIsFree ==
  ASSUME Inv, NEW a \in Accounts, NEW cooling,
         ~IsActiveOrActivating(a)
  PROVE  Lock(cooling, data[a]) = 0
<1>1. CASE IsStake(a)
  <2>1. data[a].stake.deactivation_epoch # Never
    BY <1>1, IdleIsDeactivated
  <2>2. Status(a).effective = 0
    BY <1>1, StatusOK DEF IsActiveOrActivating
  <2>. QED
    BY <2>1, <2>2 DEF Lock, Status
<1>2. CASE ~IsStake(a)
  BY <1>2 DEF Lock, IsStake
<1>. QED
  BY <1>1, <1>2

\* Neither is stake of the kind Inactive.
LEMMA InactiveIsFree ==
  ASSUME Inv, NEW a \in Accounts, HasMeta(data[a]), Kind(a) = "Inactive",
         NEW cooling
  PROVE  Lock(cooling, data[a]) = 0
<1>1. CASE IsStake(a)
  BY <1>1, KindOK DEF Lock, Status
<1>2. CASE ~IsStake(a)
  BY <1>2 DEF Lock, IsStake
<1>. QED
  BY <1>1, <1>2

-----------------------------------------------------------------------------
(* Writing accounts.                                                       *)

\* An instruction that writes one account and moves nothing.
LEMMA KeptByWrite ==
  ASSUME Inv, NEW r, NEW cooling, ReserveKept(r, cooling),
         NEW a \in Accounts, NEW state, Covers(r, cooling, state, lamports[a]),
         SetState(a, state), UNCHANGED <<lamports, sysvars>>
  PROVE  ReserveKept(r, cooling)'
<1>1. \A b \in Accounts : data'[b] = IF b = a THEN state ELSE data[b]
  BY DEF Inv, AccountsOK, SetState
<1>2. UNCHANGED <<lamports, history, clock, rent>>
  BY DEF sysvars
<1>. QED
  BY <1>1, <1>2 DEF ReserveKept, Covers, Lock

\* Lamports go from one holder to another; either may be an account that is
\* written as well.
LEMMA KeptByTransfer ==
  ASSUME Inv, NEW r, NEW cooling, ReserveKept(r, cooling),
         NEW from \in Holders, NEW to \in Holders, from # to, NEW n \in Nat,
         Relocate(from, to, n), NEW source, NEW target,
         data' = [b \in Accounts |-> IF b = to THEN target
                                     ELSE IF b = from THEN source ELSE data[b]],
         to \in Accounts => Covers(r, cooling, target, lamports[to] + n),
         from \in Accounts => Covers(r, cooling, source, lamports[from] - n),
         UNCHANGED sysvars
  PROVE  ReserveKept(r, cooling)'
<1>1. lamports' = [lamports EXCEPT ![from] = lamports[from] - n,
                                   ![to] = lamports[to] + n]
  BY DEF Relocate
<1>2. \A b \in Holders : lamports'[b] = IF b = to THEN lamports[to] + n
                                        ELSE IF b = from THEN lamports[from] - n
                                        ELSE lamports[b]
  BY <1>1 DEF Inv, AccountsOK
<1>3. UNCHANGED <<history, clock, rent>>
  BY DEF sysvars
<1>4. \A b \in Accounts : Covers(r, cooling, data'[b], lamports'[b])
  <2>. SUFFICES ASSUME NEW b \in Accounts
                PROVE  Covers(r, cooling, data'[b], lamports'[b])
    OBVIOUS
  <2>1. b \in Holders /\ Covers(r, cooling, data[b], lamports[b])
    BY DEF Holders, ReserveKept
  <2>. QED
    BY <1>2, <2>1
<1>. QED
  BY <1>3, <1>4 DEF ReserveKept, Covers, Lock

\* Lamports that come in leave an account covered.
LEMMA CoveredByMore ==
  ASSUME Inv, NEW r, Baseline(r), NEW cooling, ReserveKept(r, cooling),
         NEW a \in Accounts, NEW n \in Nat
  PROVE  Covers(r, cooling, data[a], lamports[a] + n)
BY HeldOK DEF Covers

\* Lamports that go from one holder to another and leave all data as it is.
LEMMA KeptByMoving ==
  ASSUME Inv, NEW r, Baseline(r), NEW cooling, ReserveKept(r, cooling),
         NEW from \in Holders, NEW to \in Holders, from # to, NEW n \in Nat,
         Relocate(from, to, n), UNCHANGED <<data, sysvars>>,
         from \in Accounts => Covers(r, cooling, data[from], lamports[from] - n)
  PROVE  ReserveKept(r, cooling)'
<1>1. data' = [b \in Accounts |-> IF b = to THEN data[to]
                                  ELSE IF b = from THEN data[from] ELSE data[b]]
  BY DEF Inv, AccountsOK
<1>2. to \in Accounts => Covers(r, cooling, data[to], lamports[to] + n)
  BY CoveredByMore
<1>. QED
  BY <1>1, <1>2, KeptByTransfer

\* Data without authorities is always covered.
LEMMA CoveredIfNoMeta ==
  ASSUME NEW r, NEW cooling, NEW balance
  PROVE  /\ Covers(r, cooling, Closed, balance)
         /\ Covers(r, cooling, NoAccount, balance)
         /\ Covers(r, cooling, Uninitialized, balance)
BY DEF Covers, HasMeta, Closed, NoAccount, Uninitialized

-----------------------------------------------------------------------------
(* Instructions that write one account.                                    *)

\* An account is initialized only when it holds the rent.
LEMMA InitializeCovers ==
  ASSUME Inv, NEW r, Baseline(r), NEW cooling, ReserveKept(r, cooling),
         NEW a \in Accounts, NEW staker, NEW withdrawer, NEW lockup,
         DoInitialize(a, staker, withdrawer, lockup)
  PROVE  ReserveKept(r, cooling)'
<1>. DEFINE state == Initialized([staker |-> staker, withdrawer |-> withdrawer,
                                  lockup |-> lockup])
<1>1. lamports[a] >= rent /\ SetState(a, state) /\ UNCHANGED <<lamports, sysvars>>
  BY DEF DoInitialize
<1>2. Lock(cooling, state) = 0
  BY DEF Lock, Initialized
<1>. HIDE DEF state
<1>3. Covers(r, cooling, state, lamports[a])
  BY <1>1, <1>2, HeldOK DEF Covers
<1>. QED
  BY <1>1, <1>3, KeptByWrite

\* A new Meta locks nothing else.
LEMMA MetaWriteCovers ==
  ASSUME Inv, NEW r, NEW cooling, ReserveKept(r, cooling),
         NEW a \in Accounts, HasMeta(data[a]), NEW meta,
         SetState(a, [data[a] EXCEPT !.meta = meta]), UNCHANGED <<lamports, sysvars>>
  PROVE  ReserveKept(r, cooling)'
<1>. DEFINE state == [data[a] EXCEPT !.meta = meta]
<1>1. state.kind = data[a].kind /\ (state.kind = "Stake" => state.stake = data[a].stake)
  <2>1. data[a] \in AccountData
    BY AccountOK
  <2>2. CASE data[a].kind = "Stake"
    BY <2>1, <2>2, StakeData
  <2>3. CASE data[a].kind = "Initialized"
    BY <2>1, <2>3 DEF AccountData, StakeStateV2, Uninitialized, NoAccount, Closed
  <2>. QED
    BY <2>2, <2>3 DEF HasMeta
<1>. HIDE DEF state
<1>2. Lock(cooling, state) = Lock(cooling, data[a])
  BY <1>1 DEF Lock
<1>3. Covers(r, cooling, state, lamports[a])
  BY <1>1, <1>2 DEF ReserveKept, Covers, HasMeta
<1>. QED
  BY <1>3, KeptByWrite DEF state

\* The forms of Authorize only write the Meta.
LEMMA AuthorizeCovers ==
  ASSUME Inv, NEW r, NEW cooling, ReserveKept(r, cooling),
         NEW a \in Accounts, NEW signers, NEW new, NEW who, NEW custodian,
         DoAuthorize(a, signers, new, who, custodian)
  PROVE  ReserveKept(r, cooling)'
<1>. DEFINE meta == WithAuthority(data[a].meta, who, new)
<1>1. HasMeta(data[a]) /\ UNCHANGED <<lamports, sysvars>>
      /\ SetState(a, [data[a] EXCEPT !.meta = meta])
  BY DEF DoAuthorize
<1>. HIDE DEF meta
<1>. QED
  BY <1>1, MetaWriteCovers

\* So do SetLockup and SetLockupChecked.
LEMMA SetLockupCovers ==
  ASSUME Inv, NEW r, NEW cooling, ReserveKept(r, cooling),
         NEW a \in Accounts, NEW signers, NEW args, DoSetLockup(a, signers, args)
  PROVE  ReserveKept(r, cooling)'
<1>. DEFINE meta == WithLockup(data[a].meta, args)
<1>1. HasMeta(data[a]) /\ UNCHANGED <<lamports, sysvars>>
      /\ SetState(a, [data[a] EXCEPT !.meta = meta])
  BY DEF DoSetLockup
<1>. HIDE DEF meta
<1>. QED
  BY <1>1, MetaWriteCovers

\* A delegation, new or rescinded, leaves the rent besides.
LEMMA DelegateCovers ==
  ASSUME Inv, NEW r, Baseline(r), NEW cooling, ReserveKept(r, cooling),
         NEW S, NEW a \in Accounts, NEW v, Delegate(S, a, v)
  PROVE  ReserveKept(r, cooling)'
<1>. DEFINE amount == SatSub(lamports[a], rent)
            fresh == NewStake(amount, v, Credits(v), clock.epoch)
            rescinded == [data[a] EXCEPT !.stake.deactivation_epoch = Never]
<1>1. /\ amount >= MinimumDelegation /\ UNCHANGED <<lamports, sysvars>>
      /\ \/ SetState(a, Staked(data[a].meta, fresh))
         \/ /\ IsStake(a) /\ amount >= data[a].stake.stake
            /\ SetState(a, rescinded)
  BY DEF Delegate, MayRescind
<1>2. /\ lamports[a] \in Nat /\ rent \in Nat /\ r \in Nat /\ r <= rent
      /\ data[a] \in AccountData
  BY HeldOK
<1>3. amount \in Nat /\ lamports[a] >= r + amount
  BY <1>1, <1>2, NumbersOK DEF SatSub
<1>4. CASE SetState(a, Staked(data[a].meta, fresh))
  <2>1. Lock(cooling, Staked(data[a].meta, fresh)) = amount
    BY DEF Lock, Staked, NewStake
  <2>. HIDE DEF amount, fresh
  <2>2. Covers(r, cooling, Staked(data[a].meta, fresh), lamports[a])
    BY <1>3, <2>1 DEF Covers
  <2>. QED
    BY <1>1, <1>4, <2>2, KeptByWrite
<1>5. CASE IsStake(a) /\ amount >= data[a].stake.stake /\ SetState(a, rescinded)
  <2>1. data[a].stake \in Stake
        /\ data[a] = [kind |-> "Stake", meta |-> data[a].meta,
                      stake |-> data[a].stake]
    BY <1>2, <1>5, StakeData DEF IsStake
  <2>2. data[a].stake.stake \in Nat
    BY <2>1, NumbersOK DEF Stake
  <2>3. Lock(cooling, rescinded) = data[a].stake.stake
    BY <2>1 DEF Lock, Stake
  <2>. HIDE DEF amount, rescinded
  <2>4. Covers(r, cooling, rescinded, lamports[a])
    BY <1>2, <1>3, <1>5, <2>2, <2>3 DEF Covers
  <2>. QED
    BY <1>1, <1>5, <2>4, KeptByWrite
<1>. QED
  BY <1>1, <1>4, <1>5

\* A deactivation releases stake, or keeps as much of it locked.
LEMMA DeactivateCovers ==
  ASSUME Inv, Inv', NEW r, Baseline(r), NEW cooling, ReserveKept(r, cooling),
         NEW a \in Accounts, IsStake(a), DoDeactivate(a)
  PROVE  ReserveKept(r, cooling)'
<1>. DEFINE state == [data[a] EXCEPT !.stake.deactivation_epoch = clock.epoch]
<1>1. /\ data[a].stake.deactivation_epoch = Never
      /\ SetState(a, state) /\ UNCHANGED <<lamports, sysvars>>
  BY DEF DoDeactivate
<1>2. /\ lamports[a] \in Nat /\ r \in Nat
      /\ data[a] \in AccountData
      /\ Covers(r, cooling, data[a], lamports[a])
  BY HeldOK
<1>3. data[a] = [kind |-> "Stake", meta |-> data[a].meta, stake |-> data[a].stake]
      /\ data[a].stake \in Stake
  BY <1>2, StakeData DEF IsStake
<1>4. state.kind = "Stake" /\ state.stake.stake = data[a].stake.stake
  BY <1>3 DEF Stake
<1>5. Sound(state, clock.epoch)
  <2>1. data'[a] = state
    BY <1>1 DEF SetState, Inv, AccountsOK
  <2>2. Sound(data'[a], clock'.epoch) /\ clock' = clock
    BY <1>1 DEF Inv, AccountsOK, sysvars
  <2>. QED
    BY <2>1, <2>2
<1>6. lamports[a] >= r + data[a].stake.stake
  BY <1>1, <1>2 DEF Covers, Lock, HasMeta, IsStake
<1>. HIDE DEF state
<1>7. /\ Lock(cooling, state) \in Nat /\ Lock(cooling, state) <= data[a].stake.stake
      /\ data[a].stake.stake \in Nat
  BY <1>4, <1>5, SoundLock
<1>8. Covers(r, cooling, state, lamports[a])
  BY <1>2, <1>6, <1>7 DEF Covers
<1>. QED
  BY <1>1, <1>8, KeptByWrite

-----------------------------------------------------------------------------
(* Instructions that move lamports.                                        *)

\* A full split moves the lock with all that covers it.
LEMMA SplitFullCovers ==
  ASSUME Inv, NEW r, Baseline(r), NEW cooling, ReserveKept(r, cooling),
         NEW S, NEW from \in Accounts, NEW to \in Accounts, NEW n \in Nat,
         SplitFull(S, from, to, n)
  PROVE  ReserveKept(r, cooling)'
<1>1. /\ from # to /\ n = lamports[from]
      /\ Relocate(from, to, n)
      /\ SetStates(to, data[from], from, Closed)
      /\ UNCHANGED sysvars
  BY DEF SplitFull, SplitChecks
<1>2. data' = [b \in Accounts |-> IF b = to THEN data[from]
                                  ELSE IF b = from THEN Closed ELSE data[b]]
  BY <1>1 DEF SetStates, Inv, AccountsOK
<1>3. /\ lamports[to] \in Nat /\ r \in Nat /\ Lock(cooling, data[from]) \in Nat
      /\ Covers(r, cooling, data[from], lamports[from])
  BY HeldOK
<1>4. Covers(r, cooling, data[from], lamports[to] + n)
  BY <1>1, <1>3 DEF Covers
<1>5. from \in Holders /\ to \in Holders
  BY AccountOK
<1>6. Covers(r, cooling, Closed, lamports[from] - n)
  BY CoveredIfNoMeta
<1>. QED
  BY <1>1, <1>2, <1>4, <1>5, <1>6, KeptByTransfer

\* Stake that is split while inactive locks nothing, and both sides have rent.
LEMMA SplitInactiveCovers ==
  ASSUME Inv, NEW r, Baseline(r), NEW cooling, ReserveKept(r, cooling),
         NEW S, NEW from \in Accounts, NEW to \in Accounts, NEW n \in Nat,
         SplitInactive(S, from, to, n)
  PROVE  ReserveKept(r, cooling)'
<1>1. /\ from # to /\ ~IsActiveOrActivating(from)
      /\ lamports[from] - n >= rent /\ lamports[to] + n >= rent
      /\ Relocate(from, to, n)
      /\ SetState(to, data[from])
      /\ UNCHANGED sysvars
  BY DEF SplitInactive, SplitChecks
<1>2. data' = [b \in Accounts |-> IF b = to THEN data[from]
                                  ELSE IF b = from THEN data[from] ELSE data[b]]
  BY <1>1 DEF SetState, Inv, AccountsOK
<1>3. /\ lamports[from] \in Nat /\ lamports[to] \in Nat
      /\ r \in Nat /\ rent \in Nat /\ r <= rent
      /\ from \in Holders /\ to \in Holders
  BY HeldOK, AccountOK
<1>4. Lock(cooling, data[from]) = 0
  BY <1>1, IdleIsFree
<1>5. /\ Covers(r, cooling, data[from], lamports[from] - n)
      /\ Covers(r, cooling, data[from], lamports[to] + n)
  BY <1>1, <1>3, <1>4 DEF Covers
<1>. QED
  BY <1>1, <1>2, <1>3, <1>5, KeptByTransfer

\* The lock of a delegation with another amount is at most that amount.
LEMMA LockOfAmount ==
  ASSUME Inv, NEW state, Sound(state, clock.epoch), state.kind = "Stake",
         NEW amount \in U64, amount >= MinimumDelegation, NEW cooling
  PROVE  LET changed == [state EXCEPT !.stake.stake = amount]
         IN  Lock(cooling, changed) \in 0..amount
<1>. DEFINE changed == [state EXCEPT !.stake.stake = amount]
<1>1. state \in AccountData
  BY DEF Sound
<1>2. Sound(changed, clock.epoch)
  BY <1>1, AmountReplaced
<1>3. changed.kind = "Stake" /\ changed.stake.stake = amount
  <2>1. /\ state = [kind |-> "Stake", meta |-> state.meta, stake |-> state.stake]
        /\ state.stake \in Stake
    BY <1>1, StakeData
  <2>. QED
    BY <2>1 DEF Stake
<1>. HIDE DEF changed
<1>4. Lock(cooling, changed) \in Nat /\ Lock(cooling, changed) <= amount
  BY <1>2, <1>3, SoundLock
<1>5. amount \in Nat
  BY NumbersOK
<1>. QED
  BY <1>4, <1>5 DEF changed

\* A partial split of active stake leaves both sides their rent besides the
\* delegation: the source because its sanity check would refuse anything else.
LEMMA SplitActiveCovers ==
  ASSUME Inv, NEW r, Baseline(r), NEW cooling, ReserveKept(r, cooling),
         NEW S, NEW from \in Accounts, NEW to \in Accounts, NEW n \in Nat,
         SplitActive(S, from, to, n)
  PROVE  ReserveKept(r, cooling)'
<1>. DEFINE rest == data[from].stake.stake - n
            source == [data[from] EXCEPT !.stake.stake = @ - n]
            target == [data[from] EXCEPT !.stake.stake = n]
<1>1. /\ from # to /\ IsStake(from)
      /\ rest >= MinimumDelegation /\ n >= MinimumDelegation
      /\ data[from].stake.stake >= n
      /\ lamports[to] >= rent
      /\ SatSub(lamports[from] - n, rest) >= rent
      /\ Relocate(from, to, n)
      /\ SetStates(from, source, to, target)
      /\ UNCHANGED sysvars
  BY DEF SplitActive, SplitChecks, SplitLeavesSourceExempt, IsActiveOrActivating
<1>2. data' = [b \in Accounts |-> IF b = to THEN target
                                  ELSE IF b = from THEN source ELSE data[b]]
  BY <1>1 DEF SetStates, Inv, AccountsOK
<1>3. /\ lamports[from] \in Nat /\ lamports[to] \in Nat
      /\ r \in Nat /\ rent \in Nat /\ rent # 0 /\ r <= rent
      /\ Sound(data[from], clock.epoch) /\ data[from].kind = "Stake"
      /\ data[from] \in AccountData
      /\ from \in Holders /\ to \in Holders
  BY <1>1, HeldOK, AccountOK DEF IsStake
<1>4. data[from].stake.stake \in U64
  BY <1>3, StakeData DEF Stake, Lamports
<1>5. rest \in U64 /\ n \in U64 /\ rest \in Nat
  BY <1>1, <1>4, NumbersOK DEF U64
<1>6. source = [data[from] EXCEPT !.stake.stake = rest]
  OBVIOUS
<1>7. Lock(cooling, source) \in 0..rest /\ Lock(cooling, target) \in 0..n
  <2>. HIDE DEF rest
  <2>. QED
    BY <1>1, <1>3, <1>5, <1>6, LockOfAmount
<1>8. lamports[from] - n >= rent + rest
  <2>. HIDE DEF rest
  <2>. QED
    BY <1>1, <1>3, <1>5 DEF SatSub
<1>. HIDE DEF rest, source, target
<1>9. /\ Covers(r, cooling, source, lamports[from] - n)
      /\ Covers(r, cooling, target, lamports[to] + n)
  BY <1>1, <1>3, <1>5, <1>7, <1>8 DEF Covers
<1>. QED
  BY <1>1, <1>2, <1>3, <1>9, KeptByTransfer

\* A full withdrawal closes the account.
LEMMA WithdrawAllCovers ==
  ASSUME Inv, NEW r, Baseline(r), NEW cooling, ReserveKept(r, cooling),
         NEW S, NEW a \in Accounts, NEW to \in Holders, NEW custodian,
         WithdrawAll(S, a, to, custodian)
  PROVE  ReserveKept(r, cooling)'
<1>1. /\ a # to /\ SetState(a, Closed) /\ UNCHANGED sysvars
      /\ Relocate(a, to, lamports[a])
  BY DEF WithdrawAll
<1>2. data' = [b \in Accounts |-> IF b = to THEN data[to]
                                  ELSE IF b = a THEN Closed ELSE data[b]]
  BY <1>1 DEF SetState, Inv, AccountsOK
<1>3. lamports[a] \in Nat /\ a \in Holders
  BY AccountOK
<1>4. to \in Accounts => Covers(r, cooling, data[to], lamports[to] + lamports[a])
  BY <1>3, CoveredByMore
<1>. QED
  BY <1>1, <1>2, <1>3, <1>4, CoveredIfNoMeta, KeptByTransfer

\* A partial withdrawal leaves the rent and LockedStake.
LEMMA WithdrawPartCovers ==
  ASSUME Inv, NEW r, Baseline(r), NEW cooling \in BOOLEAN, ReserveKept(r, cooling),
         NEW S, NEW a \in Accounts, NEW to \in Holders, NEW n \in Nat,
         NEW custodian, WithdrawPart(S, a, to, n, custodian)
  PROVE  ReserveKept(r, cooling)'
<1>1. /\ a # to /\ Relocate(a, to, n) /\ UNCHANGED <<data, sysvars>>
      /\ n + (IF HasMeta(data[a]) THEN LockedStake(a) + rent ELSE 0) <= lamports[a]
  BY DEF WithdrawPart
<1>2. /\ lamports[a] \in Nat /\ r \in Nat /\ rent \in Nat /\ r <= rent
      /\ Sound(data[a], clock.epoch) /\ a \in Holders
      /\ Lock(cooling, data[a]) \in Nat
  BY HeldOK, AccountOK
<1>3. Lock(cooling, data[a]) <= LockedStake(a) /\ LockedStake(a) \in Nat
  BY <1>2, LockedStakeIsLock, LockOfCooling, SoundLock
<1>4. Covers(r, cooling, data[a], lamports[a] - n)
  <2>. SUFFICES ASSUME HasMeta(data[a])
                PROVE  lamports[a] - n >= r + Lock(cooling, data[a])
    BY DEF Covers
  <2>1. n + (LockedStake(a) + rent) <= lamports[a]
    BY <1>1
  <2>. QED
    BY <1>2, <1>3, <2>1
<1>. QED
  BY <1>1, <1>2, <1>4, KeptByMoving

\* MoveLamports takes what is free besides the delegation and the rent.
LEMMA MoveLamportsCovers ==
  ASSUME Inv, NEW r, Baseline(r), NEW cooling, ReserveKept(r, cooling),
         NEW S, NEW from \in Accounts, NEW to \in Accounts, NEW n \in Nat,
         MoveLamports(S, from, to, n)
  PROVE  ReserveKept(r, cooling)'
<1>1. /\ from # to /\ HasMeta(data[from]) /\ n > 0
      /\ Kind(from) \in {"FullyActive", "Inactive"} /\ n <= FreeLamports(from)
      /\ Relocate(from, to, n) /\ UNCHANGED <<data, sysvars>>
  BY DEF MoveLamports, MoveChecks, Mergeable
<1>2. /\ lamports[from] \in Nat /\ r \in Nat /\ rent \in Nat /\ r <= rent
      /\ Sound(data[from], clock.epoch)
      /\ from \in Holders /\ to \in Holders
  BY HeldOK, AccountOK
<1>3. CASE Kind(from) = "FullyActive"
  <2>1. data[from].kind = "Stake"
    BY <1>1, <1>3, KindOK DEF IsStake
  <2>2. /\ data[from].stake.stake \in Nat /\ Lock(cooling, data[from]) \in Nat
        /\ Lock(cooling, data[from]) <= data[from].stake.stake
    BY <1>2, <2>1, SoundLock
  <2>3. n <= SatSub(SatSub(lamports[from], data[from].stake.stake), rent)
    BY <1>1, <1>3 DEF FreeLamports
  <2>4. lamports[from] - n >= data[from].stake.stake + rent
    BY <1>1, <1>2, <2>2, <2>3 DEF SatSub
  <2>5. Covers(r, cooling, data[from], lamports[from] - n)
    BY <1>2, <2>2, <2>4 DEF Covers
  <2>. QED
    BY <1>1, <1>2, <2>5, KeptByMoving
<1>4. CASE Kind(from) = "Inactive"
  <2>1. n <= SatSub(lamports[from], rent)
    BY <1>1, <1>4 DEF FreeLamports
  <2>2. lamports[from] - n >= rent
    BY <1>1, <1>2, <2>1 DEF SatSub
  <2>3. Covers(r, cooling, data[from], lamports[from] - n)
    BY <1>1, <1>2, <1>4, <2>2, InactiveIsFree DEF Covers
  <2>. QED
    BY <1>1, <1>2, <2>3, KeptByMoving
<1>. QED
  BY <1>1, <1>3, <1>4

\* The lock of a delegation in force that absorbs stake.
LEMMA LockOfAbsorb ==
  ASSUME NEW state \in AccountData, state.kind = "Stake",
         state.stake.deactivation_epoch = Never, NEW absorbed, NEW credits,
         NEW cooling
  PROVE  Lock(cooling, [state EXCEPT !.stake = Absorb(@, absorbed, credits)])
           = state.stake.stake + absorbed
<1>. DEFINE stake == Absorb(state.stake, absorbed, credits)
            merged == [state EXCEPT !.stake = Absorb(@, absorbed, credits)]
<1>1. /\ state.stake \in Stake
      /\ state = [kind |-> "Stake", meta |-> state.meta, stake |-> state.stake]
  BY StakeData
<1>2. /\ stake.stake = state.stake.stake + absorbed
      /\ stake.deactivation_epoch = Never
  BY <1>1 DEF Absorb, Stake
<1>3. merged = [state EXCEPT !.stake = stake]
  OBVIOUS
<1>. HIDE DEF stake, merged
<1>4. merged.kind = "Stake" /\ merged.stake = stake
  BY <1>1, <1>3
<1>. QED
  BY <1>2, <1>4 DEF Lock, merged

\* Merge adds to the lock at most the lamports that come with the source.
LEMMA MergeCovers ==
  ASSUME Inv, NEW r, Baseline(r), NEW cooling, ReserveKept(r, cooling),
         NEW S, NEW from \in Accounts, NEW to \in Accounts, Merge(S, to, from)
  PROVE  ReserveKept(r, cooling)'
<1>. DEFINE dk == Kind(to)
            sk == Kind(from)
            held == lamports[from]
            target == Merged(data[to], dk, data[from], sk, held)
            absorbed == Absorbed(data[from], sk, held)
<1>1. /\ from # to /\ HasMeta(data[to]) /\ HasMeta(data[from])
      /\ KindsCanMerge(dk, sk)
      /\ (dk # "Inactive" /\ sk # "Inactive" =>
            ActiveDelegationsCanMerge(data[to].stake, data[from].stake))
      /\ Relocate(from, to, held) /\ UNCHANGED sysvars
      /\ SetStates(to, target, from, Closed)
  BY DEF Merge, Mergeable, CanMerge
<1>2. data' = [b \in Accounts |-> IF b = to THEN target
                                  ELSE IF b = from THEN Closed ELSE data[b]]
  BY <1>1 DEF SetStates, Inv, AccountsOK
<1>3. /\ r \in Nat /\ held \in Nat /\ lamports[to] \in Nat
      /\ data[to] \in AccountData /\ data[from] \in AccountData
      /\ Covers(r, cooling, data[to], lamports[to])
      /\ Backed(data[from], held)
      /\ from \in Holders /\ to \in Holders
  BY HeldOK, AccountOK
<1>4. Covers(r, cooling, target, lamports[to] + held)
  <2>1. CASE dk = "Inactive"
    <3>1. target = data[to]
      BY <2>1 DEF Merged
    <3>2. Covers(r, cooling, data[to], lamports[to] + held)
      BY <1>3, CoveredByMore
    <3>. HIDE DEF target, held
    <3>. QED
      BY <3>1, <3>2
  <2>2. CASE dk # "Inactive"
    <3>1. /\ IsStake(to) /\ data[to].kind = "Stake"
          /\ data[to].stake.deactivation_epoch = Never
      BY <1>1, <2>2, KindOK DEF IsStake, KindsCanMerge
    <3>2. data[to].stake \in Stake /\ data[to].stake.stake \in Nat
      BY <1>3, <3>1, StakeData, StatusOK
    <3>3. lamports[to] >= r + data[to].stake.stake
      BY <1>1, <1>3, <3>1 DEF Covers, Lock
    <3>4. absorbed \in Nat /\ absorbed <= held
      <4>1. CASE sk # "FullyActive"
        BY <1>3, <4>1 DEF Absorbed
      <4>2. CASE sk = "FullyActive"
        <5>1. /\ IsStake(from) /\ data[from].kind = "Stake"
              /\ data[from].stake.deactivation_epoch = Never
          BY <1>1, <4>2, KindOK DEF IsStake
        <5>2. data[from].stake.stake \in Nat /\ data[from].stake.stake <= held
          BY <1>3, <5>1, StatusOK DEF Backed
        <5>. QED
          BY <4>2, <5>2 DEF Absorbed
      <4>. QED
        BY <4>1, <4>2
    <3>5. Lock(cooling, target) = data[to].stake.stake + absorbed
      <4>1. CASE sk = "Inactive"
        <5>1. target = [data[to] EXCEPT !.stake.stake = data[to].stake.stake + held]
          BY <2>2, <4>1 DEF Merged
        <5>2. absorbed = held
          BY <4>1 DEF Absorbed
        <5>3. data[to] = [kind |-> "Stake", meta |-> data[to].meta,
                          stake |-> data[to].stake]
          BY <1>3, <3>1, StakeData
        <5>. HIDE DEF target, held, absorbed
        <5>4. /\ target.kind = "Stake"
              /\ target.stake = [data[to].stake EXCEPT
                                    !.stake = data[to].stake.stake + held]
          BY <5>1, <5>3
        <5>5. /\ target.stake.stake = data[to].stake.stake + held
              /\ target.stake.deactivation_epoch = Never
          BY <3>1, <3>2, <5>4 DEF Stake
        <5>. QED
          BY <5>2, <5>4, <5>5 DEF Lock
      <4>2. CASE sk # "Inactive"
        <5>1. target = [data[to] EXCEPT !.stake =
                          Absorb(@, absorbed, data[from].stake.credits_observed)]
          BY <2>2, <4>2 DEF Merged
        <5>. HIDE DEF target, absorbed
        <5>. QED
          BY <1>3, <3>1, <5>1, LockOfAbsorb
      <4>. QED
        BY <4>1, <4>2
    <3>. HIDE DEF target, absorbed, held
    <3>. QED
      BY <1>3, <3>2, <3>3, <3>4, <3>5 DEF Covers
  <2>. QED
    BY <2>1, <2>2
<1>5. Covers(r, cooling, Closed, held - held)
  BY CoveredIfNoMeta
<1>. HIDE DEF target
<1>. QED
  BY <1>1, <1>2, <1>3, <1>4, <1>5, KeptByTransfer

\* MoveStake leaves both sides their rent besides the delegation: each lock
\* follows the lamports, and a destination without one has the rent by then.
LEMMA MoveStakeCovers ==
  ASSUME Inv, NEW r, Baseline(r), NEW cooling, ReserveKept(r, cooling),
         NEW S, NEW from \in Accounts, NEW to \in Accounts, NEW n \in Nat,
         MoveStake(S, from, to, n)
  PROVE  ReserveKept(r, cooling)'
<1>. DEFINE rest == data[from].stake.stake - n
            source == Remainder(from, n)
            target == Moved(from, to, n)
<1>1. /\ from # to /\ HasMeta(data[to]) /\ HasMeta(data[from])
      /\ Kind(from) = "FullyActive"
      /\ data[from].stake.stake >= n
      /\ Kind(to) \in {"FullyActive", "Inactive"}
      /\ Relocate(from, to, n) /\ UNCHANGED sysvars
      /\ SetStates(to, target, from, source)
  BY DEF MoveStake, MoveStakeChecks, MoveChecks, Mergeable
<1>2. data' = [b \in Accounts |-> IF b = to THEN target
                                  ELSE IF b = from THEN source ELSE data[b]]
  BY <1>1 DEF SetStates, Inv, AccountsOK
<1>3. /\ r \in Nat /\ lamports[from] \in Nat /\ lamports[to] \in Nat
      /\ data[to] \in AccountData /\ data[from] \in AccountData
      /\ Covers(r, cooling, data[to], lamports[to])
      /\ Covers(r, cooling, data[from], lamports[from])
      /\ from \in Holders /\ to \in Holders
  BY HeldOK, AccountOK
<1>4. /\ IsStake(from) /\ data[from].kind = "Stake"
      /\ data[from].stake.deactivation_epoch = Never
  BY <1>1, KindOK DEF IsStake
<1>5. /\ data[from].stake \in Stake /\ data[from].stake.stake \in Nat
      /\ data[from] = [kind |-> "Stake", meta |-> data[from].meta,
                       stake |-> data[from].stake]
      /\ lamports[from] >= r + data[from].stake.stake
  BY <1>1, <1>3, <1>4, StakeData, StatusOK DEF Covers, Lock
<1>6. Lock(cooling, source) = rest
  <2>1. CASE rest = 0
    <3>1. source = Initialized(data[from].meta)
      BY <1>1, <1>5, <2>1 DEF Remainder
    <3>. HIDE DEF source, rest
    <3>. QED
      BY <2>1, <3>1 DEF Initialized, Lock
  <2>2. CASE rest # 0
    <3>1. source = [data[from] EXCEPT !.stake.stake = rest]
      BY <1>5, <2>2 DEF Remainder
    <3>. HIDE DEF source, rest
    <3>2. /\ source.kind = "Stake"
          /\ source.stake = [data[from].stake EXCEPT !.stake = rest]
      BY <1>5, <3>1
    <3>3. source.stake.stake = rest /\ source.stake.deactivation_epoch = Never
      BY <1>4, <1>5, <3>2 DEF Stake
    <3>. QED
      BY <3>2, <3>3 DEF Lock
  <2>. QED
    BY <2>1, <2>2
<1>7. Covers(r, cooling, source, lamports[from] - n)
  <2>1. lamports[from] - n >= r + rest
    BY <1>3, <1>5
  <2>. HIDE DEF source, rest
  <2>. QED
    BY <1>6, <2>1 DEF Covers
<1>8. Covers(r, cooling, target, lamports[to] + n)
  <2>1. CASE Kind(to) = "FullyActive"
    <3>1. /\ IsStake(to) /\ data[to].kind = "Stake"
          /\ data[to].stake.deactivation_epoch = Never
      BY <1>1, <2>1, KindOK DEF IsStake
    <3>2. data[to].stake.stake \in Nat /\ lamports[to] >= r + data[to].stake.stake
      BY <1>1, <1>3, <3>1, StatusOK DEF Covers, Lock
    <3>3. target = [data[to] EXCEPT !.stake =
                      Absorb(@, n, data[from].stake.credits_observed)]
      BY <2>1 DEF Moved
    <3>. HIDE DEF target
    <3>4. Lock(cooling, target) = data[to].stake.stake + n
      BY <1>3, <3>1, <3>3, LockOfAbsorb
    <3>. QED
      BY <1>3, <3>2, <3>4 DEF Covers
  <2>2. CASE Kind(to) = "Inactive"
    <3>1. target = Staked(data[to].meta, [data[from].stake EXCEPT !.stake = n])
      BY <2>2 DEF Moved
    <3>. HIDE DEF target
    <3>2. Lock(cooling, target) = n
      <4>1. /\ target.kind = "Stake"
            /\ target.stake = [data[from].stake EXCEPT !.stake = n]
        BY <3>1 DEF Staked
      <4>2. target.stake.stake = n /\ target.stake.deactivation_epoch = Never
        BY <1>4, <1>5, <4>1 DEF Stake
      <4>. QED
        BY <4>1, <4>2 DEF Lock
    <3>3. Lock(cooling, data[to]) = 0
      BY <1>1, <2>2, InactiveIsFree
    <3>4. lamports[to] >= r
      BY <1>1, <1>3, <3>3 DEF Covers
    <3>. QED
      BY <1>3, <3>2, <3>4 DEF Covers
  <2>. QED
    BY <1>1, <2>1, <2>2
<1>. HIDE DEF target, source
<1>. QED
  BY <1>1, <1>2, <1>3, <1>7, <1>8, KeptByTransfer

-----------------------------------------------------------------------------
(* The runtime.                                                            *)

(***************************************************************************)
(* What the next epoch makes of the status of an account: stake that is    *)
(* not deactivated does not lose effective stake, and stake that is does   *)
(* not gain any, unless its warmup has been forgotten unfinished.          *)
(***************************************************************************)
LEMMA StatusInTheNextEpoch ==
  ASSUME Inv, AdvanceEpoch, NEW a \in Accounts, IsStake(a)
  PROVE  LET d   == data[a].stake
             new == StakeActivatingAndDeactivating(d, history', clock'.epoch)
         IN  /\ d.deactivation_epoch = Never =>
                   new.effective >= Status(a).effective
             /\ d.deactivation_epoch # Never /\ WarmedUpInTime =>
                   new.effective <= Status(a).effective
<1>. DEFINE d == data[a].stake
            old == StakeActivatingAndDeactivating(d, history, clock.epoch)
            new == StakeActivatingAndDeactivating(d, history', clock.epoch + 1)
            full == StakeAndActivating(d, history, clock.epoch).effective = d.stake
<1>1. /\ clock'.epoch = clock.epoch + 1
      /\ clock.epoch \in Nat /\ clock.epoch + 1 < Never
      /\ IsHistory(history) /\ IsHistory(history')
      /\ Extends(history', history, clock.epoch)
  BY HistoryExtended
<1>2. /\ IsDelegation(d) /\ d.activation_epoch <= clock.epoch
      /\ d.deactivation_epoch \in {Never} \cup d.activation_epoch..clock.epoch
  BY DelegationOK
<1>3. /\ d.deactivation_epoch = Never => new.effective >= old.effective
      /\ /\ d.deactivation_epoch # Never
         /\ \/ d.activation_epoch = d.deactivation_epoch
            \/ clock.epoch < d.activation_epoch + MaxEntries
            \/ full
         => new.effective <= old.effective
  <2>. HIDE DEF d
  <2>. QED
    BY <1>1, <1>2, StatusAdvances
<1>4. WarmedUpInTime =>
        \/ d.deactivation_epoch \in {d.activation_epoch, Never}
        \/ clock.epoch < d.activation_epoch + MaxEntries
        \/ full
  BY DEF WarmedUpInTime, StakeAccounts, IsStake
<1>5. old = Status(a)
  BY DEF Status
<1>. HIDE DEF d, old, new, full
<1>6. /\ d.deactivation_epoch = Never => new.effective >= Status(a).effective
      /\ d.deactivation_epoch # Never /\ WarmedUpInTime =>
            new.effective <= Status(a).effective
  BY <1>3, <1>4, <1>5
<1>. QED
  BY <1>1, <1>6 DEF d, new

\* The next epoch locks no more than the one that ends.
LEMMA AdvanceEpochCovers ==
  ASSUME Inv, Inv', NEW r, Baseline(r), NEW cooling \in BOOLEAN,
         ReserveKept(r, cooling), cooling => WarmedUpInTime, AdvanceEpoch
  PROVE  ReserveKept(r, cooling)'
<1>1. UNCHANGED <<lamports, data, rent>>
  BY DEF AdvanceEpoch
<1>2. ASSUME NEW a \in Accounts
      PROVE  Covers(r, cooling, data[a], lamports[a])'
  <2>1. /\ r \in Nat /\ lamports[a] \in Nat
        /\ Sound(data[a], clock.epoch) /\ Lock(cooling, data[a]) \in Nat
        /\ Covers(r, cooling, data[a], lamports[a])
    BY HeldOK
  <2>2. Lock(cooling, data[a])' \in Nat
        /\ Lock(cooling, data[a])' <= Lock(cooling, data[a])
    <3>1. CASE ~IsStake(a) \/ data[a].stake.deactivation_epoch = Never \/ ~cooling
      <4>1. Lock(cooling, data[a])' = Lock(cooling, data[a])
        BY <1>1, <3>1 DEF Lock, IsStake
      <4>. QED
        BY <2>1, <4>1
    <3>2. CASE IsStake(a) /\ data[a].stake.deactivation_epoch # Never /\ cooling
      <4>. DEFINE new == StakeActivatingAndDeactivating(data[a].stake, history',
                                                       clock'.epoch).effective
      <4>1. new <= Status(a).effective
        BY <3>2, StatusInTheNextEpoch
      <4>2. new \in Nat
        <5>1. IsDelegation(data[a].stake) /\ IsHistory(history') /\ clock'.epoch \in Nat
          BY <3>2, DelegationOK, HistoryExtended
        <5>2. new \in 0..data[a].stake.stake
          BY <5>1, StatusBounded
        <5>. QED
          BY <5>2
      <4>3. /\ Lock(cooling, data[a])' = new
            /\ Lock(cooling, data[a]) = Status(a).effective
        BY <1>1, <3>2 DEF Lock, IsStake, Status
      <4>. HIDE DEF new
      <4>. QED
        BY <4>1, <4>2, <4>3
    <3>. QED
      BY <3>1, <3>2
  <2>3. lamports[a]' = lamports[a] /\ (HasMeta(data[a]))' = HasMeta(data[a])
    BY <1>1 DEF HasMeta
  <2>. QED
    BY <2>1, <2>2, <2>3 DEF Covers
<1>. QED
  BY <1>1, <1>2 DEF ReserveKept

\* Accounts are created and removed without data that needs rent.
LEMMA LifetimeCovers ==
  ASSUME Inv, NEW r, NEW cooling, ReserveKept(r, cooling),
         NEW a \in Accounts, CreateAccount(a) \/ Reap(a)
  PROVE  ReserveKept(r, cooling)'
BY CoveredIfNoMeta, KeptByWrite DEF CreateAccount, Reap

\* A transfer into an account takes nothing from another.
LEMMA DepositCovers ==
  ASSUME Inv, NEW r, Baseline(r), NEW cooling, ReserveKept(r, cooling),
         NEW a \in Accounts, NEW n \in Nat, Deposit(a, n)
  PROVE  ReserveKept(r, cooling)'
<1>1. Wallet \in Holders /\ Wallet \notin Accounts /\ a \in Holders
  BY ProgramConstants DEF Holders
<1>2. Relocate(Wallet, a, n) /\ UNCHANGED <<data, sysvars>>
  BY DEF Deposit
<1>. QED
  BY <1>1, <1>2, KeptByMoving

\* Steps that change neither accounts nor the epoch; the rent may change.
LEMMA ClusterCovers ==
  ASSUME Inv, NEW r, NEW cooling, ReserveKept(r, cooling),
         \/ EndRewards \/ AdvanceTime \/ ChangeRent
         \/ \E v \in Voters : Vote(v)
         \/ UNCHANGED vars
  PROVE  ReserveKept(r, cooling)'
<1>1. clock'.epoch = clock.epoch
  BY DEF Inv, SysvarsOK, Clock, EndRewards, AdvanceTime, ChangeRent, Vote, vars
<1>2. UNCHANGED <<lamports, data, history>> /\ rent' \in RentValues
  BY DEF ReserveKept, EndRewards, AdvanceTime, ChangeRent, Vote, vars
<1>. QED
  BY <1>1, <1>2 DEF ReserveKept, Covers, Lock

-----------------------------------------------------------------------------
(* The invariant.                                                          *)

\* One step per instruction.
LEMMA ProcessCovers ==
  ASSUME Inv, Inv', NEW r, Baseline(r), NEW cooling \in BOOLEAN,
         ReserveKept(r, cooling), NEW S, Process(S)
  PROVE  ReserveKept(r, cooling)'
<1>. PICK a \in Accounts :
        \/ Initialize(a)
        \/ InitializeChecked(S, a)
        \/ Authorize(S, a)
        \/ AuthorizeChecked(S, a)
        \/ AuthorizeWithSeed(S, a)
        \/ AuthorizeCheckedWithSeed(S, a)
        \/ SetLockup(S, a)
        \/ SetLockupChecked(S, a)
        \/ \E v \in Voters : Delegate(S, a, v)
        \/ Deactivate(S, a)
        \/ \E delinquent, reference \in Voters :
              DeactivateDelinquent(a, delinquent, reference)
        \/ \E to \in Holders : Withdraw(S, a, to)
        \/ \E to \in Accounts : Merge(S, to, a)
        \/ \E to \in Accounts : \E n \in Amounts \cup {lamports[a]} :
              \/ SplitFull(S, a, to, n)
              \/ SplitInactive(S, a, to, n)
              \/ SplitActive(S, a, to, n)
              \/ MoveStake(S, a, to, n)
              \/ MoveLamports(S, a, to, n)
  BY Zenon DEF Process
<1>1. CASE Initialize(a) \/ InitializeChecked(S, a)
  BY <1>1, InitializeCovers DEF Initialize, InitializeChecked
<1>2. CASE \/ Authorize(S, a) \/ AuthorizeChecked(S, a)
           \/ AuthorizeWithSeed(S, a) \/ AuthorizeCheckedWithSeed(S, a)
  BY <1>2, AuthorizeCovers
     DEF Authorize, AuthorizeChecked, AuthorizeWithSeed, AuthorizeCheckedWithSeed
<1>3. CASE SetLockup(S, a) \/ SetLockupChecked(S, a)
  BY <1>3, SetLockupCovers DEF SetLockup, SetLockupChecked
<1>4. CASE \E v \in Voters : Delegate(S, a, v)
  BY <1>4, DelegateCovers
<1>5. CASE \/ Deactivate(S, a)
           \/ \E delinquent, reference \in Voters :
                 DeactivateDelinquent(a, delinquent, reference)
  BY <1>5, DeactivateCovers DEF Deactivate, DeactivateDelinquent
<1>6. CASE \E to \in Holders : Withdraw(S, a, to)
  BY <1>6, InputsOK, WithdrawAllCovers, WithdrawPartCovers DEF Withdraw
<1>7. CASE \E to \in Accounts : Merge(S, to, a)
  BY <1>7, MergeCovers
<1>8. CASE \E to \in Accounts : \E n \in Amounts \cup {lamports[a]} :
              \/ SplitFull(S, a, to, n)
              \/ SplitInactive(S, a, to, n)
              \/ SplitActive(S, a, to, n)
              \/ MoveStake(S, a, to, n)
              \/ MoveLamports(S, a, to, n)
  <2>1. PICK to \in Accounts, n \in Amounts \cup {lamports[a]} :
               \/ SplitFull(S, a, to, n)
               \/ SplitInactive(S, a, to, n)
               \/ SplitActive(S, a, to, n)
               \/ MoveStake(S, a, to, n)
               \/ MoveLamports(S, a, to, n)
    BY <1>8
  <2>2. n \in Nat
    BY InputsOK, AccountOK
  <2>. QED
    BY <2>1, <2>2, SplitFullCovers, SplitInactiveCovers, SplitActiveCovers,
       MoveStakeCovers, MoveLamportsCovers
<1>. QED
  BY <1>1, <1>2, <1>3, <1>4, <1>5, <1>6, <1>7, <1>8

\* So does every step.
LEMMA NextCovers ==
  ASSUME Inv, Inv', NEW r, Baseline(r), NEW cooling \in BOOLEAN,
         ReserveKept(r, cooling), cooling => WarmedUpInTime, [Next]_vars
  PROVE  ReserveKept(r, cooling)'
<1>1. ASSUME NEW S \in SignerSets, Process(S) PROVE ReserveKept(r, cooling)'
  BY <1>1, ProcessCovers
<1>2. ASSUME NEW a \in Accounts, CreateAccount(a) \/ Reap(a)
      PROVE  ReserveKept(r, cooling)'
  BY <1>2, LifetimeCovers
<1>3. ASSUME NEW a \in Accounts, NEW n \in Amounts, Deposit(a, n)
      PROVE  ReserveKept(r, cooling)'
  BY <1>3, InputsOK, DepositCovers
<1>4. CASE AdvanceEpoch
  BY <1>4, AdvanceEpochCovers
<1>5. CASE \/ EndRewards \/ AdvanceTime \/ ChangeRent
           \/ \E v \in Voters : Vote(v)
           \/ UNCHANGED vars
  BY <1>5, ClusterCovers
<1>. QED
  BY <1>1, <1>2, <1>3, <1>4, <1>5 DEF Next, Runtime

\* No account has authorities yet.
LEMMA InitCovers ==
  ASSUME Init, NEW r, NEW cooling
  PROVE  ReserveKept(r, cooling)
BY DEF Init, ReserveKept, Covers, HasMeta, NoAccount

-----------------------------------------------------------------------------
(* What follows from it.                                                   *)

(***************************************************************************)
(* While rent is constant an account always keeps it besides its           *)
(* LockedStake: the different checks of Initialize, DelegateStake, Split,  *)
(* Withdraw, Merge, MoveStake and MoveLamports add up, also when they      *)
(* follow on a rescission or on a change of the account's status.  Stake   *)
(* deactivated while it warmed up is assumed to be gone in time.           *)
(***************************************************************************)
THEOREM LocksKeptCovered ==
  ASSUME NEW r, RentValues = {r}, r # 0
  PROVE  Spec /\ []WarmedUpInTime => []LocksCovered
<1>1. Baseline(r)
  BY ProgramConstants, NumbersOK DEF Baseline
<1>2. ASSUME Inv, ReserveKept(r, TRUE)
      PROVE  LocksCovered
  <2>1. rent = r
    BY <1>2 DEF ReserveKept
  <2>. SUFFICES ASSUME NEW a \in Accounts, HasMeta(data[a])
                PROVE  lamports[a] >= rent + LockedStake(a)
    BY DEF LocksCovered
  <2>2. LockedStake(a) = Lock(TRUE, data[a])
    BY <1>2, LockedStakeIsLock
  <2>. QED
    BY <1>2, <2>1, <2>2 DEF ReserveKept, Covers
<1>. DEFINE kept == ReserveKept(r, TRUE)
<1>3. Init => kept
  BY InitCovers
<1>4. Inv /\ Inv' /\ WarmedUpInTime /\ kept /\ [Next]_vars => kept'
  BY <1>1, NextCovers
<1>5. Inv /\ kept => LocksCovered
  BY <1>2
<1>. HIDE DEF kept
<1>. QED
  BY <1>3, <1>4, <1>5, Invariance, PTL DEF Spec

\* Locked stake is all that is effective, or more.
LEMMA ReserveBacks ==
  ASSUME Inv, Baseline(0), ReserveKept(0, TRUE)
  PROVE  EffectiveStakeBacked
<1>. SUFFICES ASSUME NEW a \in Accounts, IsStake(a)
              PROVE  lamports[a] >= Status(a).effective
  BY DEF EffectiveStakeBacked, StakeAccounts
<1>. DEFINE lock == Lock(TRUE, data[a])
            effective == Status(a).effective
<1>1. /\ lamports[a] \in Nat /\ lock \in Nat
      /\ Covers(0, TRUE, data[a], lamports[a])
  BY HeldOK
<1>2. lamports[a] >= 0 + lock
  BY <1>1 DEF Covers, HasMeta, IsStake
<1>3. /\ data[a].stake.stake \in Nat
      /\ effective \in Nat /\ Status(a).activating \in Nat
      /\ data[a].stake.deactivation_epoch = Never =>
            effective + Status(a).activating = data[a].stake.stake
  BY StatusOK
<1>4. lock = IF data[a].stake.deactivation_epoch = Never
             THEN data[a].stake.stake ELSE effective
  BY DEF Lock, IsStake, Status
<1>. HIDE DEF lock, effective
<1>5. effective <= lock
  BY <1>3, <1>4
<1>6. lamports[a] >= effective
  BY <1>1, <1>2, <1>3, <1>5
<1>. QED
  BY <1>6 DEF effective

(***************************************************************************)
(* However rent rises and falls, the stake that is effective in an epoch,  *)
(* deactivated or not, is covered by lamports in its account.  Stake       *)
(* deactivated while it warmed up is assumed to be gone in time.           *)
(***************************************************************************)
THEOREM EffectiveKeptBacked ==
  ASSUME 0 \notin RentValues
  PROVE  Spec /\ []WarmedUpInTime => []EffectiveStakeBacked
<1>1. Baseline(0)
  BY ProgramConstants, NumbersOK DEF Baseline
<1>. DEFINE kept == ReserveKept(0, TRUE)
<1>2. Init => kept
  BY InitCovers
<1>3. Inv /\ Inv' /\ WarmedUpInTime /\ kept /\ [Next]_vars => kept'
  BY <1>1, NextCovers
<1>4. Inv /\ kept => EffectiveStakeBacked
  BY <1>1, ReserveBacks
<1>. HIDE DEF kept
<1>. QED
  BY <1>2, <1>3, <1>4, Invariance, PTL DEF Spec

(***************************************************************************)
(* While rent is constant, the check with which MoveStake ends never is    *)
(* the one that fails ("this should be impossible"): both sides have kept  *)
(* the rent besides what they delegate.  Only delegations in force matter, *)
(* so nothing is assumed of deactivated stake.                             *)
(***************************************************************************)
THEOREM MoveStakeKeptCovered ==
  ASSUME NEW r, RentValues = {r}, r # 0
  PROVE  Spec => []MoveStakeCovered
<1>1. Baseline(r)
  BY ProgramConstants, NumbersOK DEF Baseline
<1>2. ASSUME Inv, ReserveKept(r, FALSE)
      PROVE  MoveStakeCovered
  <2>1. rent = r /\ r \in Nat
    BY <1>1, <1>2 DEF ReserveKept, Baseline
  <2>. SUFFICES ASSUME NEW from \in Accounts, IsStake(from), NEW to \in Accounts,
                       NEW S, NEW n \in 1..data[from].stake.stake,
                       MoveStakeChecks(S, from, to, n)
                PROVE  lamports[from] - n >= rent /\ lamports[to] + n >= rent
    BY DEF MoveStakeCovered, MoveLeavesExempt, StakeAccounts
  <2>2. HasMeta(data[from]) /\ HasMeta(data[to]) /\ Kind(from) = "FullyActive"
    BY DEF MoveStakeChecks, MoveChecks, Mergeable
  <2>. DEFINE lock == Lock(FALSE, data[to])
  <2>3. /\ lamports[from] \in Nat /\ lamports[to] \in Nat /\ lock \in Nat
        /\ Covers(r, FALSE, data[from], lamports[from])
        /\ Covers(r, FALSE, data[to], lamports[to])
    BY <1>1, <1>2, HeldOK
  <2>4. data[from].stake.deactivation_epoch = Never /\ data[from].stake.stake \in Nat
    BY <1>2, <2>2, KindOK, StatusOK
  <2>5. lamports[from] >= r + data[from].stake.stake
    BY <2>2, <2>3, <2>4 DEF Covers, Lock, IsStake
  <2>6. lamports[to] >= r + lock
    BY <2>2, <2>3 DEF Covers
  <2>. HIDE DEF lock
  <2>. QED
    BY <2>1, <2>3, <2>4, <2>5, <2>6
<1>. DEFINE kept == ReserveKept(r, FALSE)
<1>3. Init => kept
  BY InitCovers
<1>4. Inv /\ Inv' /\ kept /\ [Next]_vars => kept'
  BY <1>1, NextCovers
<1>5. Inv /\ kept => MoveStakeCovered
  BY <1>2
<1>. HIDE DEF kept
<1>. QED
  BY <1>3, <1>4, <1>5, Invariance, PTL DEF Spec

(***************************************************************************)
(* The assumption of the theorems above can be met: as long as the cluster *)
(* is younger than the history is long, no activation has been forgotten.  *)
(***************************************************************************)
THEOREM InTimeWhileRemembered ==
  ASSUME MaxEpoch < MaxEntries
  PROVE  Spec => []WarmedUpInTime
<1>1. ASSUME Inv PROVE WarmedUpInTime
  <2>. SUFFICES ASSUME NEW a \in Accounts, IsStake(a)
                PROVE  clock.epoch < data[a].stake.activation_epoch + MaxEntries
    BY DEF WarmedUpInTime, StakeAccounts
  <2>1. clock.epoch \in 0..MaxEpoch /\ MaxEpoch \in Nat /\ MaxEntries \in Nat
    BY <1>1, NumbersOK, ActivationConstants DEF Inv, SysvarsOK, Clock
  <2>2. data[a].stake.activation_epoch \in Nat
    BY <1>1, DelegationOK, NumbersOK DEF IsDelegation
  <2>. HIDE DEF WarmedUpInTime
  <2>. QED
    BY <2>1, <2>2
<1>. QED
  BY <1>1, Invariance, PTL

=============================================================================
