------------------------------ MODULE StakeAccess ------------------------------
(***************************************************************************)
(* What the program owes to those who hold the authorities of an account:  *)
(* with their signatures they can use it, through any client.  The other   *)
(* modules of properties say what must not happen without consent; these   *)
(* say that with consent it can.                                           *)
(*                                                                         *)
(* Forms of an instruction are what the interface crate builds, and what   *)
(* the generated client builds, for a transaction and for a program.       *)
(***************************************************************************)
EXTENDS StakeTransactions, StakeConsent, StakeInterface

Idle == pending = Nothing /\ ~rewards_active

Existing == {a \in Accounts : data[a] # NoAccount}
Owned == {a \in Existing : HasMeta(data[a])}

\* What the program understands by each of the forms, and by the first in the
\* layout without sysvar accounts: the same operation.
Understood(forms) ==
    LET operation == Alone(forms[1])
    IN  IF /\ Alone(WithoutSysvars(forms[1])) = operation
           /\ \A i \in DOMAIN forms : Alone(forms[i]) = operation
        THEN operation ELSE Refused

Asked(formsets) == {Understood(forms) : forms \in formsets}

Granted(operation) == operation # Refused /\ ENABLED Perform(operation)

\* The custodian has to sign as well while the lockup is in force.
Cosigner(meta) ==
    IF IsInForce(meta.lockup, clock, NoKey) THEN meta.lockup.custodian ELSE NoKey

-----------------------------------------------------------------------------
(* Lamports.                                                               *)

\* The lamports of an account that no stake and no rent holds back.
Unlocked(a) ==
    IF LockedStake(a) = 0 THEN lamports[a] ELSE lamports[a] - LockedStake(a) - rent

\* An account without authorities answers to its own key.
Withdrawals(a) ==
    LET authority == IF HasMeta(data[a]) THEN data[a].meta.withdrawer ELSE a
        cosigner  == IF HasMeta(data[a]) THEN Cosigner(data[a].meta) ELSE NoKey
    IN  {Forms(withdraw(a, authority, Wallet, Unlocked(a), cosigner),
               Client!WithdrawBuilder, Client!WithdrawCpiBuilder,
               [stake |-> a, recipient |-> Wallet, args |-> Unlocked(a),
                withdraw_authority |-> authority]
                  @@ Options([lockup_authority |-> cosigner], NoKey))}

(***************************************************************************)
(* Funds are never stuck: what is not locked as stake can be withdrawn by  *)
(* the withdrawer, and the custodian if the lockup is in force, whatever   *)
(* splits, merges, moves and changes of authority came before; and what an *)
(* account received before it was initialized, or after it was closed, by  *)
(* the key of that account.                                                *)
(***************************************************************************)
FundsReachable ==
    Idle => \A asked \in Asked(UNION {Withdrawals(a) : a \in Existing}) : Granted(asked)

-----------------------------------------------------------------------------
(* Authorities.                                                            *)

\* Who hands on which authority, with which custodian.
Handovers(meta) ==
    {<< meta.staker, "Staker", NoKey >>, << meta.withdrawer, "Staker", NoKey >>,
     << meta.withdrawer, "Withdrawer", Cosigner(meta) >>}

Authorizations(a) ==
    {LET holder == handover[1]
         who    == handover[2]
         given  == Options([lockup_authority |-> handover[3]], NoKey)
     IN  Forms(authorize(a, holder, new, who, handover[3]),
               Client!AuthorizeBuilder, Client!AuthorizeCpiBuilder,
               [stake |-> a, authority |-> holder, arg0 |-> new, arg1 |-> who]
                  @@ given)
     : handover \in Handovers(data[a].meta), new \in Parties}

CheckedAuthorizations(a) ==
    {LET holder == handover[1]
         who    == handover[2]
         given  == Options([lockup_authority |-> handover[3]], NoKey)
     IN  Forms(authorize_checked(a, holder, new, who, handover[3]),
               Client!AuthorizeCheckedBuilder,
               Client!AuthorizeCheckedCpiBuilder,
               [stake |-> a, authority |-> holder, new_authority |-> new,
                stake_authorize |-> who] @@ given)
     : handover \in Handovers(data[a].meta), new \in Parties}

\* An authority that is derived from a base is used with the base's signature.
Bases(holder) ==
    {derivation \in Named \X Seeds : CreateWithSeed[derivation] = holder}

SeedAuthorizations(a) ==
    UNION {
      {LET who   == handover[2]
           given == Options([lockup_authority |-> handover[3]], NoKey)
       IN  Forms(authorize_with_seed(a, base[1], base[2], new, who, handover[3]),
                 Client!AuthorizeWithSeedBuilder,
                 Client!AuthorizeWithSeedCpiBuilder,
                 [stake |-> a, base |-> base[1], authority_seed |-> base[2],
                  new_authorized_pubkey |-> new, stake_authorize |-> who]
                    @@ given)
       : base \in Bases(handover[1]), new \in Parties}
      : handover \in Handovers(data[a].meta)}

CheckedSeedAuthorizations(a) ==
    UNION {
      {LET who   == handover[2]
           given == Options([lockup_authority |-> handover[3]], NoKey)
       IN  Forms(authorize_checked_with_seed(a, base[1], base[2], new, who, handover[3]),
                 Client!AuthorizeCheckedWithSeedBuilder,
                 Client!AuthorizeCheckedWithSeedCpiBuilder,
                 [stake |-> a, base |-> base[1], authority_seed |-> base[2],
                  new_authority |-> new, stake_authorize |-> who] @@ given)
       : base \in Bases(handover[1]), new \in Parties}
      : handover \in Handovers(data[a].meta)}

\* Who has the say over the lockup: its custodian while it is in force.
Relocks(a) ==
    LET meta   == data[a].meta
        master == IF Cosigner(meta) = NoKey THEN meta.withdrawer ELSE Cosigner(meta)
        given  == [stake |-> a, authority |-> master]
    IN  {Forms(set_lockup(a, change, master),
               Client!SetLockupBuilder, Client!SetLockupCpiBuilder,
               given @@ Options(change, Unset))
         : change \in Changes}
        \cup
        {Forms(set_lockup_checked(a, change, master),
               Client!SetLockupCheckedBuilder,
               Client!SetLockupCheckedCpiBuilder,
               given @@ Options([unix_timestamp |-> change.unix_timestamp,
                                  epoch          |-> change.epoch,
                                  new_authority  |-> change.custodian], Unset))
         : change \in Changes}

(***************************************************************************)
(* Authorities are never stuck: the staker hands on its own, the           *)
(* withdrawer both (with the custodian while the lockup is in force, for   *)
(* the withdrawer's), in each of the four forms of Authorize; and whoever  *)
(* has the say over the lockup can change it in both forms of SetLockup.   *)
(***************************************************************************)
AuthoritiesReplaceable ==
    Idle => \A asked \in Asked(UNION {Authorizations(a) \cup CheckedAuthorizations(a)
                                     \cup SeedAuthorizations(a)
                                     \cup CheckedSeedAuthorizations(a)
                                     \cup Relocks(a) : a \in Owned}) : Granted(asked)

-----------------------------------------------------------------------------
(* Stake.                                                                  *)

\* Nothing of the account is effective, or its deactivation can be taken back.
Delegable(a) ==
    IF ~IsStake(a) \/ Status(a).effective = 0 THEN Voters
    ELSE IF data[a].stake.deactivation_epoch = clock.epoch
            /\ SatSub(lamports[a], rent) >= data[a].stake.stake
         THEN {data[a].stake.voter_pubkey} ELSE {}

StakeOrders(a) ==
    LET staker == data[a].meta.staker
    IN  {Forms(deactivate_stake(a, staker),
               Client!DeactivateBuilder, Client!DeactivateCpiBuilder,
               [stake |-> a, stake_authority |-> staker])
         : deactivation \in {e \in {Never} : IsStake(a)
                                     /\ data[a].stake.deactivation_epoch = e}}
        \cup
        {Forms(delegate_stake(a, staker, v),
               Client!DelegateStakeBuilder, Client!DelegateStakeCpiBuilder,
               [stake |-> a, vote |-> v, unused |-> CONFIG_ID,
                stake_authority |-> staker])
         : v \in {w \in Delegable(a) :
                     SatSub(lamports[a], rent) >= MinimumDelegation}}

\* Without the staker: of validators that the program takes for delinquent.
ForcedOrders(a) ==
    {Forms(deactivate_delinquent_stake(a, votes[1], votes[2]),
           Client!DeactivateDelinquentBuilder,
           Client!DeactivateDelinquentCpiBuilder,
           [stake |-> a, delinquent_vote |-> votes[1],
            reference_vote |-> votes[2]])
     : votes \in {w \in Voters \X Voters : ENABLED DeactivateDelinquent(a, w[1], w[2])}}

\* Who is first to initialize an account is its owner.
Initializations(a) ==
    {Forms(initialize(a, [staker |-> owner, withdrawer |-> owner], lockup),
           Client!InitializeBuilder, Client!InitializeCpiBuilder,
           [stake |-> a, arg0 |-> [staker |-> owner, withdrawer |-> owner],
            arg1 |-> lockup])
     : owner \in Parties, lockup \in Lockups}
    \cup
    {Forms(initialize_checked(a, [staker |-> owner, withdrawer |-> owner]),
           Client!InitializeCheckedBuilder, Client!InitializeCheckedCpiBuilder,
           [stake |-> a, stake_authority |-> owner, withdraw_authority |-> owner])
     : owner \in Parties}

(***************************************************************************)
(* Stake is never stuck: the staker can deactivate a delegation at any     *)
(* time, and delegate anew what is no longer effective; a deactivation of  *)
(* this epoch can be taken back while the lamports are still there; anyone *)
(* can deactivate the stake of a delinquent validator, initialize an       *)
(* account that has its rent and no authorities, and ask for the minimum   *)
(* delegation.                                                             *)
(***************************************************************************)
StakeReachable ==
    Idle => \A asked \in Asked(
        UNION {StakeOrders(a) \cup ForcedOrders(a) : a \in Owned}
        \cup UNION {Initializations(a) : a \in {b \in Existing :
                        data[b] = Uninitialized /\ lamports[b] >= rent}}
        \cup {Forms(get_minimum_delegation,
                    Client!GetMinimumDelegationBuilder,
                    Client!GetMinimumDelegationCpiBuilder,
                    << >>)}) :
      Granted(asked)

-----------------------------------------------------------------------------
(* Both.                                                                   *)

\* What the staker of an account may want to do to it and another one: the
\* operation, and the instructions that ask for it.
Regroupings(a, b) ==
    LET staker == data[a].meta.staker
    IN  {<< Merging(b, a, {staker}),
            Forms(merge(b, a, staker)[1],
                  Client!MergeBuilder, Client!MergeCpiBuilder,
                  [destination_stake |-> b, source_stake |-> a,
                   stake_authority |-> staker]) >>}
        \cup
        {<< Moving("MoveStake", a, b, {staker}, n),
            Forms(move_stake(a, b, staker, n),
                  Client!MoveStakeBuilder, Client!MoveStakeCpiBuilder,
                  [source_stake |-> a, destination_stake |-> b,
                   stake_authority |-> staker, args |-> n]) >> : n \in Amounts}
        \cup
        {<< Moving("MoveLamports", a, b, {staker}, n),
            Forms(move_lamports(a, b, staker, n),
                  Client!MoveLamportsBuilder, Client!MoveLamportsCpiBuilder,
                  [source_stake |-> a, destination_stake |-> b,
                   stake_authority |-> staker, args |-> n]) >> : n \in Amounts}
        \cup
        {<< Moving("Split", a, b, {staker}, n),
            Forms(_split(a, staker, n, b),
                  Client!SplitBuilder, Client!SplitCpiBuilder,
                  [stake |-> a, split_stake |-> b, stake_authority |-> staker,
                   args |-> n]) >> : n \in Amounts}

(***************************************************************************)
(* What a staker may divide and join in StakeProgram, with no signature    *)
(* but its own, it can through the builders of either crate: they are      *)
(* understood as that operation, unless it is refused.                     *)
(***************************************************************************)
RegroupingReachable ==
    Idle => \A regrouping \in UNION {Regroupings(a, b) : a \in Owned, b \in Existing} :
      \/ Understood(regrouping[2]) = regrouping[1]
      \/ ~ENABLED Perform(regrouping[1])

=============================================================================
