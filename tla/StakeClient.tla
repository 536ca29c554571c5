----------------------------- MODULE StakeClient -----------------------------
(***************************************************************************)
(* The Rust client generated from the IDL: for each instruction a struct   *)
(* of accounts that becomes an account list, and a builder                 *)
(* (clients/rust/src/generated/instructions).                              *)
(*                                                                         *)
(* What the setters were given is a record b of exactly the fields that    *)
(* were set.  instruction() panics if a required one is missing and has a  *)
(* default for the sysvars; accounts added with add_remaining_account come *)
(* last.  authority_seed stands for the seed and its owner.                *)
(***************************************************************************)
EXTENDS AccountLists

\* The variants of StakeInstruction, in the order of their discriminators.
StakeInstruction ==
    << "Initialize", "Authorize", "DelegateStake", "Split", "Withdraw",
       "Deactivate", "SetLockup", "Merge", "AuthorizeWithSeed",
       "InitializeChecked", "AuthorizeChecked", "AuthorizeCheckedWithSeed",
       "SetLockupChecked", "GetMinimumDelegation", "DeactivateDelinquent",
       "Redelegate", "MoveStake", "MoveLamports" >>

\* A borsh discriminator, decoded by the program as the enum's index.
Discriminated(discriminator, args, accounts) ==
    Instruction(StakeInstruction[discriminator + 1], args, accounts)

\* instruction() of a builder, if all of the required fields are set.
Panics == [panics |-> TRUE]
Built(b, required, instruction) ==
    IF required \subseteq DOMAIN b THEN instruction ELSE Panics
Filled(b, defaults) ==
    [f \in DOMAIN b \cup DOMAIN defaults \cup {"remaining"} |->
        IF f \in DOMAIN b THEN b[f]
        ELSE IF f \in DOMAIN defaults THEN defaults[f] ELSE << >>]

-----------------------------------------------------------------------------
(* Creation.                                                               *)

Initialize(b) ==
    Discriminated(0, [authorized |-> b.arg0, lockup |-> b.arg1],
        << Writable(b.stake, FALSE), Readonly(b.rent_sysvar, FALSE) >>
            \o b.remaining)
InitializeBuilder(b) ==
    Built(b, {"stake", "arg0", "arg1"},
          Initialize(Filled(b, [rent_sysvar |-> RENT_ID])))

InitializeChecked(b) ==
    Discriminated(9, << >>,
        << Writable(b.stake, FALSE), Readonly(b.rent_sysvar, FALSE),
           Readonly(b.stake_authority, FALSE),
           Readonly(b.withdraw_authority, TRUE) >> \o b.remaining)
InitializeCheckedBuilder(b) ==
    Built(b, {"stake", "stake_authority", "withdraw_authority"},
          InitializeChecked(Filled(b, [rent_sysvar |-> RENT_ID])))

-----------------------------------------------------------------------------
(* Delegation and its end.                                                 *)

DelegateStake(b) ==
    Discriminated(2, << >>,
        << Writable(b.stake, FALSE), Readonly(b.vote, FALSE),
           Readonly(b.clock_sysvar, FALSE), Readonly(b.stake_history, FALSE),
           Readonly(b.unused, FALSE), Readonly(b.stake_authority, TRUE) >>
            \o b.remaining)
DelegateStakeBuilder(b) ==
    Built(b, {"stake", "vote", "unused", "stake_authority"},
          DelegateStake(Filled(b,
              [clock_sysvar |-> CLOCK_ID, stake_history |-> STAKE_HISTORY_ID])))

Deactivate(b) ==
    Discriminated(5, << >>,
        << Writable(b.stake, FALSE), Readonly(b.clock_sysvar, FALSE),
           Readonly(b.stake_authority, TRUE) >> \o b.remaining)
DeactivateBuilder(b) ==
    Built(b, {"stake", "stake_authority"},
          Deactivate(Filled(b, [clock_sysvar |-> CLOCK_ID])))

DeactivateDelinquent(b) ==
    Discriminated(14, << >>,
        << Writable(b.stake, FALSE), Readonly(b.delinquent_vote, FALSE),
           Readonly(b.reference_vote, FALSE) >> \o b.remaining)
DeactivateDelinquentBuilder(b) ==
    Built(b, {"stake", "delinquent_vote", "reference_vote"},
          DeactivateDelinquent(Filled(b, << >>)))

-----------------------------------------------------------------------------
(* Authorities and lockup.                                                 *)

Authorize(b) ==
    Discriminated(1, [new |-> b.arg0, who |-> b.arg1],
        WithOptional(<< Writable(b.stake, FALSE), Readonly(b.clock_sysvar, FALSE),
                        Readonly(b.authority, TRUE) >>, b.lockup_authority)
            \o b.remaining)
AuthorizeBuilder(b) ==
    Built(b, {"stake", "authority", "arg0", "arg1"},
          Authorize(Filled(b,
              [clock_sysvar |-> CLOCK_ID, lockup_authority |-> NoKey])))

AuthorizeChecked(b) ==
    Discriminated(10, [who |-> b.stake_authorize],
        WithOptional(<< Writable(b.stake, FALSE), Readonly(b.clock_sysvar, FALSE),
                        Readonly(b.authority, TRUE),
                        Readonly(b.new_authority, TRUE) >>, b.lockup_authority)
            \o b.remaining)
AuthorizeCheckedBuilder(b) ==
    Built(b, {"stake", "authority", "new_authority", "stake_authorize"},
          AuthorizeChecked(Filled(b,
              [clock_sysvar |-> CLOCK_ID, lockup_authority |-> NoKey])))

AuthorizeWithSeed(b) ==
    Discriminated(8, [new  |-> b.new_authorized_pubkey,
                      who  |-> b.stake_authorize, seed |-> b.authority_seed],
        WithOptional(<< Writable(b.stake, FALSE), Readonly(b.base, TRUE),
                        Readonly(b.clock_sysvar, FALSE) >>, b.lockup_authority)
            \o b.remaining)
AuthorizeWithSeedBuilder(b) ==
    Built(b, {"stake", "base", "new_authorized_pubkey", "stake_authorize",
              "authority_seed"},
          AuthorizeWithSeed(Filled(b,
              [clock_sysvar |-> CLOCK_ID, lockup_authority |-> NoKey])))

\* Mutant: the account is meant to be read only in the IDL.
AuthorizeCheckedWithSeedNewUnsigned(b) ==
    Discriminated(11, [who |-> b.stake_authorize, seed |-> b.authority_seed],
        WithOptional(<< Writable(b.stake, FALSE), Readonly(b.base, TRUE),
                        Readonly(b.clock_sysvar, FALSE),
                        Readonly(b.new_authority, FALSE) >>, b.lockup_authority)
            \o b.remaining)

AuthorizeCheckedWithSeed(b) ==
    Discriminated(11, [who |-> b.stake_authorize, seed |-> b.authority_seed],
        WithOptional(<< Writable(b.stake, FALSE), Readonly(b.base, TRUE),
                        Readonly(b.clock_sysvar, FALSE),
                        Readonly(b.new_authority, TRUE) >>, b.lockup_authority)
            \o b.remaining)

AuthorizeCheckedWithSeedBuilder(b) ==
    Built(b, {"stake", "base", "new_authority", "stake_authorize",
              "authority_seed"},
          AuthorizeCheckedWithSeed(Filled(b,
              [clock_sysvar |-> CLOCK_ID, lockup_authority |-> NoKey])))

\* Every argument is optional.
SetLockup(b) ==
    Discriminated(6, [lockup |-> [unix_timestamp |-> b.unix_timestamp,
                                  epoch |-> b.epoch, custodian |-> b.custodian]],
        << Writable(b.stake, FALSE), Readonly(b.authority, TRUE) >>
            \o b.remaining)
SetLockupBuilder(b) ==
    Built(b, {"stake", "authority"},
          SetLockup(Filled(b,
              [unix_timestamp |-> Unset, epoch |-> Unset, custodian |-> Unset])))

SetLockupChecked(b) ==
    Discriminated(12, [unix_timestamp |-> b.unix_timestamp, epoch |-> b.epoch],
        WithOptional(<< Writable(b.stake, FALSE), Readonly(b.authority, TRUE) >>,
                     b.new_authority)
            \o b.remaining)
SetLockupCheckedBuilder(b) ==
    Built(b, {"stake", "authority"},
          SetLockupChecked(Filled(b,
              [unix_timestamp |-> Unset, epoch |-> Unset,
               new_authority |-> NoKey])))

-----------------------------------------------------------------------------
(* Lamports.                                                               *)

Split(b) ==
    Discriminated(3, [lamports |-> b.args],
        << Writable(b.stake, FALSE), Writable(b.split_stake, FALSE),
           Readonly(b.stake_authority, TRUE) >> \o b.remaining)
SplitBuilder(b) ==
    Built(b, {"stake", "split_stake", "stake_authority", "args"},
          Split(Filled(b, << >>)))

\* Mutant: the accounts are listed as they are merged, from and to.
MergeSwapped(b) ==
    Discriminated(7, << >>,
        << Writable(b.source_stake, FALSE), Writable(b.destination_stake, FALSE),
           Readonly(b.clock_sysvar, FALSE), Readonly(b.stake_history, FALSE),
           Readonly(b.stake_authority, TRUE) >> \o b.remaining)

Merge(b) ==
    Discriminated(7, << >>,
        << Writable(b.destination_stake, FALSE), Writable(b.source_stake, FALSE),
           Readonly(b.clock_sysvar, FALSE), Readonly(b.stake_history, FALSE),
           Readonly(b.stake_authority, TRUE) >> \o b.remaining)

MergeBuilder(b) ==
    Built(b, {"destination_stake", "source_stake", "stake_authority"},
          Merge(Filled(b,
              [clock_sysvar |-> CLOCK_ID, stake_history |-> STAKE_HISTORY_ID])))

Withdraw(b) ==
    Discriminated(4, [lamports |-> b.args],
        WithOptional(<< Writable(b.stake, FALSE), Writable(b.recipient, FALSE),
                        Readonly(b.clock_sysvar, FALSE),
                        Readonly(b.stake_history, FALSE),
                        Readonly(b.withdraw_authority, TRUE) >>, b.lockup_authority)
            \o b.remaining)
WithdrawBuilder(b) ==
    Built(b, {"stake", "recipient", "withdraw_authority", "args"},
          Withdraw(Filled(b,
              [clock_sysvar |-> CLOCK_ID, stake_history |-> STAKE_HISTORY_ID,
               lockup_authority |-> NoKey])))

MoveStake(b) ==
    Discriminated(16, [lamports |-> b.args],
        << Writable(b.source_stake, FALSE), Writable(b.destination_stake, FALSE),
           Readonly(b.stake_authority, TRUE) >> \o b.remaining)
MoveStakeBuilder(b) ==
    Built(b, {"source_stake", "destination_stake", "stake_authority", "args"},
          MoveStake(Filled(b, << >>)))

MoveLamports(b) ==
    Discriminated(17, [lamports |-> b.args],
        << Writable(b.source_stake, FALSE), Writable(b.destination_stake, FALSE),
           Readonly(b.stake_authority, TRUE) >> \o b.remaining)
MoveLamportsBuilder(b) ==
    Built(b, {"source_stake", "destination_stake", "stake_authority", "args"},
          MoveLamports(Filled(b, << >>)))

GetMinimumDelegation(b) == Discriminated(13, << >>, b.remaining)
GetMinimumDelegationBuilder(b) == GetMinimumDelegation(Filled(b, << >>))

=============================================================================
