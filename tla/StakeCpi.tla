------------------------------- MODULE StakeCpi -------------------------------
(***************************************************************************)
(* The other half of the generated client: builders for programs that call *)
(* the stake program (clients/rust/src/generated/instructions, *Cpi and    *)
(* *CpiBuilder).  They have an account list of their own for each          *)
(* instruction.  The caller hands on accounts it was given, so there is no *)
(* default for the sysvars; the accounts of the call are those of the list *)
(* and the program.                                                        *)
(*                                                                         *)
(* The result is the instruction that is invoked.  Its flags are not       *)
(* merged with others of the transaction, and the caller signs for its own *)
(* derived addresses.                                                      *)
(***************************************************************************)
EXTENDS StakeClient

-----------------------------------------------------------------------------
(* Creation.                                                               *)

InitializeCpi(b) ==
    Discriminated(0, [authorized |-> b.arg0, lockup |-> b.arg1],
        << Writable(b.stake, FALSE), Readonly(b.rent_sysvar, FALSE) >>
            \o b.remaining)
InitializeCpiBuilder(b) ==
    Built(b, {"stake", "rent_sysvar", "arg0", "arg1"},
          InitializeCpi(Filled(b, << >>)))

InitializeCheckedCpi(b) ==
    Discriminated(9, << >>,
        << Writable(b.stake, FALSE), Readonly(b.rent_sysvar, FALSE),
           Readonly(b.stake_authority, FALSE),
           Readonly(b.withdraw_authority, TRUE) >> \o b.remaining)
InitializeCheckedCpiBuilder(b) ==
    Built(b, {"stake", "rent_sysvar", "stake_authority", "withdraw_authority"},
          InitializeCheckedCpi(Filled(b, << >>)))

-----------------------------------------------------------------------------
(* Delegation and its end.                                                 *)

DelegateStakeCpi(b) ==
    Discriminated(2, << >>,
        << Writable(b.stake, FALSE), Readonly(b.vote, FALSE),
           Readonly(b.clock_sysvar, FALSE), Readonly(b.stake_history, FALSE),
           Readonly(b.unused, FALSE), Readonly(b.stake_authority, TRUE) >>
            \o b.remaining)
DelegateStakeCpiBuilder(b) ==
    Built(b, {"stake", "vote", "clock_sysvar", "stake_history", "unused",
              "stake_authority"},
          DelegateStakeCpi(Filled(b, << >>)))

DeactivateCpi(b) ==
    Discriminated(5, << >>,
        << Writable(b.stake, FALSE), Readonly(b.clock_sysvar, FALSE),
           Readonly(b.stake_authority, TRUE) >> \o b.remaining)
DeactivateCpiBuilder(b) ==
    Built(b, {"stake", "clock_sysvar", "stake_authority"},
          DeactivateCpi(Filled(b, << >>)))

DeactivateDelinquentCpi(b) ==
    Discriminated(14, << >>,
        << Writable(b.stake, FALSE), Readonly(b.delinquent_vote, FALSE),
           Readonly(b.reference_vote, FALSE) >> \o b.remaining)
DeactivateDelinquentCpiBuilder(b) ==
    Built(b, {"stake", "delinquent_vote", "reference_vote"},
          DeactivateDelinquentCpi(Filled(b, << >>)))

-----------------------------------------------------------------------------
(* Authorities and lockup.                                                 *)

AuthorizeCpi(b) ==
    Discriminated(1, [new |-> b.arg0, who |-> b.arg1],
        WithOptional(<< Writable(b.stake, FALSE),
                        Readonly(b.clock_sysvar, FALSE),
                        Readonly(b.authority, TRUE) >>, b.lockup_authority)
            \o b.remaining)
AuthorizeCpiBuilder(b) ==
    Built(b, {"stake", "clock_sysvar", "authority", "arg0", "arg1"},
          AuthorizeCpi(Filled(b, [lockup_authority |-> NoKey])))

AuthorizeCheckedCpi(b) ==
    Discriminated(10, [who |-> b.stake_authorize],
        WithOptional(<< Writable(b.stake, FALSE),
                        Readonly(b.clock_sysvar, FALSE),
                        Readonly(b.authority, TRUE),
                        Readonly(b.new_authority, TRUE) >>, b.lockup_authority)
            \o b.remaining)
AuthorizeCheckedCpiBuilder(b) ==
    Built(b, {"stake", "clock_sysvar", "authority", "new_authority",
              "stake_authorize"},
          AuthorizeCheckedCpi(Filled(b, [lockup_authority |-> NoKey])))

AuthorizeWithSeedCpi(b) ==
    Discriminated(8, [new |-> b.new_authorized_pubkey, who |-> b.stake_authorize,
                      seed |-> b.authority_seed],
        WithOptional(<< Writable(b.stake, FALSE), Readonly(b.base, TRUE),
                        Readonly(b.clock_sysvar, FALSE) >>, b.lockup_authority)
            \o b.remaining)
AuthorizeWithSeedCpiBuilder(b) ==
    Built(b, {"stake", "base", "clock_sysvar", "new_authorized_pubkey",
              "stake_authorize", "authority_seed"},
          AuthorizeWithSeedCpi(Filled(b, [lockup_authority |-> NoKey])))

AuthorizeCheckedWithSeedCpi(b) ==
    Discriminated(11, [who |-> b.stake_authorize, seed |-> b.authority_seed],
        WithOptional(<< Writable(b.stake, FALSE), Readonly(b.base, TRUE),
                        Readonly(b.clock_sysvar, FALSE),
                        Readonly(b.new_authority, TRUE) >>, b.lockup_authority)
            \o b.remaining)
AuthorizeCheckedWithSeedCpiBuilder(b) ==
    Built(b, {"stake", "base", "clock_sysvar", "new_authority",
              "stake_authorize", "authority_seed"},
          AuthorizeCheckedWithSeedCpi(Filled(b, [lockup_authority |-> NoKey])))

SetLockupCpi(b) ==
    Discriminated(6, [lockup |-> [unix_timestamp |-> b.unix_timestamp,
                                  epoch |-> b.epoch, custodian |-> b.custodian]],
        << Writable(b.stake, FALSE), Readonly(b.authority, TRUE) >>
            \o b.remaining)
SetLockupCpiBuilder(b) ==
    Built(b, {"stake", "authority"},
          SetLockupCpi(Filled(b,
              [unix_timestamp |-> Unset, epoch |-> Unset, custodian |-> Unset])))

SetLockupCheckedCpi(b) ==
    Discriminated(12, [unix_timestamp |-> b.unix_timestamp, epoch |-> b.epoch],
        WithOptional(<< Writable(b.stake, FALSE),
                        Readonly(b.authority, TRUE) >>, b.new_authority)
            \o b.remaining)
SetLockupCheckedCpiBuilder(b) ==
    Built(b, {"stake", "authority"},
          SetLockupCheckedCpi(Filled(b,
              [unix_timestamp |-> Unset, epoch |-> Unset, new_authority |-> NoKey])))

-----------------------------------------------------------------------------
(* Lamports.                                                               *)

SplitCpi(b) ==
    Discriminated(3, [lamports |-> b.args],
        << Writable(b.stake, FALSE), Writable(b.split_stake, FALSE),
           Readonly(b.stake_authority, TRUE) >> \o b.remaining)
SplitCpiBuilder(b) ==
    Built(b, {"stake", "split_stake", "stake_authority", "args"},
          SplitCpi(Filled(b, << >>)))

MergeCpi(b) ==
    Discriminated(7, << >>,
        << Writable(b.destination_stake, FALSE),
           Writable(b.source_stake, FALSE), Readonly(b.clock_sysvar, FALSE),
           Readonly(b.stake_history, FALSE),
           Readonly(b.stake_authority, TRUE) >> \o b.remaining)
MergeCpiBuilder(b) ==
    Built(b, {"destination_stake", "source_stake", "clock_sysvar",
              "stake_history", "stake_authority"},
          MergeCpi(Filled(b, << >>)))

WithdrawCpi(b) ==
    Discriminated(4, [lamports |-> b.args],
        WithOptional(<< Writable(b.stake, FALSE), Writable(b.recipient, FALSE),
                        Readonly(b.clock_sysvar, FALSE),
                        Readonly(b.stake_history, FALSE),
                        Readonly(b.withdraw_authority, TRUE) >>, b.lockup_authority)
            \o b.remaining)
WithdrawCpiBuilder(b) ==
    Built(b, {"stake", "recipient", "clock_sysvar", "stake_history",
              "withdraw_authority", "args"},
          WithdrawCpi(Filled(b, [lockup_authority |-> NoKey])))

MoveStakeCpi(b) ==
    Discriminated(16, [lamports |-> b.args],
        << Writable(b.source_stake, FALSE),
           Writable(b.destination_stake, FALSE),
           Readonly(b.stake_authority, TRUE) >> \o b.remaining)
MoveStakeCpiBuilder(b) ==
    Built(b, {"source_stake", "destination_stake", "stake_authority", "args"},
          MoveStakeCpi(Filled(b, << >>)))

MoveLamportsCpi(b) ==
    Discriminated(17, [lamports |-> b.args],
        << Writable(b.source_stake, FALSE),
           Writable(b.destination_stake, FALSE),
           Readonly(b.stake_authority, TRUE) >> \o b.remaining)
MoveLamportsCpiBuilder(b) ==
    Built(b, {"source_stake", "destination_stake", "stake_authority", "args"},
          MoveLamportsCpi(Filled(b, << >>)))

GetMinimumDelegationCpi(b) == Discriminated(13, << >>, b.remaining)
GetMinimumDelegationCpiBuilder(b) == GetMinimumDelegationCpi(Filled(b, << >>))

=============================================================================
