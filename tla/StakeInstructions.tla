-------------------------- MODULE StakeInstructions --------------------------
(***************************************************************************)
(* The instruction builders of interface/src/instruction.rs, under their   *)
(* names.  They list the accounts in the layout with sysvar accounts.      *)
(*                                                                         *)
(* authorized is [staker, withdrawer]; an optional key that is absent is   *)
(* NoKey.  A builder of several instructions returns their sequence, and   *)
(* so do those of the system program: create_account is an Assign (the     *)
(* account is the stake program's from then on) and a Transfer.            *)
(***************************************************************************)
EXTENDS AccountLists

\* The builders of the system program's interface.
allocate(account) ==
    Instruction("Allocate", << >>, << Writable(account, TRUE) >>)
assign(account) ==
    Instruction("Assign", << >>, << Writable(account, TRUE) >>)
allocate_with_seed(account, base, seed) ==
    Instruction("AllocateWithSeed", [seed |-> seed],
        << Writable(account, FALSE), Readonly(base, TRUE) >>)
transfer(from, to, amount) ==
    Instruction("Transfer", [lamports |-> amount],
        << Writable(from, TRUE), Writable(to, FALSE) >>)
system_create_account(from, to, amount) ==
    << assign(to), transfer(from, to, amount) >>
system_create_account_with_seed(from, to, base, seed, amount) ==
    << allocate_with_seed(to, base, seed), transfer(from, to, amount) >>

-----------------------------------------------------------------------------
(* Creation.                                                               *)

initialize(stake, authorized, lockup) ==
    Instruction("Initialize", [authorized |-> authorized, lockup |-> lockup],
        << Writable(stake, FALSE), Readonly(RENT_ID, FALSE) >>)

initialize_checked(stake, authorized) ==
    Instruction("InitializeChecked", << >>,
        << Writable(stake, FALSE), Readonly(RENT_ID, FALSE),
           Readonly(authorized.staker, FALSE),
           Readonly(authorized.withdrawer, TRUE) >>)

create_account_with_seed(from, stake, base, seed, authorized, lockup, amount) ==
    system_create_account_with_seed(from, stake, base, seed, amount)
        \o << initialize(stake, authorized, lockup) >>

create_account(from, stake, authorized, lockup, amount) ==
    system_create_account(from, stake, amount)
        \o << initialize(stake, authorized, lockup) >>

create_account_with_seed_checked(from, stake, base, seed, authorized, amount) ==
    system_create_account_with_seed(from, stake, base, seed, amount)
        \o << initialize_checked(stake, authorized) >>

create_account_checked(from, stake, authorized, amount) ==
    system_create_account(from, stake, amount)
        \o << initialize_checked(stake, authorized) >>

-----------------------------------------------------------------------------
(* Delegation and its end.                                                 *)

delegate_stake(stake, authorized, vote) ==
    Instruction("DelegateStake", << >>,
        << Writable(stake, FALSE), Readonly(vote, FALSE),
           Readonly(CLOCK_ID, FALSE), Readonly(STAKE_HISTORY_ID, FALSE),
           Readonly(CONFIG_ID, FALSE), Readonly(authorized, TRUE) >>)

\* Mutant: the withdrawer is named where the staker must sign.
create_account_delegated_wrongly(from, stake, vote, authorized, lockup, amount) ==
    create_account(from, stake, authorized, lockup, amount)
        \o << delegate_stake(stake, authorized.withdrawer, vote) >>

create_account_and_delegate_stake(from, stake, vote, authorized, lockup, amount) ==
    create_account(from, stake, authorized, lockup, amount)
        \o << delegate_stake(stake, authorized.staker, vote) >>

create_account_with_seed_and_delegate_stake(from, to, base, seed, vote, parts, lock, n) ==
    create_account_with_seed(from, to, base, seed, parts, lock, n)
        \o << delegate_stake(to, parts.staker, vote) >>

deactivate_stake(stake, authorized) ==
    Instruction("Deactivate", << >>,
        << Writable(stake, FALSE), Readonly(CLOCK_ID, FALSE),
           Readonly(authorized, TRUE) >>)

deactivate_delinquent_stake(stake, delinquent, reference) ==
    Instruction("DeactivateDelinquent", << >>,
        << Writable(stake, FALSE), Readonly(delinquent, FALSE),
           Readonly(reference, FALSE) >>)

_redelegate(stake, authorized, vote, uninitialized) ==
    Instruction("Redelegate", << >>,
        << Writable(stake, FALSE), Writable(uninitialized, FALSE),
           Readonly(vote, FALSE), Readonly(CONFIG_ID, FALSE),
           Readonly(authorized, TRUE) >>)

redelegate(stake, authorized, vote, uninitialized) ==
    << allocate(uninitialized), assign(uninitialized),
       _redelegate(stake, authorized, vote, uninitialized) >>

redelegate_with_seed(stake, authorized, vote, uninitialized, base, seed) ==
    << allocate_with_seed(uninitialized, base, seed),
       _redelegate(stake, authorized, vote, uninitialized) >>

-----------------------------------------------------------------------------
(* Authorities and lockup.                                                 *)

authorize(stake, authorized, new, who, custodian) ==
    Instruction("Authorize", [new |-> new, who |-> who],
        WithOptional(<< Writable(stake, FALSE), Readonly(CLOCK_ID, FALSE),
                        Readonly(authorized, TRUE) >>, custodian))

authorize_checked(stake, authorized, new, who, custodian) ==
    Instruction("AuthorizeChecked", [who |-> who],
        WithOptional(<< Writable(stake, FALSE), Readonly(CLOCK_ID, FALSE),
                        Readonly(authorized, TRUE), Readonly(new, TRUE) >>,
                     custodian))

authorize_with_seed(stake, base, seed, new, who, custodian) ==
    Instruction("AuthorizeWithSeed", [new |-> new, who |-> who, seed |-> seed],
        WithOptional(<< Writable(stake, FALSE), Readonly(base, TRUE),
                        Readonly(CLOCK_ID, FALSE) >>, custodian))

authorize_checked_with_seed(stake, base, seed, new, who, custodian) ==
    Instruction("AuthorizeCheckedWithSeed", [who |-> who, seed |-> seed],
        WithOptional(<< Writable(stake, FALSE), Readonly(base, TRUE),
                        Readonly(CLOCK_ID, FALSE), Readonly(new, TRUE) >>,
                     custodian))

set_lockup(stake, lockup, custodian) ==
    Instruction("SetLockup", [lockup |-> lockup],
        << Writable(stake, FALSE), Readonly(custodian, TRUE) >>)

\* The new custodian is an account here, not an argument.
set_lockup_checked(stake, lockup, custodian) ==
    Instruction("SetLockupChecked",
        [unix_timestamp |-> lockup.unix_timestamp, epoch |-> lockup.epoch],
        WithOptional(<< Writable(stake, FALSE), Readonly(custodian, TRUE) >>,
                     IF lockup.custodian = Unset THEN NoKey ELSE lockup.custodian))

-----------------------------------------------------------------------------
(* Lamports.                                                               *)

_split(stake, authorized, amount, split_stake) ==
    Instruction("Split", [lamports |-> amount],
        << Writable(stake, FALSE), Writable(split_stake, FALSE),
           Readonly(authorized, TRUE) >>)

split(stake, authorized, amount, split_stake) ==
    << allocate(split_stake), assign(split_stake),
       _split(stake, authorized, amount, split_stake) >>

split_with_seed(stake, authorized, amount, split_stake, base, seed) ==
    << allocate_with_seed(split_stake, base, seed),
       _split(stake, authorized, amount, split_stake) >>

merge(destination, source, authorized) ==
    << Instruction("Merge", << >>,
         << Writable(destination, FALSE), Writable(source, FALSE),
            Readonly(CLOCK_ID, FALSE), Readonly(STAKE_HISTORY_ID, FALSE),
            Readonly(authorized, TRUE) >>) >>

\* Mutant: the accounts that changed with the layout are in the wrong order.
withdraw_swapped(stake, withdrawer, to, amount, custodian) ==
    Instruction("Withdraw", [lamports |-> amount],
        WithOptional(<< Writable(stake, FALSE), Writable(to, FALSE),
                        Readonly(STAKE_HISTORY_ID, FALSE), Readonly(CLOCK_ID, FALSE),
                        Readonly(withdrawer, TRUE) >>, custodian))

withdraw(stake, withdrawer, to, amount, custodian) ==
    Instruction("Withdraw", [lamports |-> amount],
        WithOptional(<< Writable(stake, FALSE), Writable(to, FALSE),
                        Readonly(CLOCK_ID, FALSE), Readonly(STAKE_HISTORY_ID, FALSE),
                        Readonly(withdrawer, TRUE) >>, custodian))

move_stake(source, destination, authorized, amount) ==
    Instruction("MoveStake", [lamports |-> amount],
        << Writable(source, FALSE), Writable(destination, FALSE),
           Readonly(authorized, TRUE) >>)

move_lamports(source, destination, authorized, amount) ==
    Instruction("MoveLamports", [lamports |-> amount],
        << Writable(source, FALSE), Writable(destination, FALSE),
           Readonly(authorized, TRUE) >>)

get_minimum_delegation == Instruction("GetMinimumDelegation", << >>, << >>)

=============================================================================
