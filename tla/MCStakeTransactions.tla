-------------------------- MODULE MCStakeTransactions --------------------------
(***************************************************************************)
(* Transactions submitted to the program, for TLC: what the builders build *)
(* over small sets, alone and put together, and some that no builder       *)
(* builds.                                                                 *)
(***************************************************************************)
EXTENDS StakeTransactionProperties, StakeAccess, MCValues

Lone(instructions) == {<< ix >> : ix \in instructions}

\* The same transaction in the layout without sysvar accounts.
Short(transactions) ==
    {[i \in DOMAIN tx |-> WithoutSysvars(tx[i])] : tx \in transactions}

\* The same instructions with the account at a place not signing.
Unsigned(instructions, place) ==
    {[ix EXCEPT !.accounts[place].is_signer = FALSE] :
        ix \in {other \in instructions : place \in DOMAIN other.accounts}}

\* Seeds are named for what they derive: the address of each account from
\* bob's key, an authority from alice's.  Other owners of a seed are illegal.
MCSeeds == Accounts \cup {seeded}
MCCreateWithSeed ==
    [derivation \in Keys \X MCSeeds |->
        IF derivation \in ({bob} \X Accounts) \cup {<< alice, seeded >>}
        THEN derivation[2] ELSE NoKey]

Signatories == {alice, bob}
Parts == [staker : Parties, withdrawer : Parties]
Custodian == {NoKey, bob}

\* What the interface is checked over.
MCLockups == {DefaultLockup, LockedBy(1, 0, bob)}
MCChanges == {LockedBy(Unset, 1, Unset), LockedBy(1, Unset, alice)}

-----------------------------------------------------------------------------
(* Two keys over two accounts, under lockups.                              *)

Created ==
    {create_account(Wallet, a, parts, lockup, n) :
        a \in Accounts, parts \in Parts, lockup \in InitialLockups, n \in Amounts}
    \cup {create_account_checked(Wallet, a, parts, n) :
        a \in Accounts, parts \in Parts, n \in Amounts}
    \cup {create_account_with_seed_checked(Wallet, a, bob, a, parts, n) :
        a \in Accounts, parts \in Parts, n \in Amounts}

Reauthorized ==
    {authorize(a, signer, new, who, custodian) :
        a \in Accounts, signer, new \in Signatories, who \in StakeAuthorize,
        custodian \in Custodian}
    \cup {authorize_checked(a, signer, new, who, custodian) :
        a \in Accounts, signer, new \in Signatories, who \in StakeAuthorize,
        custodian \in Custodian}

SeedAuthorized ==
    {authorize_with_seed(a, base, seeded, new, who, custodian) :
        a \in Accounts, base \in Signatories, new \in Parties,
        who \in StakeAuthorize, custodian \in Custodian}
    \cup {authorize_checked_with_seed(a, base, seeded, new, who, custodian) :
        a \in Accounts, base, new \in Signatories, who \in StakeAuthorize,
        custodian \in Custodian}

Relocked ==
    {set_lockup(a, change, signer) :
        a \in Accounts, change \in LockupChanges, signer \in Signatories}
    \cup {set_lockup_checked(a, change, signer) :
        a \in Accounts, change \in LockupChanges, signer \in Signatories}

Withdrawn ==
    {withdraw(a, signer, to, n, custodian) :
        a \in Accounts, signer \in Signatories, to \in Holders, n \in Amounts,
        custodian \in Custodian}

\* Both accounts at once: each key signs for its own account.
WithdrawnTogether ==
    {<< withdraw(a, alice, Wallet, n, NoKey), withdraw(b, bob, Wallet, n, NoKey) >> :
        a, b \in Accounts, n \in Amounts}

\* An account that is closed gets lamports again before it ceases to exist.
Refilled ==
    {<< withdraw(a, signer, Wallet, n, NoKey), transfer(Wallet, a, n) >> :
        a \in Accounts, signer \in Signatories, n \in Amounts}

\* As the tests split: the destination is created with its rent first.
SplitOff ==
    {system_create_account(Wallet, to, reserve)
        \o << split(from, signer, n, to)[3] >> :
        from, to \in Accounts, signer \in Signatories, n \in Amounts,
        reserve \in RentValues \cap Amounts}
    \cup {split_with_seed(from, signer, n, to, bob, to) :
        from, to \in Accounts, signer \in Signatories, n \in Amounts}

\* Refused in any form.
Redelegated ==
    {redelegate(a, signer, v, to) :
        a, to \in Accounts, signer \in Signatories, v \in Voters}
    \cup {redelegate_with_seed(a, signer, v, to, bob, to) :
        a, to \in Accounts, signer \in Signatories, v \in Voters}

Joined ==
    {merge(to, from, signer)[1] :
        to, from \in Accounts, signer \in Signatories}
    \cup {move_lamports(from, to, signer, n) :
        from, to \in Accounts, signer \in Signatories, n \in Amounts}

Submissions ==
    LET alone == Reauthorized \cup SeedAuthorized \cup Relocked \cup Withdrawn
                   \cup Joined
    IN  Created \cup WithdrawnTogether \cup Refilled \cup SplitOff \cup Lone(alone)
          \cup Short(Lone(alone))
          \cup Lone(Unsigned(alone, 2) \cup Unsigned(alone, 3)
                      \cup Unsigned(alone, 4) \cup Unsigned(alone, 5)
                      \cup Unsigned(alone, 6))

-----------------------------------------------------------------------------
(* Two keys over two accounts, with delegations to two validators.         *)

\* Delegations and money are in different hands.
Divided == {parts \in Parts : parts.staker # parts.withdrawer}

CreatedAndDelegated ==
    {create_account_and_delegate_stake(Wallet, a, v, parts, DefaultLockup, n) :
        a \in Accounts, v \in Voters, parts \in Divided, n \in Amounts}
    \cup {create_account_with_seed_and_delegate_stake(
              Wallet, a, bob, a, v, parts, DefaultLockup, n) :
        a \in Accounts, v \in Voters, parts \in Divided, n \in Amounts}

Delegated ==
    {delegate_stake(a, signer, v) :
        a \in Accounts, signer \in Signatories, v \in Voters}
    \cup {deactivate_stake(a, signer) : a \in Accounts, signer \in Signatories}

Forced ==
    {deactivate_delinquent_stake(a, delinquent, reference) :
        a \in Accounts, delinquent, reference \in Voters}

Regrouped ==
    {merge(to, from, signer)[1] : to, from \in Accounts, signer \in Signatories}
    \cup {move_stake(from, to, signer, n) :
        from, to \in Accounts, signer \in Signatories, n \in Amounts}

Delegations ==
    LET ordinary == Delegated \cup Regrouped
    IN  CreatedAndDelegated \cup SplitOff \cup Redelegated
          \cup {system_create_account(Wallet, a, 1) : a \in Accounts}
          \cup Lone(ordinary \cup Forced \cup Withdrawn \cup {get_minimum_delegation})
          \cup Short(Lone(ordinary))
          \cup Lone(Unsigned(ordinary, 3) \cup Unsigned(ordinary, 5)
                      \cup Unsigned(ordinary, 6))

=============================================================================
