---------------------------- MODULE StakeProcessor ----------------------------
(***************************************************************************)
(* What the process_* functions of program/src/processor.rs read from an   *)
(* account list: which accounts the instruction is about, whose signatures *)
(* it goes by, and whether the list is accepted at all.  The result is an  *)
(* operation, which StakeTransactions carries out, or Refused.             *)
(*                                                                         *)
(* The old layout has sysvar accounts before the authority, the new one    *)
(* has not and requires the authority to sign where it is listed; the      *)
(* functions tell them apart by the key at that place.  accounts is what   *)
(* the message makes of the list (AccountLists!Loaded).                    *)
(***************************************************************************)
EXTENDS AccountLists

Refused == [op |-> "Refused"]

\* next_account_info: the account at a place of the list, if there is one.
Absent == [pubkey |-> NoKey, is_signer |-> FALSE, is_writable |-> FALSE]
At(accounts, i) == IF i \in DOMAIN accounts THEN accounts[i] ELSE Absent

\* Mutant: every account counts as a signer.
collect_accounts(accounts) ==
    {accounts[i].pubkey : i \in DOMAIN accounts}

collect_signers(accounts) ==
    {accounts[i].pubkey : i \in {j \in DOMAIN accounts : accounts[j].is_signer}}

\* Mutant: a custodian that is listed counts.
NeedNotSign(account) == TRUE

\* collect_signers_checked: an account that is given must sign.
SignsIfGiven(account) == account = Absent \/ account.is_signer

KeyOf(account) == {account.pubkey} \ {NoKey}

\* The custodian of the older instructions: ignored unless it signs.
SignedKey(account) == IF account.is_signer THEN account.pubkey ELSE NoKey

OldLayout(accounts, i) == At(accounts, i).pubkey = CLOCK_ID

\* Mutant: the layout without sysvars has to be as long as the other one.
DivergeLong(accounts, i, length) ==
    /\ Len(accounts) >= length
    /\ OldLayout(accounts, i) \/ At(accounts, i).is_signer

\* "diverge": in the old layout the authority may sign anywhere in a list of
\* at least `length` accounts, in the new one it signs at this place.
Diverge(accounts, i, length) ==
    IF OldLayout(accounts, i) THEN Len(accounts) >= length
    ELSE At(accounts, i).is_signer

\* Mutant: the list always has the sysvar accounts.
ConvergeOld(accounts, i, sysvars) == i + sysvars

\* "converge": the place of the account that comes after the sysvars, if any.
Converge(accounts, i, sysvars) ==
    IF OldLayout(accounts, i) THEN i + sysvars ELSE i

\* The address derived from a base that signed; none if it cannot be derived.
SeedSigner(base, seed) ==
    IF base.is_signer THEN {CreateWithSeed[<< base.pubkey, seed >>]} ELSE {}

-----------------------------------------------------------------------------
(* Operations.                                                             *)

Initialization(stake, staker, withdrawer, lockup) ==
    [op |-> "Initialize", stake |-> stake, lockup |-> lockup,
     staker |-> staker, withdrawer |-> withdrawer]
Authorization(stake, signers, new, who, custodian) ==
    [op |-> "Authorize", stake |-> stake, signers |-> signers, new |-> new,
     who |-> who, custodian |-> custodian]
LockupChange(stake, signers, lockup) ==
    [op |-> "SetLockup", stake |-> stake, signers |-> signers, lockup |-> lockup]
Delegation(stake, signers, vote) ==
    [op |-> "DelegateStake", stake |-> stake, signers |-> signers, vote |-> vote]
Deactivation(stake, signers) ==
    [op |-> "Deactivate", stake |-> stake, signers |-> signers]
ForcedDeactivation(stake, delinquent, reference) ==
    [op |-> "DeactivateDelinquent", stake |-> stake,
     delinquent |-> delinquent, reference |-> reference]
Withdrawal(from, to, signers, custodian, amount) ==
    [op |-> "Withdraw", from |-> from, to |-> to, signers |-> signers,
     custodian |-> custodian, lamports |-> amount]
Merging(to, from, signers) ==
    [op |-> "Merge", from |-> from, to |-> to, signers |-> signers]
\* Split, MoveStake and MoveLamports.
Moving(op, from, to, signers, amount) ==
    [op |-> op, from |-> from, to |-> to, signers |-> signers,
     lamports |-> amount]
Query == [op |-> "GetMinimumDelegation"]

-----------------------------------------------------------------------------
(* The functions.                                                          *)

process_initialize(accounts, args) ==
    IF accounts = << >> THEN Refused
    ELSE Initialization(accounts[1].pubkey, args.authorized.staker,
                        args.authorized.withdrawer, args.lockup)

process_initialize_checked(accounts) ==
    LET i == IF At(accounts, 2).pubkey = RENT_ID THEN 3 ELSE 2
    IN  IF ~At(accounts, i + 1).is_signer THEN Refused
        ELSE Initialization(accounts[1].pubkey, accounts[i].pubkey,
                            accounts[i + 1].pubkey, DefaultLockup)

process_authorize(accounts, args) ==
    LET custodian == At(accounts, Converge(accounts, 2, 1) + 1)
    IN  IF ~Diverge(accounts, 2, 3) THEN Refused
        ELSE Authorization(accounts[1].pubkey, collect_signers(accounts),
                           args.new, args.who, SignedKey(custodian))

process_authorize_checked(accounts, args) ==
    LET i == Converge(accounts, 2, 1) + 1
    IN  IF ~Diverge(accounts, 2, 3) \/ ~At(accounts, i).is_signer THEN Refused
        ELSE Authorization(accounts[1].pubkey, collect_signers(accounts),
                           accounts[i].pubkey, args.who,
                           SignedKey(At(accounts, i + 1)))

process_authorize_with_seed(accounts, args) ==
    LET custodian == At(accounts, Converge(accounts, 3, 1))
        derived   == SeedSigner(At(accounts, 2), args.seed)
    IN  IF Len(accounts) < 2 \/ ~SignsIfGiven(custodian) \/ NoKey \in derived
        THEN Refused
        ELSE Authorization(accounts[1].pubkey, KeyOf(custodian) \cup derived,
                           args.new, args.who, custodian.pubkey)

process_authorize_checked_with_seed(accounts, args) ==
    LET i         == Converge(accounts, 3, 1)
        new       == At(accounts, i)
        custodian == At(accounts, i + 1)
        derived   == SeedSigner(At(accounts, 2), args.seed)
    IN  IF ~new.is_signer \/ ~SignsIfGiven(custodian) \/ NoKey \in derived
        THEN Refused
        ELSE Authorization(accounts[1].pubkey,
                           KeyOf(new) \cup KeyOf(custodian) \cup derived,
                           new.pubkey, args.who, custodian.pubkey)

process_set_lockup(accounts, args) ==
    IF accounts = << >> THEN Refused
    ELSE LockupChange(accounts[1].pubkey, collect_signers(accounts), args.lockup)

process_set_lockup_checked(accounts, args) ==
    LET custodian == At(accounts, 3)
    IN  IF accounts = << >> \/ ~SignsIfGiven(custodian) THEN Refused
        ELSE LockupChange(accounts[1].pubkey, collect_signers(accounts),
                [unix_timestamp |-> args.unix_timestamp, epoch |-> args.epoch,
                 custodian |-> IF custodian = Absent THEN Unset
                               ELSE custodian.pubkey])

process_delegate(accounts) ==
    IF ~Diverge(accounts, 3, 5) THEN Refused
    ELSE Delegation(accounts[1].pubkey, collect_signers(accounts),
                    accounts[2].pubkey)

process_deactivate(accounts) ==
    IF ~Diverge(accounts, 2, 2) THEN Refused
    ELSE Deactivation(accounts[1].pubkey, collect_signers(accounts))

process_deactivate_delinquent(accounts) ==
    IF Len(accounts) < 3 THEN Refused
    ELSE ForcedDeactivation(accounts[1].pubkey, accounts[2].pubkey,
                            accounts[3].pubkey)

process_split(accounts, args) ==
    IF Len(accounts) < 2 THEN Refused
    ELSE Moving("Split", accounts[1].pubkey, accounts[2].pubkey,
                collect_signers(accounts), args.lamports)

process_withdraw(accounts, args) ==
    LET i         == Converge(accounts, 3, 2)
        authority == At(accounts, i)
        custodian == At(accounts, i + 1)
    IN  IF ~authority.is_signer \/ ~SignsIfGiven(custodian) THEN Refused
        ELSE Withdrawal(accounts[1].pubkey, accounts[2].pubkey,
                        KeyOf(authority) \cup KeyOf(custodian),
                        custodian.pubkey, args.lamports)

process_merge(accounts) ==
    IF ~Diverge(accounts, 3, 4) THEN Refused
    ELSE Merging(accounts[1].pubkey, accounts[2].pubkey, collect_signers(accounts))

\* move_stake_or_lamports_shared_checks: the authority at its place signs, and
\* both accounts are writable.
process_move(op, accounts, args) ==
    LET authority == At(accounts, 3)
    IN  IF \/ ~authority.is_signer
           \/ ~(accounts[1].is_writable /\ accounts[2].is_writable)
        THEN Refused
        ELSE Moving(op, accounts[1].pubkey, accounts[2].pubkey,
                    KeyOf(authority), args.lamports)

-----------------------------------------------------------------------------
(* The system program's part, and the dispatch.                            *)

\* An account is created by its own signature or its base's.
process_assign(accounts) ==
    IF ~At(accounts, 1).is_signer THEN Refused
    ELSE [op |-> "Assign", stake |-> accounts[1].pubkey]
process_allocate(accounts) ==
    IF ~At(accounts, 1).is_signer THEN Refused
    ELSE [op |-> "Allocate", stake |-> accounts[1].pubkey]
process_allocate_with_seed(accounts, args) ==
    IF SeedSigner(At(accounts, 2), args.seed) # {accounts[1].pubkey} THEN Refused
    ELSE [op |-> "Assign", stake |-> accounts[1].pubkey]
process_transfer(accounts, args) ==
    IF ~At(accounts, 1).is_signer THEN Refused
    ELSE [op |-> "Transfer", from |-> accounts[1].pubkey,
          to |-> accounts[2].pubkey, lamports |-> args.lamports]

\* The variants of StakeInstruction, and the system program's.
InstructionNames ==
    {"Initialize", "InitializeChecked", "Authorize", "AuthorizeChecked",
     "AuthorizeWithSeed", "AuthorizeCheckedWithSeed", "SetLockup",
     "SetLockupChecked", "DelegateStake", "Deactivate", "DeactivateDelinquent",
     "Split", "Withdraw", "Merge", "MoveStake", "MoveLamports",
     "GetMinimumDelegation", "Redelegate",
     "Assign", "Allocate", "AllocateWithSeed", "Transfer"}

\* Processor::process, by the variant of StakeInstruction.
process(name, accounts, args) ==
    CASE name = "Initialize"        -> process_initialize(accounts, args)
      [] name = "InitializeChecked" -> process_initialize_checked(accounts)
      [] name = "Authorize"         -> process_authorize(accounts, args)
      [] name = "AuthorizeChecked"  -> process_authorize_checked(accounts, args)
      [] name = "AuthorizeWithSeed" -> process_authorize_with_seed(accounts, args)
      [] name = "AuthorizeCheckedWithSeed" ->
            process_authorize_checked_with_seed(accounts, args)
      [] name = "SetLockup"         -> process_set_lockup(accounts, args)
      [] name = "SetLockupChecked"  -> process_set_lockup_checked(accounts, args)
      [] name = "DelegateStake"     -> process_delegate(accounts)
      [] name = "Deactivate"        -> process_deactivate(accounts)
      [] name = "DeactivateDelinquent" -> process_deactivate_delinquent(accounts)
      [] name = "Split"             -> process_split(accounts, args)
      [] name = "Withdraw"          -> process_withdraw(accounts, args)
      [] name = "Merge"             -> process_merge(accounts)
      [] name \in {"MoveStake", "MoveLamports"} ->
            process_move(name, accounts, args)
      [] name = "GetMinimumDelegation" -> Query
      [] name = "Redelegate"        -> Refused
      [] name = "Assign"            -> process_assign(accounts)
      [] name = "Allocate"          -> process_allocate(accounts)
      [] name = "AllocateWithSeed"  -> process_allocate_with_seed(accounts, args)
      [] name = "Transfer"          -> process_transfer(accounts, args)

\* The accounts an operation writes to.
Writes(operation) ==
    {operation[f] : f \in DOMAIN operation \cap {"stake", "from", "to"}}

\* What an instruction asks for in a message with these signers and writable
\* accounts.  The runtime refuses writes to other accounts.
Read(ix, signers, writable) ==
    LET operation == process(ix.name, Loaded(ix.accounts, signers, writable),
                             ix.args)
    IN  IF Writes(operation) \subseteq writable THEN operation ELSE Refused

=============================================================================
