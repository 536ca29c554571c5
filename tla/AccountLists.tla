---------------------------- MODULE AccountLists ----------------------------
(***************************************************************************)
(* What passes between a client and the stake program: instructions with   *)
(* their account lists, and the message that carries them (both of the     *)
(* Solana SDK, as src/ uses them).                                         *)
(*                                                                         *)
(* An account meta names a key and says whether it signs and whether it    *)
(* may be written.  An instruction is [name, args, accounts].              *)
(***************************************************************************)
EXTENDS StakeMeta, Sequences

CONSTANTS
    CLOCK_ID, RENT_ID, STAKE_HISTORY_ID,   \* the sysvar accounts
    CONFIG_ID,                             \* the stake config account
    Seeds,                                 \* seeds, each with an owner
    CreateWithSeed   \* Pubkey::create_with_seed, NoKey where it is an error

Sysvars == {CLOCK_ID, RENT_ID, STAKE_HISTORY_ID, CONFIG_ID}

ASSUME AccountConstants ==
    /\ Sysvars \cap (Keys \cup {NoKey}) = {}
    /\ CLOCK_ID # RENT_ID
    /\ CreateWithSeed \in [Keys \X Seeds -> Keys \cup {NoKey}]

\* AccountMeta::new and AccountMeta::new_readonly.
Writable(key, signs) ==
    [pubkey |-> key, is_signer |-> signs, is_writable |-> TRUE]
Readonly(key, signs) ==
    [pubkey |-> key, is_signer |-> signs, is_writable |-> FALSE]

\* An optional account goes last, and signs.
WithOptional(accounts, key) ==
    IF key = NoKey THEN accounts ELSE Append(accounts, Readonly(key, TRUE))

Instruction(name, args, accounts) ==
    [name |-> name, args |-> args, accounts |-> accounts]

-----------------------------------------------------------------------------
(* A message lists each key once: its flags are those of all the metas     *)
(* that name it, in any instruction of the transaction.                    *)

Mentions(tx) ==
    UNION {{tx[i].accounts[j] : j \in DOMAIN tx[i].accounts} : i \in DOMAIN tx}

SignerKeys(tx) == {m.pubkey : m \in {n \in Mentions(tx) : n.is_signer}}
WritableKeys(tx) == {m.pubkey : m \in {n \in Mentions(tx) : n.is_writable}}

\* The account infos the program gets for an account list.
Loaded(accounts, signers, writable) ==
    [j \in DOMAIN accounts |->
        [pubkey      |-> accounts[j].pubkey,
         is_signer   |-> accounts[j].pubkey \in signers,
         is_writable |-> accounts[j].pubkey \in writable]]

=============================================================================
