------------------------ MODULE StakeTransactionProofs ------------------------
(***************************************************************************)
(* Proofs about transactions: what process_* reads from an account list is *)
(* consented to by signers of the transaction, so that every transaction   *)
(* is a sequence of steps of StakeProgram, signed by those who signed it.  *)
(***************************************************************************)
EXTENDS StakeTransactionProperties, StakeProgramProofs

-----------------------------------------------------------------------------
(* What is read from account lists.                                        *)

\* The keys that an operation goes by are signers of the message, or derived
\* from one in the way that StakeProgram allows.
Honest(r, signers) ==
    /\ r.op \in {"SetLockup", "DelegateStake", "Deactivate", "Split", "Merge",
                 "MoveStake", "MoveLamports", "Withdraw"} => r.signers \subseteq signers
    /\ r.op \in {"Authorize", "Withdraw"} => r.custodian \in signers \cup {NoKey}
    /\ r.op = "Authorize" =>
          \/ r.signers \subseteq signers
          \/ \E base \in signers \cap Keys, extra \in {{}, {r.new} \cap signers} :
             \E derived \in DerivedKeys[base] :
                r.signers \subseteq SeedSigners(signers, base, derived, r.custodian, extra)

\* Accounts that are shown to sign are signers of the message.
LEMMA ShownSigners ==
  ASSUME NEW list, NEW signers, NEW writable
  PROVE  LET accounts == Loaded(list, signers, writable)
         IN  /\ collect_signers(accounts) \subseteq signers
             /\ \A i : LET account == At(accounts, i)
                       IN  /\ account.is_signer => account.pubkey \in signers
                           /\ SignsIfGiven(account) =>
                                 /\ account.pubkey \in signers \cup {NoKey}
                                 /\ KeyOf(account) \subseteq signers
                           /\ SignedKey(account) \in signers \cup {NoKey}
<1>. DEFINE accounts == Loaded(list, signers, writable)
<1>1. \A i \in DOMAIN accounts :
         accounts[i].is_signer => accounts[i].pubkey \in signers
  BY DEF Loaded
<1>2. collect_signers(accounts) \subseteq signers
  BY <1>1 DEF collect_signers
<1>3. ~Absent.is_signer /\ Absent.pubkey = NoKey
  BY DEF Absent
<1>. HIDE DEF accounts
<1>4. \A i : LET account == At(accounts, i)
             IN  account.is_signer => account.pubkey \in signers
  BY <1>1, <1>3 DEF At
<1>. QED
  BY <1>2, <1>3, <1>4 DEF SignsIfGiven, KeyOf, SignedKey, accounts

\* Addresses derived from a signer, as SeedSigner returns them.
DerivedBySigner(addresses, signers) ==
    \E key \in signers \cap Keys, address \in Keys :
        address \in DerivedKeys[key] /\ addresses = {address}

\* The address of a base that signs is one that StakeProgram derives from it.
LEMMA ShownDerivation ==
  ASSUME NEW ix, DerivedFrom(ix), NEW signers, NEW writable,
         NEW derived,
         derived = SeedSigner(At(Loaded(ix.accounts, signers, writable), 2),
                              ix.args.seed)
  PROVE  \/ derived = {}
         \/ NoKey \in derived
         \/ DerivedBySigner(derived, signers)
<1>. DEFINE accounts == Loaded(ix.accounts, signers, writable)
            base == At(accounts, 2)
            address == CreateWithSeed[<< base.pubkey, ix.args.seed >>]
<1>1. base.is_signer => base.pubkey \in signers
  BY ShownSigners
<1>2. base.is_signer => base.pubkey = At(ix.accounts, 2).pubkey
  BY DEF Loaded, At, Absent
<1>3. base.is_signer =>
         /\ base.pubkey \in Keys
         /\ address \in DerivedKeys[base.pubkey] \cup {NoKey}
  BY <1>2 DEF DerivedFrom
<1>4. derived = IF base.is_signer THEN {address} ELSE {}
  BY DEF SeedSigner
<1>. HIDE DEF base, address
<1>5. \/ derived = {}
      \/ NoKey \in derived
      \/ DerivedBySigner(derived, signers)
  BY <1>1, <1>3, <1>4, ProgramConstants DEF DerivedBySigner
<1>. QED
  BY <1>5

\* Authorize and AuthorizeChecked go by all signers of their lists.
LEMMA ReadAuthorize ==
  ASSUME NEW list, NEW args, NEW signers, NEW writable
  PROVE  LET accounts == Loaded(list, signers, writable)
         IN  \A r \in {process_authorize(accounts, args),
                       process_authorize_checked(accounts, args)} :
                r # Refused => Honest(r, signers) /\ r.op = "Authorize"
<1>. DEFINE accounts == Loaded(list, signers, writable)
<1>. SUFFICES ASSUME NEW r \in {process_authorize(accounts, args),
                               process_authorize_checked(accounts, args)},
                     r # Refused
              PROVE  Honest(r, signers) /\ r.op = "Authorize"
  OBVIOUS
<1>1. /\ collect_signers(accounts) \subseteq signers
      /\ \A i : SignedKey(At(accounts, i)) \in signers \cup {NoKey}
  BY ShownSigners
<1>. HIDE DEF accounts
<1>2. \E i, new, who : r = Authorization(accounts[1].pubkey, collect_signers(accounts),
                                         new, who, SignedKey(At(accounts, i)))
  BY DEF process_authorize, process_authorize_checked
<1>. QED
  BY <1>1, <1>2 DEF Honest, Authorization

\* AuthorizeWithSeed goes by the derived address and the custodian.
LEMMA ReadAuthorizeWithSeed ==
  ASSUME NEW ix, DerivedFrom(ix), NEW signers, NEW writable
  PROVE  LET r == process_authorize_with_seed(Loaded(ix.accounts, signers, writable),
                                              ix.args)
         IN  r # Refused => Honest(r, signers) /\ r.op = "Authorize"
<1>. DEFINE accounts == Loaded(ix.accounts, signers, writable)
            base == At(accounts, 2)
            custodian == At(accounts, Converge(accounts, 3, 1))
            derived == SeedSigner(base, ix.args.seed)
            r == process_authorize_with_seed(accounts, ix.args)
<1>. SUFFICES ASSUME r # Refused
              PROVE  Honest(r, signers) /\ r.op = "Authorize"
  OBVIOUS
<1>1. /\ SignsIfGiven(custodian) /\ NoKey \notin derived
      /\ r = Authorization(accounts[1].pubkey, KeyOf(custodian) \cup derived,
                           ix.args.new, ix.args.who, custodian.pubkey)
  BY DEF process_authorize_with_seed
<1>2. /\ custodian.pubkey \in signers \cup {NoKey}
      /\ KeyOf(custodian) \subseteq signers
  BY <1>1, ShownSigners
<1>3. \/ derived = {}
      \/ DerivedBySigner(derived, signers)
  <2>1. derived = SeedSigner(At(Loaded(ix.accounts, signers, writable), 2),
                             ix.args.seed)
    OBVIOUS
  <2>. HIDE DEF r, custodian, derived
  <2>2. \/ derived = {}
        \/ NoKey \in derived
        \/ DerivedBySigner(derived, signers)
    BY <2>1, ShownDerivation
  <2>. QED
    BY <1>1, <2>2
<1>. HIDE DEF r, derived, custodian, accounts
<1>4. /\ r.op = "Authorize" /\ r.custodian = custodian.pubkey
      /\ r.signers = KeyOf(custodian) \cup derived
  BY <1>1 DEF Authorization
<1>5. CASE derived = {}
  BY <1>2, <1>4, <1>5 DEF Honest
<1>6. ASSUME NEW key \in signers \cap Keys, NEW address \in DerivedKeys[key],
             derived = {address}
      PROVE  Honest(r, signers)
  <2>1. r.signers \subseteq SeedSigners(signers, key, address, r.custodian, {})
    BY <1>4, <1>6 DEF SeedSigners, KeyOf
  <2>. QED
    BY <1>2, <1>4, <2>1 DEF Honest
<1>. QED
  BY <1>3, <1>4, <1>5, <1>6 DEF DerivedBySigner

\* AuthorizeCheckedWithSeed goes by the new authority as well.
LEMMA ReadAuthorizeCheckedWithSeed ==
  ASSUME NEW ix, DerivedFrom(ix), NEW signers, NEW writable
  PROVE  LET r == process_authorize_checked_with_seed(
                      Loaded(ix.accounts, signers, writable), ix.args)
         IN  r # Refused => Honest(r, signers) /\ r.op = "Authorize"
<1>. DEFINE accounts == Loaded(ix.accounts, signers, writable)
            base == At(accounts, 2)
            new == At(accounts, Converge(accounts, 3, 1))
            custodian == At(accounts, Converge(accounts, 3, 1) + 1)
            derived == SeedSigner(base, ix.args.seed)
            r == process_authorize_checked_with_seed(accounts, ix.args)
<1>. SUFFICES ASSUME r # Refused
              PROVE  Honest(r, signers) /\ r.op = "Authorize"
  OBVIOUS
<1>1. /\ new.is_signer /\ SignsIfGiven(custodian) /\ NoKey \notin derived
      /\ r = Authorization(accounts[1].pubkey,
                           KeyOf(new) \cup KeyOf(custodian) \cup derived,
                           new.pubkey, ix.args.who, custodian.pubkey)
  BY DEF process_authorize_checked_with_seed
<1>2. /\ custodian.pubkey \in signers \cup {NoKey}
      /\ KeyOf(custodian) \subseteq signers
      /\ new.pubkey \in signers
      /\ KeyOf(new) \subseteq signers
  BY <1>1, ShownSigners DEF KeyOf
<1>3. \/ derived = {}
      \/ DerivedBySigner(derived, signers)
  <2>1. derived = SeedSigner(At(Loaded(ix.accounts, signers, writable), 2),
                             ix.args.seed)
    OBVIOUS
  <2>. HIDE DEF r, custodian, derived
  <2>2. \/ derived = {}
        \/ NoKey \in derived
        \/ DerivedBySigner(derived, signers)
    BY <2>1, ShownDerivation
  <2>. QED
    BY <1>1, <2>2
<1>. HIDE DEF r, derived, custodian, new, accounts
<1>4. /\ r.op = "Authorize" /\ r.custodian = custodian.pubkey
      /\ r.signers = KeyOf(new) \cup KeyOf(custodian) \cup derived
      /\ r.new = new.pubkey
  BY <1>1 DEF Authorization
<1>5. CASE derived = {}
  BY <1>2, <1>4, <1>5 DEF Honest
<1>6. ASSUME NEW key \in signers \cap Keys, NEW address \in DerivedKeys[key],
             derived = {address}
      PROVE  Honest(r, signers)
  <2>1. r.signers \subseteq
           SeedSigners(signers, key, address, r.custodian, {r.new} \cap signers)
    BY <1>2, <1>4, <1>6 DEF SeedSigners, KeyOf
  <2>. QED
    BY <1>2, <1>4, <2>1 DEF Honest
<1>. QED
  BY <1>3, <1>4, <1>5, <1>6 DEF DerivedBySigner

\* The functions that go by collect_signers, or by the accounts at one or two
\* places.
LEMMA ReadOthers ==
  ASSUME NEW list, NEW args, NEW signers, NEW writable
  PROVE  LET accounts == Loaded(list, signers, writable)
         IN  \A r \in {process_set_lockup(accounts, args),
                       process_set_lockup_checked(accounts, args),
                       process_delegate(accounts), process_deactivate(accounts),
                       process_split(accounts, args), process_merge(accounts),
                       process_withdraw(accounts, args),
                       process_move("MoveStake", accounts, args),
                       process_move("MoveLamports", accounts, args)} :
                r # Refused =>
                   /\ r.signers \subseteq signers
                   /\ r.op = "Withdraw" => r.custodian \in signers \cup {NoKey}
                   /\ r.op # "Authorize"
<1>. DEFINE accounts == Loaded(list, signers, writable)
<1>1. /\ collect_signers(accounts) \subseteq signers
      /\ \A i : LET account == At(accounts, i)
                IN  /\ account.is_signer => account.pubkey \in signers
                    /\ SignsIfGiven(account) =>
                          /\ account.pubkey \in signers \cup {NoKey}
                          /\ KeyOf(account) \subseteq signers
  BY ShownSigners
<1>. HIDE DEF accounts
<1>2. \A account : account.pubkey \in signers => KeyOf(account) \subseteq signers
  BY DEF KeyOf
<1>3. ASSUME NEW r \in {process_set_lockup(accounts, args),
                        process_set_lockup_checked(accounts, args)},
             r # Refused
      PROVE  r.signers \subseteq signers /\ r.op = "SetLockup"
  BY <1>1, <1>3 DEF process_set_lockup, process_set_lockup_checked, LockupChange
<1>4. ASSUME NEW r \in {process_delegate(accounts), process_deactivate(accounts),
                        process_split(accounts, args), process_merge(accounts)},
             r # Refused
      PROVE  /\ r.signers \subseteq signers
             /\ r.op \in {"DelegateStake", "Deactivate", "Split", "Merge"}
  BY <1>1, <1>4 DEF process_delegate, process_deactivate, process_split,
                    process_merge, Delegation, Deactivation, Moving, Merging
<1>5. ASSUME NEW r, r = process_withdraw(accounts, args), r # Refused
      PROVE  /\ r.signers \subseteq signers
             /\ r.custodian \in signers \cup {NoKey}
             /\ r.op = "Withdraw"
  <2>. DEFINE authority == At(accounts, Converge(accounts, 3, 2))
              custodian == At(accounts, Converge(accounts, 3, 2) + 1)
  <2>1. /\ authority.is_signer /\ SignsIfGiven(custodian)
        /\ r = Withdrawal(accounts[1].pubkey, accounts[2].pubkey,
                          KeyOf(authority) \cup KeyOf(custodian),
                          custodian.pubkey, args.lamports)
    BY <1>5 DEF process_withdraw
  <2>2. /\ authority.pubkey \in signers
        /\ custodian.pubkey \in signers \cup {NoKey}
        /\ KeyOf(custodian) \subseteq signers
    BY <1>1, <2>1
  <2>. HIDE DEF authority, custodian
  <2>. QED
    BY <1>2, <2>1, <2>2 DEF Withdrawal
<1>6. ASSUME NEW op \in {"MoveStake", "MoveLamports"}, NEW r,
             r = process_move(op, accounts, args), r # Refused
      PROVE  r.signers \subseteq signers /\ r.op = op
  <2>. DEFINE authority == At(accounts, 3)
  <2>1. /\ authority.is_signer
        /\ r = Moving(op, accounts[1].pubkey, accounts[2].pubkey, KeyOf(authority),
                      args.lamports)
    BY <1>6 DEF process_move
  <2>2. authority.pubkey \in signers
    BY <1>1, <2>1
  <2>. HIDE DEF authority
  <2>. QED
    BY <1>2, <2>1, <2>2 DEF Moving
<1>. QED
  <2>. SUFFICES ASSUME NEW r \in {process_set_lockup(accounts, args),
                                 process_set_lockup_checked(accounts, args),
                                 process_delegate(accounts),
                                 process_deactivate(accounts),
                                 process_split(accounts, args),
                                 process_merge(accounts),
                                 process_withdraw(accounts, args),
                                 process_move("MoveStake", accounts, args),
                                 process_move("MoveLamports", accounts, args)},
                       r # Refused
                PROVE  /\ r.signers \subseteq signers
                       /\ r.op = "Withdraw" => r.custodian \in signers \cup {NoKey}
                       /\ r.op # "Authorize"
    BY DEF accounts
  <2>1. CASE r \in {process_set_lockup(accounts, args),
                    process_set_lockup_checked(accounts, args)}
    BY <1>3, <2>1
  <2>2. CASE r \in {process_delegate(accounts), process_deactivate(accounts),
                    process_split(accounts, args), process_merge(accounts)}
    BY <1>4, <2>2
  <2>3. CASE r = process_withdraw(accounts, args)
    BY <1>5, <2>3
  <2>4. CASE r \in {process_move("MoveStake", accounts, args),
                    process_move("MoveLamports", accounts, args)}
    BY <1>6, <2>4
  <2>. QED
    BY <2>1, <2>2, <2>3, <2>4

\* The functions whose operation goes by nobody's signature.
LEMMA ReadUnsigned ==
  ASSUME NEW accounts, NEW args
  PROVE  \A r \in {process_initialize(accounts, args),
                   process_initialize_checked(accounts),
                   process_deactivate_delinquent(accounts), Query, Refused,
                   process_assign(accounts), process_allocate(accounts),
                   process_allocate_with_seed(accounts, args),
                   process_transfer(accounts, args)} :
            r # Refused =>
               r.op \in {"Initialize", "DeactivateDelinquent", "GetMinimumDelegation",
                         "Assign", "Allocate", "Transfer"}
BY DEF process_initialize, process_initialize_checked, process_deactivate_delinquent,
       Query, process_assign, process_allocate, process_allocate_with_seed,
       process_transfer, Initialization, ForcedDeactivation

(***************************************************************************)
(* Whatever an account list looks like, and however the message merged its *)
(* flags, the keys that the program goes by are signers of the message or  *)
(* derived from one.                                                       *)
(***************************************************************************)
THEOREM ReadHonestly ==
  ASSUME NEW ix, ix.name \in InstructionNames,
         ix.name \in {"AuthorizeWithSeed", "AuthorizeCheckedWithSeed"} =>
            DerivedFrom(ix),
         NEW signers, NEW writable, Read(ix, signers, writable) # Refused
  PROVE  Honest(Read(ix, signers, writable), signers)
<1>. DEFINE accounts == Loaded(ix.accounts, signers, writable)
            r == process(ix.name, accounts, ix.args)
<1>1. Read(ix, signers, writable) = r /\ r # Refused
  BY DEF Read
<1>. HIDE DEF r, accounts
<1>2. CASE ix.name \in {"Authorize", "AuthorizeChecked"}
  <2>1. r \in {process_authorize(accounts, ix.args),
               process_authorize_checked(accounts, ix.args)}
    BY <1>2 DEF r, process
  <2>. QED
    BY <1>1, <2>1, ReadAuthorize DEF accounts
<1>3. CASE ix.name = "AuthorizeWithSeed"
  <2>1. r = process_authorize_with_seed(accounts, ix.args)
    BY <1>3 DEF r, process
  <2>. QED
    BY <1>1, <1>3, <2>1, ReadAuthorizeWithSeed DEF accounts
<1>4. CASE ix.name = "AuthorizeCheckedWithSeed"
  <2>1. r = process_authorize_checked_with_seed(accounts, ix.args)
    BY <1>4 DEF r, process
  <2>. QED
    BY <1>1, <1>4, <2>1, ReadAuthorizeCheckedWithSeed DEF accounts
<1>5. CASE ix.name \in {"SetLockup", "SetLockupChecked", "DelegateStake",
                        "Deactivate", "Split", "Withdraw", "Merge", "MoveStake",
                        "MoveLamports"}
  <2>1. r \in {process_set_lockup(accounts, ix.args),
               process_set_lockup_checked(accounts, ix.args),
               process_delegate(accounts), process_deactivate(accounts),
               process_split(accounts, ix.args), process_merge(accounts),
               process_withdraw(accounts, ix.args),
               process_move("MoveStake", accounts, ix.args),
               process_move("MoveLamports", accounts, ix.args)}
    BY <1>5 DEF r, process
  <2>2. /\ r.signers \subseteq signers
        /\ r.op = "Withdraw" => r.custodian \in signers \cup {NoKey}
        /\ r.op # "Authorize"
    BY <1>1, <2>1, ReadOthers DEF accounts
  <2>. QED
    BY <1>1, <2>2 DEF Honest
<1>6. CASE ix.name \in {"Initialize", "InitializeChecked", "DeactivateDelinquent",
                        "GetMinimumDelegation", "Redelegate", "Assign", "Allocate",
                        "AllocateWithSeed", "Transfer"}
  <2>1. r \in {process_initialize(accounts, ix.args),
               process_initialize_checked(accounts),
               process_deactivate_delinquent(accounts), Query, Refused,
               process_assign(accounts), process_allocate(accounts),
               process_allocate_with_seed(accounts, ix.args),
               process_transfer(accounts, ix.args)}
    BY <1>6 DEF r, process
  <2>2. r.op \in {"Initialize", "DeactivateDelinquent", "GetMinimumDelegation",
                  "Assign", "Allocate", "Transfer"}
    BY <1>1, <2>1, ReadUnsigned
  <2>. QED
    BY <1>1, <2>2 DEF Honest
<1>. QED
  BY <1>2, <1>3, <1>4, <1>5, <1>6 DEF InstructionNames

-----------------------------------------------------------------------------
(* More signers allow no less.                                             *)

\* A custodian that is no key of the model is none.
Known(custodian) == IF custodian \in Keys THEN custodian ELSE NoKey

LEMMA AuthorizeMonotone ==
  ASSUME NEW meta \in Meta, NEW signers, NEW more, NEW who \in StakeAuthorize,
         NEW custodian, NEW now, signers \cap Keys \subseteq more,
         MayAuthorize(meta, signers, who, now, custodian)
  PROVE  MayAuthorize(meta, more, who, now, Known(custodian))
<1>1. /\ meta.staker \in Keys /\ meta.withdrawer \in Keys
      /\ meta.lockup.custodian \in Keys
  BY DEF Meta, Lockup
<1>2. CASE who = "Staker"
  BY <1>1, <1>2 DEF MayAuthorize
<1>3. CASE who = "Withdrawer"
  <2>1. /\ IsInForce(meta.lockup, now, NoKey) =>
              /\ custodian \in signers
              /\ ~IsInForce(meta.lockup, now, custodian)
        /\ Check(meta, signers, "Withdrawer")
    BY <1>3 DEF MayAuthorize
  <2>2. Check(meta, more, "Withdrawer")
    BY <1>1, <2>1 DEF Check
  <2>3. ASSUME IsInForce(meta.lockup, now, NoKey)
        PROVE  /\ Known(custodian) \in more
               /\ ~IsInForce(meta.lockup, now, Known(custodian))
    <3>1. custodian = meta.lockup.custodian
      BY <2>1, <2>3 DEF IsInForce
    <3>. QED
      BY <1>1, <2>1, <2>3, <3>1 DEF Known
  <2>. QED
    BY <1>3, <2>2, <2>3 DEF MayAuthorize
<1>. QED
  BY <1>2, <1>3 DEF StakeAuthorize

LEMMA CheckMonotone ==
  ASSUME NEW meta \in Meta, NEW signers, NEW more, signers \cap Keys \subseteq more,
         NEW who \in StakeAuthorize, Check(meta, signers, who)
  PROVE  Check(meta, more, who)
BY DEF Meta, Check, StakeAuthorize

LEMMA SetLockupMonotone ==
  ASSUME NEW meta \in Meta, NEW signers, NEW more, signers \cap Keys \subseteq more,
         NEW now, MaySetLockup(meta, signers, now)
  PROVE  MaySetLockup(meta, more, now)
BY DEF Meta, Lockup, MaySetLockup

\* The meta of an account that has one.
LEMMA MetaOK ==
  ASSUME Inv, NEW a \in Accounts, HasMeta(data[a])
  PROVE  data[a].meta \in Meta
BY DEF Inv, AccountsOK, HasMeta, AccountData, StakeStateV2, Uninitialized,
       NoAccount, Closed

\* Whoever must sign an instruction may sign among others.
LEMMA InstructionsMonotone ==
  ASSUME Inv, NEW a \in Accounts, NEW signers, NEW more,
         signers \cap Keys \subseteq more
  PROVE  /\ \A new, custodian : \A who \in StakeAuthorize :
               DoAuthorize(a, signers, new, who, custodian)
                 => DoAuthorize(a, more, new, who, Known(custodian))
         /\ \A args : DoSetLockup(a, signers, args) => DoSetLockup(a, more, args)
         /\ \A v : Delegate(signers, a, v) => Delegate(more, a, v)
         /\ Deactivate(signers, a) => Deactivate(more, a)
         /\ \A to \in Accounts : Merge(signers, to, a) => Merge(more, to, a)
<1>1. \A new, custodian : \A who \in StakeAuthorize :
         DoAuthorize(a, signers, new, who, custodian)
           => DoAuthorize(a, more, new, who, Known(custodian))
  BY MetaOK, AuthorizeMonotone DEF DoAuthorize
<1>2. \A args : DoSetLockup(a, signers, args) => DoSetLockup(a, more, args)
  BY MetaOK, SetLockupMonotone DEF DoSetLockup
<1>3. "Staker" \in StakeAuthorize /\ "Withdrawer" \in StakeAuthorize
  BY DEF StakeAuthorize
<1>4. \A b \in Accounts, who \in StakeAuthorize :
         HasMeta(data[b]) /\ Check(data[b].meta, signers, who)
           => Check(data[b].meta, more, who)
  BY MetaOK, CheckMonotone
<1>5. \A v : Delegate(signers, a, v) => Delegate(more, a, v)
  BY <1>3, <1>4 DEF Delegate
<1>6. Deactivate(signers, a) => Deactivate(more, a)
  BY <1>3, <1>4 DEF Deactivate, IsStake, HasMeta
<1>7. ASSUME NEW to \in Accounts, Merge(signers, to, a) PROVE Merge(more, to, a)
  BY <1>3, <1>4, <1>7 DEF Merge, Mergeable
<1>. QED
  BY <1>1, <1>2, <1>5, <1>6, <1>7

\* Lamports that move are in an account whose authority signs.
LEMMA MovesMonotone ==
  ASSUME Inv, NEW from \in Accounts, NEW to \in Accounts, NEW n, NEW signers,
         NEW more, signers \cap Keys \subseteq more
  PROVE  /\ SplitFull(signers, from, to, n) => SplitFull(more, from, to, n)
         /\ SplitInactive(signers, from, to, n) => SplitInactive(more, from, to, n)
         /\ SplitActive(signers, from, to, n) => SplitActive(more, from, to, n)
         /\ MoveStake(signers, from, to, n) => MoveStake(more, from, to, n)
         /\ MoveLamports(signers, from, to, n) => MoveLamports(more, from, to, n)
<1>1. HasMeta(data[from]) /\ Check(data[from].meta, signers, "Staker")
        => Check(data[from].meta, more, "Staker")
  BY MetaOK, CheckMonotone DEF StakeAuthorize
<1>2. from \in signers => from \in more
  BY ProgramConstants
<1>3. SplitChecks(signers, from, to, n) => SplitChecks(more, from, to, n)
  BY <1>1, <1>2 DEF SplitChecks
<1>4. MoveChecks(signers, from, to, n) => MoveChecks(more, from, to, n)
  BY <1>1 DEF MoveChecks, Mergeable
<1>5. /\ SplitFull(signers, from, to, n) => SplitFull(more, from, to, n)
      /\ SplitInactive(signers, from, to, n) => SplitInactive(more, from, to, n)
      /\ SplitActive(signers, from, to, n) => SplitActive(more, from, to, n)
  BY <1>3 DEF SplitFull, SplitInactive, SplitActive
<1>6. /\ MoveStake(signers, from, to, n) => MoveStake(more, from, to, n)
      /\ MoveLamports(signers, from, to, n) => MoveLamports(more, from, to, n)
  BY <1>4 DEF MoveStake, MoveStakeChecks, MoveLamports
<1>. QED
  BY <1>5, <1>6

LEMMA WithdrawMonotone ==
  ASSUME Inv, NEW a \in Accounts, NEW to, NEW n, NEW custodian, NEW signers,
         NEW more, signers \cap Keys \subseteq more
  PROVE  /\ WithdrawAll(signers, a, to, custodian)
              => WithdrawAll(more, a, to, Known(custodian))
         /\ WithdrawPart(signers, a, to, n, custodian)
              => WithdrawPart(more, a, to, n, Known(custodian))
<1>1. HasMeta(data[a]) => data[a].meta \in Meta
  BY MetaOK
<1>2. HasMeta(data[a]) /\ Check(data[a].meta, signers, "Withdrawer")
        => Check(data[a].meta, more, "Withdrawer")
  BY <1>1, CheckMonotone DEF StakeAuthorize
<1>3. HasMeta(data[a]) /\ ~IsInForce(data[a].meta.lockup, clock, custodian)
        => ~IsInForce(data[a].meta.lockup, clock, Known(custodian))
  BY <1>1 DEF Meta, Lockup, IsInForce, Known
<1>4. a \in signers => a \in more
  BY ProgramConstants
<1>5. MayWithdraw(signers, a, custodian) => MayWithdraw(more, a, Known(custodian))
  BY <1>2, <1>3, <1>4 DEF MayWithdraw
<1>. QED
  BY <1>5 DEF WithdrawAll, WithdrawPart

-----------------------------------------------------------------------------
(* What an operation does is a step of StakeProgram.                       *)

\* Authorize in its four forms.
LEMMA AuthorizeImplements ==
  ASSUME Inv, NEW r, r.op = "Authorize", WithinBounds(r), NEW signers,
         Honest(r, signers), r.stake \in Accounts,
         DoAuthorize(r.stake, r.signers, r.new, r.who, r.custodian)
  PROVE  LET S == signers \cap Keys
         IN  \/ Authorize(S, r.stake)
             \/ AuthorizeWithSeed(S, r.stake)
             \/ AuthorizeCheckedWithSeed(S, r.stake)
<1>. DEFINE S == signers \cap Keys
            custodian == Known(r.custodian)
<1>1. /\ r.new \in Parties /\ r.new \in Keys /\ r.who \in StakeAuthorize
  BY InputsOK DEF WithinBounds
<1>2. custodian \in Custodians(S)
  BY DEF Honest, Known, Custodians
<1>3. \A more : r.signers \cap Keys \subseteq more
                  => DoAuthorize(r.stake, more, r.new, r.who, custodian)
  BY <1>1, InstructionsMonotone
<1>4. CASE r.signers \subseteq signers
  <2>1. DoAuthorize(r.stake, S, r.new, r.who, custodian)
    BY <1>3, <1>4
  <2>. QED
    BY <1>1, <1>2, <2>1 DEF Authorize
<1>5. ASSUME NEW base \in S, NEW derived \in DerivedKeys[base],
             r.signers \subseteq SeedSigners(signers, base, derived, r.custodian, {})
      PROVE  AuthorizeWithSeed(S, r.stake)
  <2>. DEFINE more == SeedSigners(S, base, derived, custodian, {})
  <2>1. r.signers \cap Keys \subseteq more
    BY <1>5, MetaConstants DEF SeedSigners, Known
  <2>2. DoAuthorize(r.stake, more, r.new, r.who, custodian)
    BY <1>3, <2>1
  <2>. HIDE DEF custodian
  <2>. QED
    BY <1>1, <1>2, <2>2 DEF AuthorizeWithSeed
<1>6. ASSUME NEW base \in S, NEW derived \in DerivedKeys[base], r.new \in S,
             r.signers \subseteq
                SeedSigners(signers, base, derived, r.custodian, {r.new})
      PROVE  AuthorizeCheckedWithSeed(S, r.stake)
  <2>. DEFINE more == SeedSigners(S, base, derived, custodian, {r.new})
  <2>1. r.signers \cap Keys \subseteq more
    BY <1>6, MetaConstants DEF SeedSigners, Known
  <2>2. DoAuthorize(r.stake, more, r.new, r.who, custodian)
    BY <1>3, <2>1
  <2>. HIDE DEF custodian
  <2>. QED
    BY <1>1, <1>2, <1>6, <2>2 DEF AuthorizeCheckedWithSeed
<1>7. CASE ~(r.signers \subseteq signers)
  <2>1. PICK base \in S, extra \in {{}, {r.new} \cap signers} :
           \E derived \in DerivedKeys[base] :
              r.signers \subseteq SeedSigners(signers, base, derived, r.custodian, extra)
    BY <1>7 DEF Honest
  <2>2. extra = {} \/ (extra = {r.new} /\ r.new \in S)
    BY <1>1, <2>1
  <2>. HIDE DEF S
  <2>. QED
    BY <1>5, <1>6, <2>1, <2>2 DEF S
<1>. QED
  BY <1>4, <1>7

\* The other instructions on one account.
LEMMA OnStakeImplements ==
  ASSUME Inv, NEW r, WithinBounds(r), NEW signers, Honest(r, signers),
         PerformOnStake(r), ~rewards_active
  PROVE  Process(signers \cap Keys)
<1>. DEFINE S == signers \cap Keys
<1>1. r.stake \in Accounts
  BY DEF PerformOnStake
<1>2. r.op \in {"SetLockup", "DelegateStake", "Deactivate"} =>
         r.signers \cap Keys \subseteq S
  BY DEF Honest
<1>3. CASE r.op = "Initialize" /\ DoInitialize(r.stake, r.staker, r.withdrawer, r.lockup)
  <2>1. Initialize(r.stake)
    BY <1>3 DEF WithinBounds, Initialize
  <2>. QED
    BY <1>1, <2>1 DEF Process
<1>4. CASE /\ r.op = "Authorize"
           /\ DoAuthorize(r.stake, r.signers, r.new, r.who, r.custodian)
  <2>1. \/ Authorize(S, r.stake)
        \/ AuthorizeWithSeed(S, r.stake)
        \/ AuthorizeCheckedWithSeed(S, r.stake)
    BY <1>1, <1>4, AuthorizeImplements
  <2>. HIDE DEF S
  <2>2. Process(S)
    BY <1>1, <2>1 DEF Process
  <2>. QED
    BY <2>2 DEF S
<1>5. CASE r.op = "SetLockup" /\ DoSetLockup(r.stake, r.signers, r.lockup)
  <2>1. DoSetLockup(r.stake, S, r.lockup)
    BY <1>1, <1>2, <1>5, InstructionsMonotone
  <2>2. SetLockup(S, r.stake)
    BY <1>5, <2>1 DEF WithinBounds, SetLockup
  <2>. HIDE DEF S
  <2>3. Process(S)
    BY <1>1, <2>2 DEF Process
  <2>. QED
    BY <2>3 DEF S
<1>6. CASE /\ r.op = "DelegateStake" /\ r.vote \in Voters
           /\ Delegate(r.signers, r.stake, r.vote)
  <2>1. Delegate(S, r.stake, r.vote)
    BY <1>1, <1>2, <1>6, InstructionsMonotone
  <2>. HIDE DEF S
  <2>2. Process(S)
    BY <1>1, <1>6, <2>1 DEF Process
  <2>. QED
    BY <2>2 DEF S
<1>7. CASE r.op = "Deactivate" /\ Deactivate(r.signers, r.stake)
  <2>1. Deactivate(S, r.stake)
    BY <1>1, <1>2, <1>7, InstructionsMonotone
  <2>. HIDE DEF S
  <2>2. Process(S)
    BY <1>1, <2>1 DEF Process
  <2>. QED
    BY <2>2 DEF S
<1>8. CASE /\ r.op = "DeactivateDelinquent"
           /\ {r.delinquent, r.reference} \subseteq Voters
           /\ DeactivateDelinquent(r.stake, r.delinquent, r.reference)
  BY <1>1, <1>8 DEF Process
<1>. QED
  BY <1>3, <1>4, <1>5, <1>6, <1>7, <1>8 DEF PerformOnStake

\* The instructions between two accounts.
LEMMA BetweenImplements ==
  ASSUME Inv, NEW r, WithinBounds(r), NEW signers, Honest(r, signers),
         PerformBetween(r), ~rewards_active
  PROVE  Process(signers \cap Keys)
<1>. DEFINE S == signers \cap Keys
<1>1. /\ r.from \in Accounts
      /\ r.op \in {"Withdraw", "Split", "Merge", "MoveStake", "MoveLamports"}
  BY DEF PerformBetween
<1>2. r.signers \cap Keys \subseteq S
  BY <1>1 DEF Honest
<1>3. CASE r.op = "Withdraw" /\ PerformWithdraw(r)
  <2>. DEFINE custodian == Known(r.custodian)
              to == Holder(r.to)
  <2>1. to \in Holders
    BY DEF Holder, Holders
  <2>2. custodian \in Custodians(S) /\ r.lamports \in Amounts
    BY <1>3 DEF Honest, WithinBounds, Known, Custodians
  <2>3. \/ WithdrawAll(r.signers, r.from, to, r.custodian)
        \/ WithdrawPart(r.signers, r.from, to, r.lamports, r.custodian)
    BY <1>3 DEF PerformWithdraw
  <2>. HIDE DEF to, S
  <2>4. \/ WithdrawAll(S, r.from, to, custodian)
        \/ WithdrawPart(S, r.from, to, r.lamports, custodian)
    BY <1>1, <1>2, <2>3, WithdrawMonotone
  <2>. HIDE DEF custodian
  <2>5. Withdraw(S, r.from, to)
    BY <2>2, <2>4 DEF Withdraw
  <2>6. Process(S)
    BY <1>1, <2>1, <2>5 DEF Process
  <2>. QED
    BY <2>6 DEF S
<1>4. CASE r.op # "Withdraw"
  <2>1. r.to \in Accounts
    BY <1>4 DEF PerformBetween
  <2>. HIDE DEF S
  <2>2. CASE r.op = "Merge" /\ Merge(r.signers, r.to, r.from)
    <3>1. Merge(S, r.to, r.from)
      BY <1>1, <1>2, <2>1, <2>2, InstructionsMonotone
    <3>2. Process(S)
      BY <1>1, <2>1, <3>1 DEF Process
    <3>. QED
      BY <3>2 DEF S
  <2>3. CASE r.op # "Merge"
    <3>1. \/ r.op = "Split" /\ PerformSplit(r)
          \/ r.op = "MoveStake" /\ MoveStake(r.signers, r.from, r.to, r.lamports)
          \/ r.op = "MoveLamports" /\ MoveLamports(r.signers, r.from, r.to, r.lamports)
      BY <1>4, <2>3 DEF PerformBetween
    <3>2. \/ SplitFull(S, r.from, r.to, r.lamports)
          \/ SplitInactive(S, r.from, r.to, r.lamports)
          \/ SplitActive(S, r.from, r.to, r.lamports)
          \/ MoveStake(S, r.from, r.to, r.lamports)
          \/ MoveLamports(S, r.from, r.to, r.lamports)
      BY <1>1, <1>2, <2>1, <3>1, MovesMonotone DEF PerformSplit
    <3>3. r.lamports \in Amounts
      BY <3>1 DEF WithinBounds
    <3>4. Process(S)
      BY <1>1, <2>1, <3>2, <3>3 DEF Process
    <3>. QED
      BY <3>4 DEF S
  <2>. QED
    BY <1>4, <2>2, <2>3 DEF PerformBetween
<1>. QED
  BY <1>3, <1>4 DEF PerformBetween

\* Every operation, those of the system program included.
LEMMA PerformImplements ==
  ASSUME Inv, NEW r, WithinBounds(r), NEW signers, Honest(r, signers), Perform(r)
  PROVE  Process(signers \cap Keys) \/ Runtime \/ UNCHANGED vars
<1>1. CASE ~rewards_active /\ PerformOnStake(r)
  BY <1>1, OnStakeImplements
<1>2. CASE ~rewards_active /\ PerformBetween(r)
  BY <1>2, BetweenImplements
<1>3. CASE PerformSystem(r)
  <2>1. r.op = "Transfer" => r.lamports \in Amounts
    BY DEF WithinBounds
  <2>. QED
    BY <1>3, <2>1 DEF PerformSystem, Runtime
<1>. QED
  BY <1>1, <1>2, <1>3 DEF Perform

-----------------------------------------------------------------------------
(* Transactions.                                                           *)

\* What is left of a transaction, as TransactionTypeOK has it.
PendingOK ==
    /\ signed \subseteq UNION {request.signers : request \in Requests}
    /\ pending # Nothing =>
          /\ signed = pending.signers
          /\ \E request \in Requests :
             \E i \in 2..Len(request.operations) :
                pending = [request EXCEPT !.operations = SubSeq(@, i, Len(@))]

\* A request is a sequence of operations that are within bounds and go by the
\* signers of the request.
LEMMA RequestOK ==
  ASSUME NEW request \in Requests
  PROVE  LET operations == request.operations
         IN  /\ request = [signers |-> request.signers, operations |-> operations]
             /\ operations \in Seq({operations[i] : i \in DOMAIN operations})
             /\ Len(operations) \in Nat \ {0}
             /\ \A i \in 1..Len(operations) :
                   WithinBounds(operations[i]) /\ Honest(operations[i], request.signers)
<1>. DEFINE operations == request.operations
<1>1. PICK tx \in Submitted : request = Requested(tx)
  BY DEF Requests
<1>2. \A i \in DOMAIN operations : operations[i] # Refused
  BY DEF Requests
<1>3. /\ request.signers = SignerKeys(tx)
      /\ operations = [i \in DOMAIN tx |->
                         Read(tx[i], SignerKeys(tx), WritableKeys(tx))]
      /\ request = [signers |-> request.signers, operations |-> operations]
  BY <1>1 DEF Requested
<1>. DEFINE listed == UNION {{other[i] : i \in DOMAIN other} : other \in Submitted}
<1>4. /\ tx \in Seq(listed) \ {<< >>}
      /\ \A ix \in listed :
            /\ ix.name \in InstructionNames
            /\ ix.name \in {"AuthorizeWithSeed", "AuthorizeCheckedWithSeed"} =>
                  DerivedFrom(ix)
      /\ \A i \in DOMAIN operations : WithinBounds(operations[i])
  BY <1>1, TransactionConstants
<1>. HIDE DEF listed
<1>5. /\ DOMAIN tx = 1..Len(tx) /\ Len(tx) \in Nat \ {0}
      /\ \A i \in DOMAIN tx : tx[i] \in listed
  BY <1>4
<1>6. DOMAIN operations = 1..Len(tx)
  BY <1>3, <1>5
<1>7. /\ operations \in Seq({operations[i] : i \in DOMAIN operations})
      /\ Len(operations) = Len(tx)
  <2>. DEFINE range == {operations[i] : i \in DOMAIN operations}
  <2>. HIDE DEF operations
  <2>1. operations \in [1..Len(tx) -> range]
    BY <1>3, <1>6
  <2>. HIDE DEF range
  <2>2. operations \in Seq(range)
    BY <1>5, <2>1
  <2>3. Len(operations) = Len(tx)
    BY <1>5, <1>6, <2>2
  <2>. QED
    BY <2>2, <2>3 DEF range
<1>8. ASSUME NEW i \in DOMAIN tx
      PROVE  Honest(operations[i], request.signers)
  <2>1. Read(tx[i], SignerKeys(tx), WritableKeys(tx)) # Refused
    BY <1>2, <1>3
  <2>2. Honest(Read(tx[i], SignerKeys(tx), WritableKeys(tx)), SignerKeys(tx))
    BY <1>4, <1>5, <2>1, ReadHonestly
  <2>. QED
    BY <1>3, <2>2
<1>. HIDE DEF operations
<1>. QED
  BY <1>3, <1>4, <1>5, <1>6, <1>7, <1>8 DEF operations

\* What is left after the first of the operations from the i-th on.
LEMMA RestOK ==
  ASSUME NEW request \in Requests, NEW i \in 1..Len(request.operations)
  PROVE  LET operations == request.operations
             n    == Len(operations)
             rest == [request EXCEPT !.operations = SubSeq(@, i, Len(@))]
         IN  /\ Head(rest.operations) = operations[i]
             /\ rest.signers = request.signers
             /\ i = n => AfterFirst(rest) = Nothing
             /\ i # n => AfterFirst(rest)
                           = [request EXCEPT !.operations = SubSeq(@, i + 1, Len(@))]
<1>. DEFINE operations == request.operations
            keys == request.signers
            n == Len(operations)
            set == {operations[j] : j \in DOMAIN operations}
            rest == [request EXCEPT !.operations = SubSeq(@, i, Len(@))]
            tail == SubSeq(operations, i, n)
<1>1. /\ request = [signers |-> keys, operations |-> operations]
      /\ operations \in Seq(set) /\ n \in Nat \ {0} /\ i \in 1..n
  BY RequestOK
<1>2. ASSUME NEW r, NEW s, NEW o, r = [signers |-> s, operations |-> o]
      PROVE  r.signers = s /\ r.operations = o
  BY <1>2
<1>3. /\ rest = [request EXCEPT !.operations = tail]
      /\ [request EXCEPT !.operations = SubSeq(@, i + 1, Len(@))]
           = [request EXCEPT !.operations = SubSeq(operations, i + 1, n)]
  OBVIOUS
<1>. HIDE DEF operations, keys, set, rest, tail
<1>4. /\ rest = [signers |-> keys, operations |-> tail]
      /\ [request EXCEPT !.operations = SubSeq(@, i + 1, Len(@))]
           = [signers |-> keys, operations |-> SubSeq(operations, i + 1, n)]
  <2>. DEFINE rear == SubSeq(operations, i + 1, n)
  <2>. HIDE DEF rear
  <2>1. [request EXCEPT !.operations = tail] = [signers |-> keys, operations |-> tail]
    BY <1>1
  <2>2. [request EXCEPT !.operations = rear] = [signers |-> keys, operations |-> rear]
    BY <1>1
  <2>. QED
    BY <1>3, <2>1, <2>2 DEF rear
<1>5. /\ Head(tail) = operations[i]
      /\ Tail(tail) = SubSeq(operations, i + 1, n)
  BY <1>1, HeadTailOfSubSeq DEF tail
<1>6. Len(tail) = n - i + 1
  BY <1>1, SubSeqProperties DEF tail
<1>. HIDE DEF n
<1>7. Len(tail) = 1 <=> i = n
  BY <1>1, <1>6
<1>8. /\ rest.operations = tail /\ rest.signers = keys
      /\ [rest EXCEPT !.operations = Tail(@)]
           = [signers |-> keys, operations |-> Tail(tail)]
  <2>1. rest.operations = tail /\ rest.signers = keys
    BY <1>2, <1>4
  <2>2. rest = [signers |-> keys, operations |-> tail]
    BY <1>4
  <2>. DEFINE rear == Tail(tail)
  <2>. HIDE DEF rear
  <2>3. [rest EXCEPT !.operations = rear] = [signers |-> keys, operations |-> rear]
    BY <2>2
  <2>. QED
    BY <2>1, <2>3 DEF rear
<1>9. AfterFirst(rest) = IF i = n THEN Nothing
                         ELSE [signers |-> keys, operations |-> Tail(tail)]
  BY <1>7, <1>8 DEF AfterFirst
<1>. QED
  BY <1>4, <1>5, <1>8, <1>9 DEF rest, n, operations, keys

\* The operation that a step performs, and what it leaves.
LEMMA StepPerforms ==
  ASSUME NEW request \in Requests, NEW i \in 1..Len(request.operations),
         NEW rest,
         rest = [request EXCEPT !.operations = SubSeq(@, i, Len(@))],
         Perform(Head(rest.operations)), pending' = AfterFirst(rest),
         signed' = rest.signers
  PROVE  /\ Inv => Process(signed' \cap Keys) \/ Runtime \/ UNCHANGED vars
         /\ PendingOK'
<1>. DEFINE operation == request.operations[i]
            n == Len(request.operations)
<1>1. /\ n \in Nat \ {0} /\ i \in 1..n
      /\ WithinBounds(operation) /\ Honest(operation, request.signers)
  BY RequestOK
<1>2. /\ Head(rest.operations) = operation
      /\ rest.signers = request.signers
      /\ i = n => AfterFirst(rest) = Nothing
      /\ i # n => AfterFirst(rest)
                    = [request EXCEPT !.operations = SubSeq(@, i + 1, Len(@))]
  BY RestOK
<1>. HIDE DEF operation
<1>3. Inv => Process(signed' \cap Keys) \/ Runtime \/ UNCHANGED vars
  BY <1>1, <1>2, PerformImplements
<1>4. signed' = request.signers
  BY <1>2
<1>5. ASSUME pending' # Nothing
      PROVE  /\ signed' = pending'.signers
             /\ \E j \in 2..n :
                   pending' = [request EXCEPT !.operations = SubSeq(@, j, Len(@))]
  <2>1. i + 1 \in 2..n
        /\ pending' = [request EXCEPT !.operations = SubSeq(@, i + 1, Len(@))]
    BY <1>1, <1>2, <1>5
  <2>2. pending'.signers = request.signers
    <3>1. request = [signers |-> request.signers, operations |-> request.operations]
      BY RequestOK
    <3>. DEFINE keys == request.signers
                operations == request.operations
                rear == SubSeq(operations, i + 1, n)
    <3>2. pending' = [request EXCEPT !.operations = rear]
      BY <2>1
    <3>. HIDE DEF keys, operations, rear
    <3>3. request = [signers |-> keys, operations |-> operations]
      BY <3>1 DEF keys, operations
    <3>4. pending'.signers = keys
      BY <3>2, <3>3
    <3>. QED
      BY <3>4 DEF keys
  <2>. QED
    BY <1>4, <2>1, <2>2
<1>6. PendingOK'
  BY <1>4, <1>5 DEF PendingOK
<1>. QED
  BY <1>3, <1>6

\* A step of a transaction, or of the cluster between two.
LEMMA TransactionStep ==
  ASSUME PendingOK, TransactionNext
  PROVE  /\ Inv => Process(signed' \cap Keys) \/ Runtime \/ UNCHANGED vars
         /\ PendingOK'
<1>1. ASSUME NEW request \in Requests, Submit(request)
      PROVE  /\ Inv => Process(signed' \cap Keys) \/ Runtime \/ UNCHANGED vars
             /\ PendingOK'
  <2>. DEFINE rest == [request EXCEPT !.operations = SubSeq(@, 1, Len(@))]
  <2>1. /\ request.operations \in Seq({request.operations[i] :
                                          i \in DOMAIN request.operations})
        /\ 1 \in 1..Len(request.operations)
    BY RequestOK
  <2>2. SubSeq(request.operations, 1, Len(request.operations)) = request.operations
    BY <2>1, SubSeqFull
  <2>3. rest = request
    <3>1. request = [signers |-> request.signers, operations |-> request.operations]
      BY RequestOK
    <3>2. rest = [request EXCEPT !.operations = request.operations]
      BY <2>2
    <3>. DEFINE keys == request.signers
                operations == request.operations
    <3>. HIDE DEF keys, operations, rest
    <3>3. request = [signers |-> keys, operations |-> operations]
      BY <3>1 DEF keys, operations
    <3>4. rest = [request EXCEPT !.operations = operations]
      BY <3>2 DEF operations
    <3>. QED
      BY <3>3, <3>4
  <2>4. /\ Perform(Head(rest.operations)) /\ pending' = AfterFirst(rest)
        /\ signed' = rest.signers
    <3>. HIDE DEF rest
    <3>. QED
      BY <1>1, <2>3 DEF Submit
  <2>. QED
    BY <2>1, <2>4, StepPerforms
<1>2. CASE Continue
  <2>1. PICK request \in Requests :
           \E i \in 2..Len(request.operations) :
              pending = [request EXCEPT !.operations = SubSeq(@, i, Len(@))]
    BY <1>2 DEF Continue, PendingOK
  <2>. PICK i \in 2..Len(request.operations) :
          pending = [request EXCEPT !.operations = SubSeq(@, i, Len(@))]
    BY <2>1
  <2>2. i \in 1..Len(request.operations)
    BY RequestOK
  <2>3. /\ Perform(Head(pending.operations)) /\ pending' = AfterFirst(pending)
        /\ signed' = pending.signers
    BY <1>2 DEF Continue
  <2>. QED
    BY <2>2, <2>3, StepPerforms
<1>3. CASE Between
  <2>1. Runtime
    BY <1>3 DEF Between, Runtime
  <2>2. PendingOK'
    BY <1>3 DEF Between, PendingOK
  <2>. QED
    BY <2>1, <2>2
<1>. QED
  BY <1>1, <1>2, <1>3 DEF TransactionNext

\* The invariant of StakeProgram holds between any two operations.
THEOREM TransactionInvariance == TransactionSpec => [](Inv /\ PendingOK)
<1>1. TransactionInit => Inv /\ PendingOK
  BY InitOK DEF TransactionInit, PendingOK
<1>2. Inv /\ PendingOK /\ [TransactionNext]_transactionVars => (Inv /\ PendingOK)'
  <2>1. ASSUME Inv, PendingOK, TransactionNext
        PROVE  Inv' /\ PendingOK'
    <3>1. Process(signed' \cap Keys) \/ Runtime \/ UNCHANGED vars
      BY <2>1, TransactionStep
    <3>2. UNCHANGED vars => Inv'
      BY <2>1, NextOK
    <3>3. Inv'
      BY <2>1, <3>1, <3>2, ProcessOK, RuntimeOK
    <3>. QED
      BY <2>1, <3>3, TransactionStep
  <2>2. ASSUME Inv, PendingOK, UNCHANGED transactionVars
        PROVE  Inv' /\ PendingOK'
    <3>1. Inv'
      BY <2>2, NextOK DEF transactionVars
    <3>. QED
      BY <2>2, <3>1 DEF PendingOK, transactionVars
  <2>. QED
    BY <2>1, <2>2
<1>. QED
  BY <1>1, <1>2, PTL DEF TransactionSpec

(***************************************************************************)
(* At any point of a transaction the state is well-formed, and what is     *)
(* pending is the rest of a request, with the keys that signed it.         *)
(***************************************************************************)
THEOREM TransactionsTyped == TransactionSpec => []TransactionTypeOK
<1>1. Inv /\ PendingOK => TransactionTypeOK
  BY DEF Inv, SysvarsOK, AccountsOK, TypeOK, PendingOK, TransactionTypeOK
<1>. QED
  BY <1>1, TransactionInvariance, PTL

(***************************************************************************)
(* Every transaction is a sequence of instructions of StakeProgram, each   *)
(* signed by keys that signed the transaction: for any account lists, in   *)
(* both layouts, and any flags.                                            *)
(***************************************************************************)
THEOREM TransactionsImplementProgram == TransactionSpec => ImplementsProgram
<1>. DEFINE A == Process(signed' \cap Keys) \/ Runtime
<1>1. TransactionInit => Init
  BY DEF TransactionInit
<1>2. Inv /\ PendingOK /\ [TransactionNext]_transactionVars => [A]_vars
  <2>1. ASSUME Inv, PendingOK, TransactionNext PROVE [A]_vars
    BY <2>1, TransactionStep
  <2>2. ASSUME UNCHANGED transactionVars PROVE [A]_vars
    BY <2>2 DEF transactionVars
  <2>. QED
    BY <2>1, <2>2
<1>3. ImplementsProgram <=> Init /\ [][A]_vars
  BY DEF ImplementsProgram
<1>. HIDE DEF A
<1>. QED
  BY <1>1, <1>2, <1>3, TransactionInvariance, PTL DEF TransactionSpec

(***************************************************************************)
(* So what is proved of the program holds of transactions, and between     *)
(* their operations too.                                                   *)
(***************************************************************************)
THEOREM TransactionsKeepStake ==
  TransactionSpec => [](DelegationsBacked /\ MinimumDelegated /\ EpochsOrdered)
<1>1. Inv => DelegationsBacked /\ MinimumDelegated /\ EpochsOrdered
  BY DEF Inv, AccountsOK, Backed, Sound, DelegationsBacked, MinimumDelegated,
         EpochsOrdered, StakeAccounts, IsStake
<1>. QED
  BY <1>1, TransactionInvariance, PTL

=============================================================================
