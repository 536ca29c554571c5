-------------------------- MODULE StakeTransactions --------------------------
(***************************************************************************)
(* Transactions on the stake program: sequences of instructions, signed as *)
(* a whole and carried out in order with nothing in between.               *)
(*                                                                         *)
(* StakeProgram lets any set of keys sign any instruction.  Here a client  *)
(* submits account lists, the message merges their flags, process_* reads  *)
(* its accounts from the lists, and what it makes of them is what the      *)
(* actions of StakeProgram get.                                            *)
(*                                                                         *)
(* A transaction that fails is rolled back as if it never had been.  In    *)
(* the model it is one whose last steps are missing: with an instruction   *)
(* pending nothing else happens.                                           *)
(***************************************************************************)
EXTENDS StakeProgram, StakeProcessor

CONSTANT Submitted   \* the transactions clients submit

VARIABLES
    pending,  \* what is left of the transaction under way
    signed    \* the keys that signed the transaction of the last step

transactionVars == <<vars, pending, signed>>

-----------------------------------------------------------------------------
(* What a transaction asks for, once its account lists are read.           *)

Requested(tx) ==
    [signers    |-> SignerKeys(tx),
     operations |-> [i \in DOMAIN tx |->
                        Read(tx[i], SignerKeys(tx), WritableKeys(tx))]]

\* An instruction whose list is refused fails its whole transaction.
Requests ==
    {request \in {Requested(tx) : tx \in Submitted} :
        \A i \in DOMAIN request.operations : request.operations[i] # Refused}

-----------------------------------------------------------------------------
(* What clients may submit: any account lists with any flags, but no other *)
(* inputs than those that StakeProgram is bounded to.                      *)

\* The address an account list derives from its second account.
DerivedFrom(ix) ==
    LET base == At(ix.accounts, 2).pubkey
    IN  /\ base \in Keys /\ ix.args.seed \in Seeds
        /\ CreateWithSeed[<< base, ix.args.seed >>] \in DerivedKeys[base] \cup {NoKey}

WithinBounds(r) ==
    /\ r.op = "Initialize" =>
          {r.staker, r.withdrawer} \subseteq Parties /\ r.lockup \in InitialLockups
    /\ r.op = "Authorize" => r.new \in Parties /\ r.who \in StakeAuthorize
    /\ r.op = "SetLockup" => r.lockup \in LockupChanges
    /\ r.op \in {"Withdraw", "Split", "MoveStake", "MoveLamports", "Transfer"} =>
          r.lamports \in Amounts

ASSUME TransactionConstants ==
    /\ LET listed == UNION {{tx[i] : i \in DOMAIN tx} : tx \in Submitted}
       IN  /\ Submitted \subseteq Seq(listed) \ {<< >>}
           /\ \A ix \in listed :
                 /\ ix.name \in InstructionNames
                 /\ ix.name \in {"AuthorizeWithSeed", "AuthorizeCheckedWithSeed"} =>
                       DerivedFrom(ix)
    /\ \A request \in Requests :
       \A i \in DOMAIN request.operations : WithinBounds(request.operations[i])

Nothing == [signers |-> {}, operations |-> << >>]

\* pending is what is left of a transaction that the keys in signed signed.
TransactionTypeOK ==
    /\ TypeOK
    /\ signed \subseteq UNION {request.signers : request \in Requests}
    /\ pending # Nothing =>
          /\ signed = pending.signers
          /\ \E request \in Requests :
             \E i \in 2..Len(request.operations) :
                pending = [request EXCEPT !.operations = SubSeq(@, i, Len(@))]

TransactionInit ==
    /\ Init
    /\ pending = Nothing
    /\ signed = {}

-----------------------------------------------------------------------------
(* Operations.                                                             *)

\* Lamports may leave for any account.
Holder(key) == IF key \in Accounts THEN key ELSE Wallet

PerformSplit(r) ==
    \/ SplitFull(r.signers, r.from, r.to, r.lamports)
    \/ SplitInactive(r.signers, r.from, r.to, r.lamports)
    \/ SplitActive(r.signers, r.from, r.to, r.lamports)

PerformWithdraw(r) ==
    \/ /\ r.lamports = lamports[r.from]
       /\ WithdrawAll(r.signers, r.from, Holder(r.to), r.custodian)
    \/ WithdrawPart(r.signers, r.from, Holder(r.to), r.lamports, r.custodian)

\* The accounts named must belong to the stake program, and the votes to the
\* vote program.
PerformOnStake(r) ==
    /\ r.op \in {"Initialize", "Authorize", "SetLockup", "DelegateStake",
                 "Deactivate", "DeactivateDelinquent"}
    /\ r.stake \in Accounts
    /\ \/ /\ r.op = "Initialize"
          /\ DoInitialize(r.stake, r.staker, r.withdrawer, r.lockup)
       \/ /\ r.op = "Authorize"
          /\ DoAuthorize(r.stake, r.signers, r.new, r.who, r.custodian)
       \/ /\ r.op = "SetLockup"
          /\ DoSetLockup(r.stake, r.signers, r.lockup)
       \/ /\ r.op = "DelegateStake"
          /\ r.vote \in Voters
          /\ Delegate(r.signers, r.stake, r.vote)
       \/ /\ r.op = "Deactivate"
          /\ Deactivate(r.signers, r.stake)
       \/ /\ r.op = "DeactivateDelinquent"
          /\ {r.delinquent, r.reference} \subseteq Voters
          /\ DeactivateDelinquent(r.stake, r.delinquent, r.reference)

PerformBetween(r) ==
    /\ r.op \in {"Withdraw", "Split", "Merge", "MoveStake", "MoveLamports"}
    /\ r.from \in Accounts
    /\ \/ /\ r.op = "Withdraw"
          /\ PerformWithdraw(r)
       \/ /\ r.op # "Withdraw"
          /\ r.to \in Accounts
          /\ \/ r.op = "Split" /\ PerformSplit(r)
             \/ r.op = "Merge" /\ Merge(r.signers, r.to, r.from)
             \/ /\ r.op = "MoveStake"
                /\ MoveStake(r.signers, r.from, r.to, r.lamports)
             \/ /\ r.op = "MoveLamports"
                /\ MoveLamports(r.signers, r.from, r.to, r.lamports)

\* The system program: space first, then the owner, which makes it a stake
\* account; and transfers, not from accounts of the stake program.
PerformSystem(r) ==
    \/ /\ r.op = "Allocate"
       /\ r.stake \in Accounts
       /\ data[r.stake] = NoAccount
       /\ UNCHANGED vars
    \/ /\ r.op = "Assign"
       /\ r.stake \in Accounts
       /\ CreateAccount(r.stake)
    \/ /\ r.op = "Transfer"
       /\ r.from \notin Accounts /\ r.to \in Accounts
       /\ Deposit(r.to, r.lamports)

\* While rewards are being paid the stake program only answers queries.
Perform(r) ==
    \/ ~rewards_active /\ (PerformOnStake(r) \/ PerformBetween(r))
    \/ r = Query /\ UNCHANGED vars
    \/ PerformSystem(r)

-----------------------------------------------------------------------------
(* Steps.                                                                  *)

AfterFirst(request) ==
    IF Len(request.operations) = 1 THEN Nothing
    ELSE [request EXCEPT !.operations = Tail(@)]

\* A transaction starts, when what the last one drained has been removed.
Submit(request) ==
    /\ pending = Nothing
    /\ \A a \in Accounts : lamports[a] = 0 => data[a] = NoAccount
    /\ Perform(Head(request.operations))
    /\ pending' = AfterFirst(request)
    /\ signed' = request.signers

Continue ==
    /\ pending # Nothing
    /\ Perform(Head(pending.operations))
    /\ pending' = AfterFirst(pending)
    /\ signed' = pending.signers

\* What the cluster does between transactions.
Between ==
    /\ pending = Nothing
    /\ \/ \E a \in Accounts : Reap(a)
       \/ AdvanceEpoch
       \/ EndRewards
       \/ AdvanceTime
       \/ \E v \in Voters : Vote(v)
       \/ ChangeRent
    /\ pending' = Nothing
    /\ signed' = {}

TransactionNext ==
    \/ \E request \in Requests : Submit(request)
    \/ Continue
    \/ Between

TransactionSpec == TransactionInit /\ [][TransactionNext]_transactionVars

=============================================================================
