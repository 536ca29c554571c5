---------------------- MODULE StakeTransactionProperties ----------------------
(***************************************************************************)
(* What transactions on the stake program promise.  In a transaction it is *)
(* known who signed.                                                       *)
(***************************************************************************)
EXTENDS StakeTransactions, StakeConsent

CONSTANT NoTerms   \* lamports outside, or in accounts without authorities

ASSUME CustodyConstants ==
    /\ NoTerms \notin [withdrawer : Keys, lockup : Lockup]
    /\ Supply > 0

\* Signers of the last step, and the addresses derived from them.
Consenting == Signing(signed)

(***************************************************************************)
(* The signers read from account lists are signers of the transaction:     *)
(* each step of a transaction is one that StakeProgram lets those keys do, *)
(* however the flags of several instructions were merged, the layouts told *)
(* apart and optional accounts taken.                                      *)
(***************************************************************************)
ImplementsProgram ==
    Init /\ [][Process(signed' \cap Keys) \/ Runtime]_vars

\* The terms on which an account, or the wallet, holds its lamports.
TermsOf(h) ==
    IF h \in Accounts /\ HasMeta(data[h])
    THEN [withdrawer |-> data[h].meta.withdrawer, lockup |-> data[h].meta.lockup]
    ELSE NoTerms

\* Lamports on the terms in use, the refinement mapping to StakeCustody.
Holdings ==
    LET funded == {h \in Holders : lamports[h] > 0}
    IN  [t \in {TermsOf(h) : h \in funded} |->
            MapThenSumSet(LAMBDA h : lamports[h], {h \in funded : TermsOf(h) = t})]

Custody ==
    INSTANCE StakeCustody WITH
        holdings <- Holdings, signed <- Consenting, Total <- Supply

(***************************************************************************)
(* No sequence of transactions, in any account layout, moves lamports off  *)
(* the terms they are held on without the consent those terms ask for:     *)
(* neither Withdraw nor Split, Merge, MoveStake, MoveLamports, Authorize   *)
(* and SetLockup between accounts with other terms.                        *)
(***************************************************************************)
ImplementsCustody == Custody!CustodySpec

(***************************************************************************)
(* Stake that is delegated to a validator by a staker and a withdrawer,    *)
(* and not deactivated, only becomes less when one of the two signs, in    *)
(* whichever place of the account list, or when the validator is           *)
(* delinquent.                                                             *)
(***************************************************************************)
DelegationNeedsStaker ==
    [][\A m \in Metas, v \in Voters :
         DelegatedBy(m.staker, m.withdrawer, v)'
            < DelegatedBy(m.staker, m.withdrawer, v) =>
                \/ {m.staker, m.withdrawer} \cap Consenting' # {}
                \/ EligibleForDeactivateDelinquent(epoch_credits[v], clock.epoch)]_vars

(***************************************************************************)
(* A transaction that has created and funded an account gets as far as it  *)
(* was built to go: the instructions that initialize and delegate it find  *)
(* the owner, the balance and the signatures they need, so it does not     *)
(* fail while the program accepts instructions.                            *)
(***************************************************************************)
CreationsFinish ==
    pending # Nothing /\ ~rewards_active =>
        LET next == Head(pending.operations)
        IN  next.op \in {"Initialize", "DelegateStake"}
              /\ lamports[next.stake] >= rent + MinimumDelegation
            => ENABLED Perform(next)

=============================================================================
