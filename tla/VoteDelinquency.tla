--------------------------- MODULE VoteDelinquency ---------------------------
(***************************************************************************)
(* When a vote account's record lets anyone deactivate stake delegated to  *)
(* it: interface/src/tools.rs.  A vote account's epoch_credits is the      *)
(* sequence of the epochs in which it earned credits, oldest first.        *)
(***************************************************************************)
EXTENDS Integers, Sequences

CONSTANT MinimumDelinquentEpochs
    \* MINIMUM_DELINQUENT_EPOCHS_FOR_DEACTIVATION

ASSUME DelinquencyConstants == MinimumDelinquentEpochs \in Nat \ {0}

\* The last MinimumDelinquentEpochs records are the current epoch and, one by
\* one, the epochs before it (a saturating subtraction stays at epoch 0).
AcceptableReferenceEpochCredits(epochCredits, epoch) ==
    /\ Len(epochCredits) >= MinimumDelinquentEpochs
    /\ \A back \in 0..(MinimumDelinquentEpochs - 1) :
          epochCredits[Len(epochCredits) - back]
              = IF back <= epoch THEN epoch - back ELSE 0

\* Mutant: delinquent one epoch early.
EligibleTooEarly(epochCredits, epoch) ==
    \/ epochCredits = << >>
    \/ /\ epochCredits # << >>
       /\ epoch >= MinimumDelinquentEpochs
       /\ epochCredits[Len(epochCredits)] <= epoch - MinimumDelinquentEpochs + 1

EligibleForDeactivateDelinquent(epochCredits, epoch) ==
    \/ epochCredits = << >>
    \/ /\ epochCredits # << >>
       /\ epoch >= MinimumDelinquentEpochs
       /\ epochCredits[Len(epochCredits)] <= epoch - MinimumDelinquentEpochs

=============================================================================
