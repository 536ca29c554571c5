-------------------------- MODULE StakeDocumentation --------------------------
(***************************************************************************)
(* Statements of the instructions' documentation and of the code's own     *)
(* comments that the code does not bear out, as TLC shows.                 *)
(***************************************************************************)
EXTENDS MCStakeProgram

(***************************************************************************)
(* process_split says of its last check on the source that "this branch is *)
(* unreachable": no partial split that gets there leaves the source short. *)
(***************************************************************************)
SplitBranchUnreachable ==
    \A S \in SignerSets, from, to \in Accounts :
    \A n \in Amounts :
        /\ SplitChecks(S, from, to, n)
        /\ n # lamports[from]
        /\ IsActiveOrActivating(from)
        /\ lamports[to] >= rent
        /\ data[from].stake.stake - n >= MinimumDelegation
        => SplitLeavesSourceExempt(from, n)

\* The merges the code performs, whoever signs.
Merges(to, from) ==
    /\ to # from
    /\ Mergeable(data[to], history, clock.epoch)
    /\ Mergeable(data[from], history, clock.epoch)
    /\ CanMerge(data[to], Kind(to), data[from], Kind(from), lamports[from], clock)

(***************************************************************************)
(* The Merge instruction: "the voter pubkey and vote credits observed must *)
(* match" for two activated stakes.                                        *)
(***************************************************************************)
MergedCreditsMatch ==
    \A to, from \in Accounts :
        /\ Merges(to, from)
        /\ Kind(to) = "FullyActive"
        => data[to].stake.credits_observed = data[from].stake.credits_observed

(***************************************************************************)
(* The DeactivateDelinquent instruction: the reference is a vote account   *)
(* "that has voted at least once in the last                               *)
(* MINIMUM_DELINQUENT_EPOCHS_FOR_DEACTIVATION epochs".                     *)
(***************************************************************************)
OneVoteMakesAReference ==
    \A v \in Voters :
        VotedIn(v) \cap RecentEpochs # {} =>
            AcceptableReferenceEpochCredits(epoch_credits[v], clock.epoch)

=============================================================================
