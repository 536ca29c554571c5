---------------------------- MODULE StakeConsent ----------------------------
(***************************************************************************)
(* What keys control: totals over the stake accounts, in which a step that *)
(* takes something from a key's control shows as a lower value.            *)
(***************************************************************************)
EXTENDS StakeProgram

StakeAccounts == {a \in Accounts : IsStake(a)}
DelegatedTo(v) == {a \in StakeAccounts : data[a].stake.voter_pubkey = v}

\* The keys that signed, and the addresses derived from one of them.
Signing(S) == S \cup UNION {DerivedKeys[base] : base \in S \cap Keys}

DelegatedBy(staker, withdrawer, v) ==
    MapThenSumSet(LAMBDA a : data[a].stake.stake,
        {a \in DelegatedTo(v) : /\ data[a].meta.staker = staker
                                /\ data[a].meta.withdrawer = withdrawer
                                /\ data[a].stake.deactivation_epoch = Never})

Metas == {data[a].meta : a \in {b \in Accounts : HasMeta(data[b])}}

=============================================================================
