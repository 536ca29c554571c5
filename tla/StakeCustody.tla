----------------------------- MODULE StakeCustody -----------------------------
(***************************************************************************)
(* What a stake account promises about the lamports in it, without         *)
(* accounts, instructions or stake: lamports are held on terms, which name *)
(* a withdrawer and a lockup, or on none.  A step moves some lamports from *)
(* one holding to another, and needs the consent that the terms ask for.   *)
(*                                                                         *)
(* Terms are promises of Meta in interface/src/state.rs ("withdrawer",     *)
(* lockup); that every sequence of instructions keeps them is what         *)
(* StakeTransactionProperties!ImplementsCustody says.                      *)
(***************************************************************************)
EXTENDS StakeMeta, Bags

CONSTANTS
    NoTerms,   \* where lamports that are on no terms are counted
    Total      \* lamports in existence

VARIABLES
    holdings,  \* the lamports held on terms [withdrawer, lockup]: a bag
    clock,     \* as in StakeProgram
    signed     \* the keys that count as signers of the last step

InForce(terms) == IsInForce(terms.lockup, clock, NoKey)

\* Lamports leave terms that are in force with the custodian only.  The
\* withdrawer alone sends them to somebody else, or under a lockup in force;
\* but neither is needed to move them between expired terms of one withdrawer,
\* nor for a custodian to replace its own lockup.
Consented(from, to) ==
    \/ from = NoTerms
    \/ /\ from # NoTerms
       /\ InForce(from) => from.lockup.custodian \in signed'
       /\ \/ from.withdrawer \in signed'
          \/ /\ to # NoTerms
             /\ from.withdrawer = to.withdrawer
             /\ InForce(to) => InForce(from)

\* n lamports on some terms, as a bag.
Lot(terms, n) == [t \in {terms} |-> n]

Transfer(from, to) ==
    /\ from # to
    /\ Consented(from, to)
    /\ \E n \in 1..holdings[from] :
          holdings' = (holdings (-) Lot(from, n)) (+) Lot(to, n)
    /\ UNCHANGED clock

Pass ==
    /\ clock'.epoch >= clock.epoch
    /\ clock'.unix_timestamp >= clock.unix_timestamp
    /\ UNCHANGED holdings

CustodyInit == holdings = Lot(NoTerms, Total)

CustodyNext ==
    \/ \E from \in DOMAIN holdings, to \in DOMAIN holdings' : Transfer(from, to)
    \/ Pass

CustodySpec == CustodyInit /\ [][CustodyNext]_<<holdings, clock>>

=============================================================================
