---------------------------- MODULE StakeInterface ----------------------------
(***************************************************************************)
(* The interface of the program, from both ends: the account lists that    *)
(* the builders of the interface crate and of the generated client make,   *)
(* and what the processor reads from them.  They are maintained apart and  *)
(* agree on the position and the flags of every account, or a client's     *)
(* instruction is refused or means something else.                         *)
(***************************************************************************)
EXTENDS StakeInstructions, StakeProcessor, TLC

CONSTANTS
    Named,              \* keys that instructions name
    Lockups, Changes    \* lockups, and SetLockup arguments, that they name

ASSUME InterfaceConstants ==
    /\ Named \subseteq Keys
    /\ Lockups \subseteq Lockup /\ Changes \subseteq LockupArgs

Client == INSTANCE StakeCpi

\* What the processor makes of an instruction that is alone in its message.
Alone(ix) == Read(ix, SignerKeys(<< ix >>), WritableKeys(<< ix >>))

-----------------------------------------------------------------------------
(* Other ways to build.                                                    *)

\* The layout without sysvar accounts.
WithoutSysvars(ix) ==
    [ix EXCEPT !.accounts = SelectSeq(@, LAMBDA m : m.pubkey \notin Sysvars)]

\* The setters of a generated builder that are called: an optional field that
\* is absent is not set.
Options(fields, absent) ==
    [f \in {g \in DOMAIN fields : fields[g] # absent} |-> fields[f]]

\* The sysvar accounts, which a program that calls the builders has to give.
SysvarAccounts ==
    [clock_sysvar |-> CLOCK_ID, stake_history |-> STAKE_HISTORY_ID,
     rent_sysvar |-> RENT_ID]

\* An instruction as the interface crate builds it and as the generated client
\* builds it from the fields that are set, for a transaction and for a call.
Forms(instruction, Builder(_), CpiBuilder(_), fields) ==
    << instruction, Builder(fields), CpiBuilder(fields @@ SysvarAccounts) >>

=============================================================================
