------------------------------ MODULE StakeMeta ------------------------------
(***************************************************************************)
(* Who may do what to a stake account: the authorities and the lockup of   *)
(* Meta in interface/src/state.rs, as pure operators.                      *)
(*                                                                         *)
(* A meta is [staker, withdrawer, lockup]; rent_exempt_reserve is a        *)
(* constant the program writes and never reads, and is left out.  A clock  *)
(* is [epoch, unix_timestamp].  An optional key that is absent is NoKey.   *)
(***************************************************************************)
EXTENDS Integers

CONSTANTS
    Keys,         \* public keys
    NoKey,        \* an optional key that is not given
    DefaultKey,   \* Pubkey::default(), a key nobody can sign for
    Unset         \* an optional lockup argument that is not given

ASSUME MetaConstants ==
    /\ DefaultKey \in Keys
    /\ NoKey \notin Keys
    /\ Unset \notin Int
    /\ Unset \notin Keys

Lockup == [unix_timestamp : Int, epoch : Nat, custodian : Keys]
Meta   == [staker : Keys, withdrawer : Keys, lockup : Lockup]

DefaultLockup == [unix_timestamp |-> 0, epoch |-> 0, custodian |-> DefaultKey]

\* The arguments of SetLockup: each field may be left as it is.
LockupArgs == [unix_timestamp : Int \cup {Unset},
               epoch          : Nat \cup {Unset},
               custodian      : Keys \cup {Unset}]

StakeAuthorize == {"Staker", "Withdrawer"}

\* Both the epoch and the time must have passed, unless the custodian signs.
IsInForce(lockup, clock, custodian) ==
    /\ custodian # lockup.custodian
    /\ \/ lockup.unix_timestamp > clock.unix_timestamp
       \/ lockup.epoch > clock.epoch

\* Authorized::check.
Check(meta, signers, who) ==
    CASE who = "Staker"     -> meta.staker \in signers
      [] who = "Withdrawer" -> meta.withdrawer \in signers

\* The conditions of Authorized::authorize.
MayAuthorize(meta, signers, who, clock, custodian) ==
    CASE who = "Staker" -> signers \cap {meta.staker, meta.withdrawer} # {}
      [] who = "Withdrawer" ->
            /\ IsInForce(meta.lockup, clock, NoKey) =>
                  /\ custodian \in signers
                  /\ ~IsInForce(meta.lockup, clock, custodian)
            /\ Check(meta, signers, who)

\* What Authorized::authorize writes.
WithAuthority(meta, who, new) ==
    CASE who = "Staker"     -> [meta EXCEPT !.staker = new]
      [] who = "Withdrawer" -> [meta EXCEPT !.withdrawer = new]

\* Mutant: the withdrawer may change the lockup while it is in force.
MaySetLockupAlways(meta, signers, clock) ==
    signers \cap {meta.lockup.custodian, meta.withdrawer} # {}

\* The condition of Meta::set_lockup: the custodian while the lockup is in
\* force, the withdrawer otherwise.
MaySetLockup(meta, signers, clock) ==
    IF IsInForce(meta.lockup, clock, NoKey)
    THEN meta.lockup.custodian \in signers
    ELSE meta.withdrawer \in signers

\* Mutant: what is not given is not left as it is.
WithLockupUnset(meta, args) == [meta EXCEPT !.lockup = args]

\* What Meta::set_lockup writes.
Given(arg, old) == IF arg = Unset THEN old ELSE arg
WithLockup(meta, args) ==
    [meta EXCEPT !.lockup =
        [unix_timestamp |-> Given(args.unix_timestamp, meta.lockup.unix_timestamp),
         epoch          |-> Given(args.epoch, meta.lockup.epoch),
         custodian      |-> Given(args.custodian, meta.lockup.custodian)]]

=============================================================================
