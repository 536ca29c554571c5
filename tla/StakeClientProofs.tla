--------------------------- MODULE StakeClientProofs ---------------------------
(***************************************************************************)
(* The client generated from the IDL, in both of its halves, builds the    *)
(* instructions of the interface crate: whichever setters were called, and *)
(* with whatever arguments.  StakeInterfaceProofs proves what the          *)
(* processor reads from those.                                             *)
(*                                                                         *)
(* For each instruction, its account lists as built from the fields that   *)
(* are filled in (XList), and its builders (XAgrees).                      *)
(***************************************************************************)
EXTENDS StakeInstructions, StakeCpi, TLAPS

\* What a setter was given, or what stands for it if it was not called.
Setting(b, field, default) == IF field \in DOMAIN b THEN b[field] ELSE default

\* No accounts were added; the accounts of the runtime, if they were set at all,
\* are those; and what was set as an optional authority is a key or none.
Usual(b) ==
    /\ "remaining" \notin DOMAIN b
    /\ Setting(b, "clock_sysvar", CLOCK_ID) = CLOCK_ID
    /\ Setting(b, "stake_history", STAKE_HISTORY_ID) = STAKE_HISTORY_ID
    /\ Setting(b, "rent_sysvar", RENT_ID) = RENT_ID
    /\ Setting(b, "unused", CONFIG_ID) = CONFIG_ID
    /\ Setting(b, "new_authority", NoKey) # Unset

\* The builders for a transaction and for a call build that instruction, from
\* the fields they require; the one for a call requires the sysvars as well.
Agree(b, built, called, required, sysvars, instruction) ==
    /\ built = Built(b, required, instruction)
    /\ called = Built(b, required \cup sysvars, instruction)

\* The arguments of the interface crate that a builder has as options.
Custodian(b) == Setting(b, "lockup_authority", NoKey)
NewCustodian(b) ==
    IF Setting(b, "new_authority", NoKey) = NoKey
    THEN Unset ELSE Setting(b, "new_authority", NoKey)
Change(b, custodian) ==
    [unix_timestamp |-> Setting(b, "unix_timestamp", Unset),
     epoch          |-> Setting(b, "epoch", Unset),
     custodian      |-> custodian]

-----------------------------------------------------------------------------
(* Creation.                                                               *)

LEMMA InitializeList ==
  ASSUME NEW b, b.remaining = << >>, b.rent_sysvar = RENT_ID
  PROVE  /\ Initialize(b) = initialize(b.stake, b.arg0, b.arg1)
         /\ InitializeCpi(b) = Initialize(b)
<1> DEFINE list == << Writable(b.stake, FALSE),
                      Readonly(b.rent_sysvar, FALSE) >>
<1>1. list \o << >> = list
  OBVIOUS
<1> HIDE DEF list
<1>2. StakeInstruction[1] = "Initialize"
  BY DEF StakeInstruction
<1>3. Initialize(b)
      = Instruction("Initialize", [authorized |-> b.arg0, lockup |-> b.arg1],
                    list)
  BY <1>1, <1>2 DEF Initialize, Discriminated, list
<1>4. InitializeCpi(b) = Initialize(b)
  BY DEF Initialize, InitializeCpi
<1> QED
  BY <1>3, <1>4 DEF list, initialize

LEMMA InitializeAgrees ==
  ASSUME NEW b, Usual(b)
  PROVE  Agree(b, InitializeBuilder(b), InitializeCpiBuilder(b),
               {"stake", "arg0", "arg1"}, {"rent_sysvar"},
               initialize(b.stake, b.arg0, b.arg1))
<1> DEFINE f == Filled(b, [rent_sysvar |-> RENT_ID])
<1>1. ASSUME {"stake", "arg0", "arg1"} \subseteq DOMAIN b
      PROVE  /\ f.arg0 = b.arg0
             /\ f.arg1 = b.arg1
             /\ f.stake = b.stake
             /\ f.rent_sysvar = RENT_ID
             /\ f.remaining = << >>
  BY <1>1 DEF Filled, Setting, Usual
<1> DEFINE g == Filled(b, << >>)
<1>2. ASSUME {"stake", "rent_sysvar", "arg0", "arg1"} \subseteq DOMAIN b
      PROVE  /\ g.arg0 = b.arg0
             /\ g.arg1 = b.arg1
             /\ g.stake = b.stake
             /\ g.rent_sysvar = RENT_ID
             /\ g.remaining = << >>
  BY <1>2 DEF Filled, Setting, Usual
<1> HIDE DEF f, g
<1>3. ASSUME {"stake", "arg0", "arg1"} \subseteq DOMAIN b
      PROVE  Initialize(f) = initialize(b.stake, b.arg0, b.arg1)
  BY <1>3, <1>1, InitializeList
<1>4. ASSUME {"stake", "rent_sysvar", "arg0", "arg1"} \subseteq DOMAIN b
      PROVE  InitializeCpi(g) = initialize(b.stake, b.arg0, b.arg1)
  BY <1>4, <1>2, InitializeList
<1>5. InitializeBuilder(b) = Built(b, {"stake", "arg0", "arg1"}, Initialize(f))
  BY DEF InitializeBuilder, f
<1>6. InitializeCpiBuilder(b) = Built(b, {"stake", "rent_sysvar", "arg0",
                "arg1"}, InitializeCpi(g))
  BY DEF InitializeCpiBuilder, g
<1> QED
  BY <1>3, <1>4, <1>5, <1>6 DEF Agree, Built

LEMMA InitializeCheckedList ==
  ASSUME NEW b, b.remaining = << >>, b.rent_sysvar = RENT_ID
  PROVE  /\ InitializeChecked(b)
             = initialize_checked(b.stake,
                                  [staker |-> b.stake_authority,
                                   withdrawer |-> b.withdraw_authority])
         /\ InitializeCheckedCpi(b) = InitializeChecked(b)
<1> DEFINE list == << Writable(b.stake, FALSE), Readonly(b.rent_sysvar, FALSE),
                      Readonly(b.stake_authority, FALSE),
                      Readonly(b.withdraw_authority, TRUE) >>
<1>1. list \o << >> = list
  OBVIOUS
<1> HIDE DEF list
<1>2. StakeInstruction[10] = "InitializeChecked"
  BY DEF StakeInstruction
<1>3. InitializeChecked(b) = Instruction("InitializeChecked", << >>, list)
  BY <1>1, <1>2 DEF InitializeChecked, Discriminated, list
<1>4. InitializeCheckedCpi(b) = InitializeChecked(b)
  BY DEF InitializeChecked, InitializeCheckedCpi
<1> QED
  BY <1>3, <1>4 DEF list, initialize_checked

LEMMA InitializeCheckedAgrees ==
  ASSUME NEW b, Usual(b)
  PROVE  Agree(b, InitializeCheckedBuilder(b), InitializeCheckedCpiBuilder(b),
               {"stake", "stake_authority", "withdraw_authority"},
               {"rent_sysvar"},
               initialize_checked(b.stake,
                                  [staker |-> b.stake_authority,
                                   withdrawer |-> b.withdraw_authority]))
<1> DEFINE f == Filled(b, [rent_sysvar |-> RENT_ID])
<1>1. ASSUME {"stake", "stake_authority",
              "withdraw_authority"} \subseteq DOMAIN b
      PROVE  /\ f.stake = b.stake
             /\ f.rent_sysvar = RENT_ID
             /\ f.stake_authority = b.stake_authority
             /\ f.withdraw_authority = b.withdraw_authority
             /\ f.remaining = << >>
  BY <1>1 DEF Filled, Setting, Usual
<1> DEFINE g == Filled(b, << >>)
<1>2. ASSUME {"stake", "rent_sysvar", "stake_authority",
              "withdraw_authority"} \subseteq DOMAIN b
      PROVE  /\ g.stake = b.stake
             /\ g.rent_sysvar = RENT_ID
             /\ g.stake_authority = b.stake_authority
             /\ g.withdraw_authority = b.withdraw_authority
             /\ g.remaining = << >>
  BY <1>2 DEF Filled, Setting, Usual
<1> HIDE DEF f, g
<1>3. ASSUME {"stake", "stake_authority",
              "withdraw_authority"} \subseteq DOMAIN b
      PROVE  InitializeChecked(f)
               = initialize_checked(b.stake,
                                    [staker |-> b.stake_authority,
                                     withdrawer |-> b.withdraw_authority])
  BY <1>3, <1>1, InitializeCheckedList
<1>4. ASSUME {"stake", "rent_sysvar", "stake_authority",
              "withdraw_authority"} \subseteq DOMAIN b
      PROVE  InitializeCheckedCpi(g)
               = initialize_checked(b.stake,
                                    [staker |-> b.stake_authority,
                                     withdrawer |-> b.withdraw_authority])
  BY <1>4, <1>2, InitializeCheckedList
<1>5. InitializeCheckedBuilder(b) = Built(b, {"stake", "stake_authority",
                "withdraw_authority"}, InitializeChecked(f))
  BY DEF InitializeCheckedBuilder, f
<1>6. InitializeCheckedCpiBuilder(b) = Built(b, {"stake", "rent_sysvar",
                "stake_authority",
                "withdraw_authority"}, InitializeCheckedCpi(g))
  BY DEF InitializeCheckedCpiBuilder, g
<1> QED
  BY <1>3, <1>4, <1>5, <1>6 DEF Agree, Built

\* The generated client and its half for calls build what initialize and
\* initialize_checked of the interface crate build from the same arguments, and
\* panic exactly when a required field was not set.
THEOREM CreationAgrees ==
  \A b : Usual(b) =>
     /\ Agree(b, InitializeBuilder(b), InitializeCpiBuilder(b),
              {"stake", "arg0", "arg1"}, {"rent_sysvar"},
              initialize(b.stake, b.arg0, b.arg1))
     /\ Agree(b, InitializeCheckedBuilder(b), InitializeCheckedCpiBuilder(b),
              {"stake", "stake_authority", "withdraw_authority"},
              {"rent_sysvar"},
              initialize_checked(b.stake,
                                 [staker |-> b.stake_authority,
                                  withdrawer |-> b.withdraw_authority]))
BY InitializeAgrees, InitializeCheckedAgrees

-----------------------------------------------------------------------------
(* Delegation and its end.                                                 *)

LEMMA DelegateStakeList ==
  ASSUME NEW b, b.remaining = << >>, b.clock_sysvar = CLOCK_ID,
         b.stake_history = STAKE_HISTORY_ID, b.unused = CONFIG_ID
  PROVE  /\ DelegateStake(b)
             = delegate_stake(b.stake, b.stake_authority, b.vote)
         /\ DelegateStakeCpi(b) = DelegateStake(b)
<1> DEFINE list == << Writable(b.stake, FALSE), Readonly(b.vote, FALSE),
                      Readonly(b.clock_sysvar, FALSE),
                      Readonly(b.stake_history, FALSE),
                      Readonly(b.unused, FALSE),
                      Readonly(b.stake_authority, TRUE) >>
<1>1. list \o << >> = list
  OBVIOUS
<1> HIDE DEF list
<1>2. StakeInstruction[3] = "DelegateStake"
  BY DEF StakeInstruction
<1>3. DelegateStake(b) = Instruction("DelegateStake", << >>, list)
  BY <1>1, <1>2 DEF DelegateStake, Discriminated, list
<1>4. DelegateStakeCpi(b) = DelegateStake(b)
  BY DEF DelegateStake, DelegateStakeCpi
<1> QED
  BY <1>3, <1>4 DEF list, delegate_stake

LEMMA DelegateStakeAgrees ==
  ASSUME NEW b, Usual(b)
  PROVE  Agree(b, DelegateStakeBuilder(b), DelegateStakeCpiBuilder(b),
               {"stake", "vote", "unused", "stake_authority"},
               {"clock_sysvar", "stake_history"},
               delegate_stake(b.stake, b.stake_authority, b.vote))
<1> DEFINE f == Filled(b,
         [clock_sysvar |-> CLOCK_ID, stake_history |-> STAKE_HISTORY_ID])
<1>1. ASSUME {"stake", "vote", "unused", "stake_authority"} \subseteq DOMAIN b
      PROVE  /\ f.stake = b.stake
             /\ f.vote = b.vote
             /\ f.clock_sysvar = CLOCK_ID
             /\ f.stake_history = STAKE_HISTORY_ID
             /\ f.unused = CONFIG_ID
             /\ f.stake_authority = b.stake_authority
             /\ f.remaining = << >>
  BY <1>1 DEF Filled, Setting, Usual
<1> DEFINE g == Filled(b, << >>)
<1>2. ASSUME {"stake", "vote", "clock_sysvar", "stake_history", "unused",
              "stake_authority"} \subseteq DOMAIN b
      PROVE  /\ g.stake = b.stake
             /\ g.vote = b.vote
             /\ g.clock_sysvar = CLOCK_ID
             /\ g.stake_history = STAKE_HISTORY_ID
             /\ g.unused = CONFIG_ID
             /\ g.stake_authority = b.stake_authority
             /\ g.remaining = << >>
  BY <1>2 DEF Filled, Setting, Usual
<1> HIDE DEF f, g
<1>3. ASSUME {"stake", "vote", "unused", "stake_authority"} \subseteq DOMAIN b
      PROVE  DelegateStake(f)
               = delegate_stake(b.stake, b.stake_authority, b.vote)
  BY <1>3, <1>1, DelegateStakeList
<1>4. ASSUME {"stake", "vote", "clock_sysvar", "stake_history", "unused",
              "stake_authority"} \subseteq DOMAIN b
      PROVE  DelegateStakeCpi(g)
               = delegate_stake(b.stake, b.stake_authority, b.vote)
  BY <1>4, <1>2, DelegateStakeList
<1>5. DelegateStakeBuilder(b) = Built(b, {"stake", "vote", "unused",
                "stake_authority"}, DelegateStake(f))
  BY DEF DelegateStakeBuilder, f
<1>6. DelegateStakeCpiBuilder(b) = Built(b, {"stake", "vote", "clock_sysvar",
                "stake_history", "unused",
                "stake_authority"}, DelegateStakeCpi(g))
  BY DEF DelegateStakeCpiBuilder, g
<1> QED
  BY <1>3, <1>4, <1>5, <1>6 DEF Agree, Built

LEMMA DeactivateList ==
  ASSUME NEW b, b.remaining = << >>, b.clock_sysvar = CLOCK_ID
  PROVE  /\ Deactivate(b) = deactivate_stake(b.stake, b.stake_authority)
         /\ DeactivateCpi(b) = Deactivate(b)
<1> DEFINE list == << Writable(b.stake, FALSE), Readonly(b.clock_sysvar, FALSE),
                      Readonly(b.stake_authority, TRUE) >>
<1>1. list \o << >> = list
  OBVIOUS
<1> HIDE DEF list
<1>2. StakeInstruction[6] = "Deactivate"
  BY DEF StakeInstruction
<1>3. Deactivate(b) = Instruction("Deactivate", << >>, list)
  BY <1>1, <1>2 DEF Deactivate, Discriminated, list
<1>4. DeactivateCpi(b) = Deactivate(b)
  BY DEF Deactivate, DeactivateCpi
<1> QED
  BY <1>3, <1>4 DEF list, deactivate_stake

LEMMA DeactivateAgrees ==
  ASSUME NEW b, Usual(b)
  PROVE  Agree(b, DeactivateBuilder(b), DeactivateCpiBuilder(b),
               {"stake", "stake_authority"}, {"clock_sysvar"},
               deactivate_stake(b.stake, b.stake_authority))
<1> DEFINE f == Filled(b, [clock_sysvar |-> CLOCK_ID])
<1>1. ASSUME {"stake", "stake_authority"} \subseteq DOMAIN b
      PROVE  /\ f.stake = b.stake
             /\ f.clock_sysvar = CLOCK_ID
             /\ f.stake_authority = b.stake_authority
             /\ f.remaining = << >>
  BY <1>1 DEF Filled, Setting, Usual
<1> DEFINE g == Filled(b, << >>)
<1>2. ASSUME {"stake", "clock_sysvar", "stake_authority"} \subseteq DOMAIN b
      PROVE  /\ g.stake = b.stake
             /\ g.clock_sysvar = CLOCK_ID
             /\ g.stake_authority = b.stake_authority
             /\ g.remaining = << >>
  BY <1>2 DEF Filled, Setting, Usual
<1> HIDE DEF f, g
<1>3. ASSUME {"stake", "stake_authority"} \subseteq DOMAIN b
      PROVE  Deactivate(f) = deactivate_stake(b.stake, b.stake_authority)
  BY <1>3, <1>1, DeactivateList
<1>4. ASSUME {"stake", "clock_sysvar", "stake_authority"} \subseteq DOMAIN b
      PROVE  DeactivateCpi(g) = deactivate_stake(b.stake, b.stake_authority)
  BY <1>4, <1>2, DeactivateList
<1>5. DeactivateBuilder(b) = Built(b, {"stake",
                "stake_authority"}, Deactivate(f))
  BY DEF DeactivateBuilder, f
<1>6. DeactivateCpiBuilder(b) = Built(b, {"stake", "clock_sysvar",
                "stake_authority"}, DeactivateCpi(g))
  BY DEF DeactivateCpiBuilder, g
<1> QED
  BY <1>3, <1>4, <1>5, <1>6 DEF Agree, Built

LEMMA DeactivateDelinquentList ==
  ASSUME NEW b, b.remaining = << >>
  PROVE  /\ DeactivateDelinquent(b)
             = deactivate_delinquent_stake(b.stake, b.delinquent_vote,
                                           b.reference_vote)
         /\ DeactivateDelinquentCpi(b) = DeactivateDelinquent(b)
<1> DEFINE list == << Writable(b.stake, FALSE),
                      Readonly(b.delinquent_vote, FALSE),
                      Readonly(b.reference_vote, FALSE) >>
<1>1. list \o << >> = list
  OBVIOUS
<1> HIDE DEF list
<1>2. StakeInstruction[15] = "DeactivateDelinquent"
  BY DEF StakeInstruction
<1>3. DeactivateDelinquent(b) = Instruction("DeactivateDelinquent", << >>, list)
  BY <1>1, <1>2 DEF DeactivateDelinquent, Discriminated, list
<1>4. DeactivateDelinquentCpi(b) = DeactivateDelinquent(b)
  BY DEF DeactivateDelinquent, DeactivateDelinquentCpi
<1> QED
  BY <1>3, <1>4 DEF list, deactivate_delinquent_stake

LEMMA DeactivateDelinquentAgrees ==
  ASSUME NEW b, Usual(b)
  PROVE  Agree(b, DeactivateDelinquentBuilder(b),
               DeactivateDelinquentCpiBuilder(b),
               {"stake", "delinquent_vote", "reference_vote"}, {},
               deactivate_delinquent_stake(b.stake, b.delinquent_vote,
                                           b.reference_vote))
<1> DEFINE f == Filled(b, << >>)
<1>1. ASSUME {"stake", "delinquent_vote", "reference_vote"} \subseteq DOMAIN b
      PROVE  /\ f.stake = b.stake
             /\ f.delinquent_vote = b.delinquent_vote
             /\ f.reference_vote = b.reference_vote
             /\ f.remaining = << >>
  BY <1>1 DEF Filled, Setting, Usual
<1> DEFINE g == Filled(b, << >>)
<1>2. ASSUME {"stake", "delinquent_vote", "reference_vote"} \subseteq DOMAIN b
      PROVE  /\ g.stake = b.stake
             /\ g.delinquent_vote = b.delinquent_vote
             /\ g.reference_vote = b.reference_vote
             /\ g.remaining = << >>
  BY <1>2 DEF Filled, Setting, Usual
<1> HIDE DEF f, g
<1>3. ASSUME {"stake", "delinquent_vote", "reference_vote"} \subseteq DOMAIN b
      PROVE  DeactivateDelinquent(f)
               = deactivate_delinquent_stake(b.stake, b.delinquent_vote,
                                             b.reference_vote)
  BY <1>3, <1>1, DeactivateDelinquentList
<1>4. ASSUME {"stake", "delinquent_vote", "reference_vote"} \subseteq DOMAIN b
      PROVE  DeactivateDelinquentCpi(g)
               = deactivate_delinquent_stake(b.stake, b.delinquent_vote,
                                             b.reference_vote)
  BY <1>4, <1>2, DeactivateDelinquentList
<1>5. DeactivateDelinquentBuilder(b) = Built(b, {"stake", "delinquent_vote",
                "reference_vote"}, DeactivateDelinquent(f))
  BY DEF DeactivateDelinquentBuilder, f
<1>6. DeactivateDelinquentCpiBuilder(b) = Built(b, {"stake", "delinquent_vote",
                "reference_vote"}, DeactivateDelinquentCpi(g))
  BY DEF DeactivateDelinquentCpiBuilder, g
<1> QED
  BY <1>3, <1>4, <1>5, <1>6 DEF Agree, Built

\* The same for delegate_stake, deactivate_stake and deactivate_delinquent_stake.
THEOREM DelegationAgrees ==
  \A b : Usual(b) =>
     /\ Agree(b, DelegateStakeBuilder(b), DelegateStakeCpiBuilder(b),
              {"stake", "vote", "unused", "stake_authority"},
              {"clock_sysvar", "stake_history"},
              delegate_stake(b.stake, b.stake_authority, b.vote))
     /\ Agree(b, DeactivateBuilder(b), DeactivateCpiBuilder(b),
              {"stake", "stake_authority"}, {"clock_sysvar"},
              deactivate_stake(b.stake, b.stake_authority))
     /\ Agree(b, DeactivateDelinquentBuilder(b),
              DeactivateDelinquentCpiBuilder(b),
              {"stake", "delinquent_vote", "reference_vote"}, {},
              deactivate_delinquent_stake(b.stake, b.delinquent_vote,
                                          b.reference_vote))
BY DelegateStakeAgrees, DeactivateAgrees, DeactivateDelinquentAgrees

-----------------------------------------------------------------------------
(* Authorities and lockup.                                                 *)

LEMMA AuthorizeList ==
  ASSUME NEW b, b.remaining = << >>, b.clock_sysvar = CLOCK_ID
  PROVE  /\ Authorize(b)
             = authorize(b.stake, b.authority, b.arg0, b.arg1,
                         b.lockup_authority)
         /\ AuthorizeCpi(b) = Authorize(b)
<1> DEFINE metas == << Writable(b.stake, FALSE),
                       Readonly(b.clock_sysvar, FALSE),
                       Readonly(b.authority, TRUE) >>
           list == WithOptional(metas, b.lockup_authority)
<1>1. list \o << >> = list
  BY DEF WithOptional
<1> HIDE DEF list
<1>2. StakeInstruction[2] = "Authorize"
  BY DEF StakeInstruction
<1>3. Authorize(b)
      = Instruction("Authorize", [new |-> b.arg0, who |-> b.arg1], list)
  BY <1>1, <1>2 DEF Authorize, Discriminated, list
<1>4. AuthorizeCpi(b) = Authorize(b)
  BY DEF Authorize, AuthorizeCpi
<1> QED
  BY <1>3, <1>4 DEF list, authorize

LEMMA AuthorizeAgrees ==
  ASSUME NEW b, Usual(b)
  PROVE  Agree(b, AuthorizeBuilder(b), AuthorizeCpiBuilder(b),
               {"stake", "authority", "arg0", "arg1"}, {"clock_sysvar"},
               authorize(b.stake, b.authority, b.arg0, b.arg1, Custodian(b)))
<1> DEFINE f == Filled(b,
         [clock_sysvar |-> CLOCK_ID,
          lockup_authority |-> NoKey])
<1>1. ASSUME {"stake", "authority", "arg0", "arg1"} \subseteq DOMAIN b
      PROVE  /\ f.arg0 = b.arg0
             /\ f.arg1 = b.arg1
             /\ f.stake = b.stake
             /\ f.clock_sysvar = CLOCK_ID
             /\ f.authority = b.authority
             /\ f.lockup_authority = Setting(b, "lockup_authority", NoKey)
             /\ f.remaining = << >>
  BY <1>1 DEF Filled, Setting, Usual
<1> DEFINE g == Filled(b, [lockup_authority |-> NoKey])
<1>2. ASSUME {"stake", "clock_sysvar", "authority", "arg0",
              "arg1"} \subseteq DOMAIN b
      PROVE  /\ g.arg0 = b.arg0
             /\ g.arg1 = b.arg1
             /\ g.stake = b.stake
             /\ g.clock_sysvar = CLOCK_ID
             /\ g.authority = b.authority
             /\ g.lockup_authority = Setting(b, "lockup_authority", NoKey)
             /\ g.remaining = << >>
  BY <1>2 DEF Filled, Setting, Usual
<1> HIDE DEF f, g
<1>3. ASSUME {"stake", "authority", "arg0", "arg1"} \subseteq DOMAIN b
      PROVE  Authorize(f)
               = authorize(b.stake, b.authority, b.arg0, b.arg1, Custodian(b))
  BY <1>3, <1>1, AuthorizeList DEF Custodian
<1>4. ASSUME {"stake", "clock_sysvar", "authority", "arg0",
              "arg1"} \subseteq DOMAIN b
      PROVE  AuthorizeCpi(g)
               = authorize(b.stake, b.authority, b.arg0, b.arg1, Custodian(b))
  BY <1>4, <1>2, AuthorizeList DEF Custodian
<1>5. AuthorizeBuilder(b) = Built(b, {"stake", "authority", "arg0",
                "arg1"}, Authorize(f))
  BY DEF AuthorizeBuilder, f
<1>6. AuthorizeCpiBuilder(b) = Built(b, {"stake", "clock_sysvar", "authority",
                "arg0", "arg1"}, AuthorizeCpi(g))
  BY DEF AuthorizeCpiBuilder, g
<1> QED
  BY <1>3, <1>4, <1>5, <1>6 DEF Agree, Built

LEMMA AuthorizeCheckedList ==
  ASSUME NEW b, b.remaining = << >>, b.clock_sysvar = CLOCK_ID
  PROVE  /\ AuthorizeChecked(b)
             = authorize_checked(b.stake, b.authority, b.new_authority,
                                 b.stake_authorize, b.lockup_authority)
         /\ AuthorizeCheckedCpi(b) = AuthorizeChecked(b)
<1> DEFINE metas == << Writable(b.stake, FALSE),
                       Readonly(b.clock_sysvar, FALSE),
                       Readonly(b.authority, TRUE),
                       Readonly(b.new_authority, TRUE) >>
           list == WithOptional(metas, b.lockup_authority)
<1>1. list \o << >> = list
  BY DEF WithOptional
<1> HIDE DEF list
<1>2. StakeInstruction[11] = "AuthorizeChecked"
  BY DEF StakeInstruction
<1>3. AuthorizeChecked(b)
      = Instruction("AuthorizeChecked", [who |-> b.stake_authorize], list)
  BY <1>1, <1>2 DEF AuthorizeChecked, Discriminated, list
<1>4. AuthorizeCheckedCpi(b) = AuthorizeChecked(b)
  BY DEF AuthorizeChecked, AuthorizeCheckedCpi
<1> QED
  BY <1>3, <1>4 DEF list, authorize_checked

LEMMA AuthorizeCheckedAgrees ==
  ASSUME NEW b, Usual(b)
  PROVE  Agree(b, AuthorizeCheckedBuilder(b), AuthorizeCheckedCpiBuilder(b),
               {"stake", "authority", "new_authority", "stake_authorize"},
               {"clock_sysvar"},
               authorize_checked(b.stake, b.authority, b.new_authority,
                                 b.stake_authorize, Custodian(b)))
<1> DEFINE f == Filled(b,
         [clock_sysvar |-> CLOCK_ID,
          lockup_authority |-> NoKey])
<1>1. ASSUME {"stake", "authority", "new_authority",
              "stake_authorize"} \subseteq DOMAIN b
      PROVE  /\ f.stake_authorize = b.stake_authorize
             /\ f.stake = b.stake
             /\ f.clock_sysvar = CLOCK_ID
             /\ f.authority = b.authority
             /\ f.new_authority = b.new_authority
             /\ f.lockup_authority = Setting(b, "lockup_authority", NoKey)
             /\ f.remaining = << >>
  BY <1>1 DEF Filled, Setting, Usual
<1> DEFINE g == Filled(b, [lockup_authority |-> NoKey])
<1>2. ASSUME {"stake", "clock_sysvar", "authority", "new_authority",
              "stake_authorize"} \subseteq DOMAIN b
      PROVE  /\ g.stake_authorize = b.stake_authorize
             /\ g.stake = b.stake
             /\ g.clock_sysvar = CLOCK_ID
             /\ g.authority = b.authority
             /\ g.new_authority = b.new_authority
             /\ g.lockup_authority = Setting(b, "lockup_authority", NoKey)
             /\ g.remaining = << >>
  BY <1>2 DEF Filled, Setting, Usual
<1> HIDE DEF f, g
<1>3. ASSUME {"stake", "authority", "new_authority",
              "stake_authorize"} \subseteq DOMAIN b
      PROVE  AuthorizeChecked(f)
               = authorize_checked(b.stake, b.authority, b.new_authority,
                                   b.stake_authorize, Custodian(b))
  BY <1>3, <1>1, AuthorizeCheckedList DEF Custodian
<1>4. ASSUME {"stake", "clock_sysvar", "authority", "new_authority",
              "stake_authorize"} \subseteq DOMAIN b
      PROVE  AuthorizeCheckedCpi(g)
               = authorize_checked(b.stake, b.authority, b.new_authority,
                                   b.stake_authorize, Custodian(b))
  BY <1>4, <1>2, AuthorizeCheckedList DEF Custodian
<1>5. AuthorizeCheckedBuilder(b) = Built(b, {"stake", "authority",
                "new_authority", "stake_authorize"}, AuthorizeChecked(f))
  BY DEF AuthorizeCheckedBuilder, f
<1>6. AuthorizeCheckedCpiBuilder(b) = Built(b, {"stake", "clock_sysvar",
                "authority", "new_authority",
                "stake_authorize"}, AuthorizeCheckedCpi(g))
  BY DEF AuthorizeCheckedCpiBuilder, g
<1> QED
  BY <1>3, <1>4, <1>5, <1>6 DEF Agree, Built

LEMMA AuthorizeWithSeedList ==
  ASSUME NEW b, b.remaining = << >>, b.clock_sysvar = CLOCK_ID
  PROVE  /\ AuthorizeWithSeed(b)
             = authorize_with_seed(b.stake, b.base, b.authority_seed,
                                   b.new_authorized_pubkey, b.stake_authorize,
                                   b.lockup_authority)
         /\ AuthorizeWithSeedCpi(b) = AuthorizeWithSeed(b)
<1> DEFINE metas == << Writable(b.stake, FALSE), Readonly(b.base, TRUE),
                       Readonly(b.clock_sysvar, FALSE) >>
           list == WithOptional(metas, b.lockup_authority)
<1>1. list \o << >> = list
  BY DEF WithOptional
<1> HIDE DEF list
<1>2. StakeInstruction[9] = "AuthorizeWithSeed"
  BY DEF StakeInstruction
<1>3. AuthorizeWithSeed(b)
      = Instruction("AuthorizeWithSeed",
                    [new |-> b.new_authorized_pubkey, who |-> b.stake_authorize,
                     seed |-> b.authority_seed],
                    list)
  BY <1>1, <1>2 DEF AuthorizeWithSeed, Discriminated, list
<1>4. AuthorizeWithSeedCpi(b) = AuthorizeWithSeed(b)
  BY DEF AuthorizeWithSeed, AuthorizeWithSeedCpi
<1> QED
  BY <1>3, <1>4 DEF list, authorize_with_seed

LEMMA AuthorizeWithSeedAgrees ==
  ASSUME NEW b, Usual(b)
  PROVE  Agree(b, AuthorizeWithSeedBuilder(b), AuthorizeWithSeedCpiBuilder(b),
               {"stake", "base", "new_authorized_pubkey", "stake_authorize",
                "authority_seed"}, {"clock_sysvar"},
               authorize_with_seed(b.stake, b.base, b.authority_seed,
                                   b.new_authorized_pubkey, b.stake_authorize,
                                   Custodian(b)))
<1> DEFINE f == Filled(b,
         [clock_sysvar |-> CLOCK_ID,
          lockup_authority |-> NoKey])
<1>1. ASSUME {"stake", "base", "new_authorized_pubkey", "stake_authorize",
              "authority_seed"} \subseteq DOMAIN b
      PROVE  /\ f.new_authorized_pubkey = b.new_authorized_pubkey
             /\ f.stake_authorize = b.stake_authorize
             /\ f.authority_seed = b.authority_seed
             /\ f.stake = b.stake
             /\ f.base = b.base
             /\ f.clock_sysvar = CLOCK_ID
             /\ f.lockup_authority = Setting(b, "lockup_authority", NoKey)
             /\ f.remaining = << >>
  BY <1>1 DEF Filled, Setting, Usual
<1> DEFINE g == Filled(b, [lockup_authority |-> NoKey])
<1>2. ASSUME {"stake", "base", "clock_sysvar", "new_authorized_pubkey",
              "stake_authorize", "authority_seed"} \subseteq DOMAIN b
      PROVE  /\ g.new_authorized_pubkey = b.new_authorized_pubkey
             /\ g.stake_authorize = b.stake_authorize
             /\ g.authority_seed = b.authority_seed
             /\ g.stake = b.stake
             /\ g.base = b.base
             /\ g.clock_sysvar = CLOCK_ID
             /\ g.lockup_authority = Setting(b, "lockup_authority", NoKey)
             /\ g.remaining = << >>
  BY <1>2 DEF Filled, Setting, Usual
<1> HIDE DEF f, g
<1>3. ASSUME {"stake", "base", "new_authorized_pubkey", "stake_authorize",
              "authority_seed"} \subseteq DOMAIN b
      PROVE  AuthorizeWithSeed(f)
               = authorize_with_seed(b.stake, b.base, b.authority_seed,
                                     b.new_authorized_pubkey, b.stake_authorize,
                                     Custodian(b))
  BY <1>3, <1>1, AuthorizeWithSeedList DEF Custodian
<1>4. ASSUME {"stake", "base", "clock_sysvar", "new_authorized_pubkey",
              "stake_authorize", "authority_seed"} \subseteq DOMAIN b
      PROVE  AuthorizeWithSeedCpi(g)
               = authorize_with_seed(b.stake, b.base, b.authority_seed,
                                     b.new_authorized_pubkey, b.stake_authorize,
                                     Custodian(b))
  BY <1>4, <1>2, AuthorizeWithSeedList DEF Custodian
<1>5. AuthorizeWithSeedBuilder(b) = Built(b, {"stake", "base",
                "new_authorized_pubkey", "stake_authorize",
                "authority_seed"}, AuthorizeWithSeed(f))
  BY DEF AuthorizeWithSeedBuilder, f
<1>6. AuthorizeWithSeedCpiBuilder(b) = Built(b, {"stake", "base",
                "clock_sysvar", "new_authorized_pubkey", "stake_authorize",
                "authority_seed"}, AuthorizeWithSeedCpi(g))
  BY DEF AuthorizeWithSeedCpiBuilder, g
<1> QED
  BY <1>3, <1>4, <1>5, <1>6 DEF Agree, Built

LEMMA AuthorizeCheckedWithSeedList ==
  ASSUME NEW b, b.remaining = << >>, b.clock_sysvar = CLOCK_ID
  PROVE  /\ AuthorizeCheckedWithSeed(b)
             = authorize_checked_with_seed(b.stake, b.base, b.authority_seed,
                                           b.new_authority, b.stake_authorize,
                                           b.lockup_authority)
         /\ AuthorizeCheckedWithSeedCpi(b) = AuthorizeCheckedWithSeed(b)
<1> DEFINE metas == << Writable(b.stake, FALSE), Readonly(b.base, TRUE),
                       Readonly(b.clock_sysvar, FALSE),
                       Readonly(b.new_authority, TRUE) >>
           list == WithOptional(metas, b.lockup_authority)
<1>1. list \o << >> = list
  BY DEF WithOptional
<1> HIDE DEF list
<1>2. StakeInstruction[12] = "AuthorizeCheckedWithSeed"
  BY DEF StakeInstruction
<1>3. AuthorizeCheckedWithSeed(b)
      = Instruction("AuthorizeCheckedWithSeed",
                    [who |-> b.stake_authorize, seed |-> b.authority_seed],
                    list)
  BY <1>1, <1>2 DEF AuthorizeCheckedWithSeed, Discriminated, list
<1>4. AuthorizeCheckedWithSeedCpi(b) = AuthorizeCheckedWithSeed(b)
  BY DEF AuthorizeCheckedWithSeed, AuthorizeCheckedWithSeedCpi
<1> QED
  BY <1>3, <1>4 DEF list, authorize_checked_with_seed

LEMMA AuthorizeCheckedWithSeedAgrees ==
  ASSUME NEW b, Usual(b)
  PROVE  Agree(b, AuthorizeCheckedWithSeedBuilder(b),
               AuthorizeCheckedWithSeedCpiBuilder(b),
               {"stake", "base", "new_authority", "stake_authorize",
                "authority_seed"}, {"clock_sysvar"},
               authorize_checked_with_seed(b.stake, b.base, b.authority_seed,
                                           b.new_authority, b.stake_authorize,
                                           Custodian(b)))
<1> DEFINE f == Filled(b,
         [clock_sysvar |-> CLOCK_ID,
          lockup_authority |-> NoKey])
<1>1. ASSUME {"stake", "base", "new_authority", "stake_authorize",
              "authority_seed"} \subseteq DOMAIN b
      PROVE  /\ f.stake_authorize = b.stake_authorize
             /\ f.authority_seed = b.authority_seed
             /\ f.stake = b.stake
             /\ f.base = b.base
             /\ f.clock_sysvar = CLOCK_ID
             /\ f.new_authority = b.new_authority
             /\ f.lockup_authority = Setting(b, "lockup_authority", NoKey)
             /\ f.remaining = << >>
  BY <1>1 DEF Filled, Setting, Usual
<1> DEFINE g == Filled(b, [lockup_authority |-> NoKey])
<1>2. ASSUME {"stake", "base", "clock_sysvar", "new_authority",
              "stake_authorize", "authority_seed"} \subseteq DOMAIN b
      PROVE  /\ g.stake_authorize = b.stake_authorize
             /\ g.authority_seed = b.authority_seed
             /\ g.stake = b.stake
             /\ g.base = b.base
             /\ g.clock_sysvar = CLOCK_ID
             /\ g.new_authority = b.new_authority
             /\ g.lockup_authority = Setting(b, "lockup_authority", NoKey)
             /\ g.remaining = << >>
  BY <1>2 DEF Filled, Setting, Usual
<1> HIDE DEF f, g
<1>3. ASSUME {"stake", "base", "new_authority", "stake_authorize",
              "authority_seed"} \subseteq DOMAIN b
      PROVE  AuthorizeCheckedWithSeed(f)
               = authorize_checked_with_seed(b.stake, b.base, b.authority_seed,
                                             b.new_authority, b.stake_authorize,
                                             Custodian(b))
  BY <1>3, <1>1, AuthorizeCheckedWithSeedList DEF Custodian
<1>4. ASSUME {"stake", "base", "clock_sysvar", "new_authority",
              "stake_authorize", "authority_seed"} \subseteq DOMAIN b
      PROVE  AuthorizeCheckedWithSeedCpi(g)
               = authorize_checked_with_seed(b.stake, b.base, b.authority_seed,
                                             b.new_authority, b.stake_authorize,
                                             Custodian(b))
  BY <1>4, <1>2, AuthorizeCheckedWithSeedList DEF Custodian
<1>5. AuthorizeCheckedWithSeedBuilder(b) = Built(b, {"stake", "base",
                "new_authority", "stake_authorize",
                "authority_seed"}, AuthorizeCheckedWithSeed(f))
  BY DEF AuthorizeCheckedWithSeedBuilder, f
<1>6. AuthorizeCheckedWithSeedCpiBuilder(b) = Built(b, {"stake", "base",
                "clock_sysvar", "new_authority", "stake_authorize",
                "authority_seed"}, AuthorizeCheckedWithSeedCpi(g))
  BY DEF AuthorizeCheckedWithSeedCpiBuilder, g
<1> QED
  BY <1>3, <1>4, <1>5, <1>6 DEF Agree, Built

LEMMA SetLockupList ==
  ASSUME NEW b, b.remaining = << >>
  PROVE  /\ SetLockup(b)
             = set_lockup(b.stake,
                          [unix_timestamp |-> b.unix_timestamp,
                           epoch |-> b.epoch, custodian |-> b.custodian],
                          b.authority)
         /\ SetLockupCpi(b) = SetLockup(b)
<1> DEFINE list == << Writable(b.stake, FALSE), Readonly(b.authority, TRUE) >>
<1>1. list \o << >> = list
  OBVIOUS
<1> HIDE DEF list
<1>2. StakeInstruction[7] = "SetLockup"
  BY DEF StakeInstruction
<1>3. SetLockup(b)
      = Instruction("SetLockup",
                    [lockup |-> [unix_timestamp |-> b.unix_timestamp,
                     epoch |-> b.epoch, custodian |-> b.custodian]],
                    list)
  BY <1>1, <1>2 DEF SetLockup, Discriminated, list
<1>4. SetLockupCpi(b) = SetLockup(b)
  BY DEF SetLockup, SetLockupCpi
<1> QED
  BY <1>3, <1>4 DEF list, set_lockup

LEMMA SetLockupAgrees ==
  ASSUME NEW b, Usual(b)
  PROVE  Agree(b, SetLockupBuilder(b), SetLockupCpiBuilder(b),
               {"stake", "authority"}, {},
               set_lockup(b.stake, Change(b, Setting(b, "custodian", Unset)),
                          b.authority))
<1> DEFINE f == Filled(b,
         [unix_timestamp |-> Unset, epoch |-> Unset, custodian |-> Unset])
<1>1. ASSUME {"stake", "authority"} \subseteq DOMAIN b
      PROVE  /\ f.unix_timestamp = Setting(b, "unix_timestamp", Unset)
             /\ f.epoch = Setting(b, "epoch", Unset)
             /\ f.custodian = Setting(b, "custodian", Unset)
             /\ f.stake = b.stake
             /\ f.authority = b.authority
             /\ f.remaining = << >>
  BY <1>1 DEF Filled, Setting, Usual
<1> DEFINE g == Filled(b,
         [unix_timestamp |-> Unset, epoch |-> Unset, custodian |-> Unset])
<1>2. ASSUME {"stake", "authority"} \subseteq DOMAIN b
      PROVE  /\ g.unix_timestamp = Setting(b, "unix_timestamp", Unset)
             /\ g.epoch = Setting(b, "epoch", Unset)
             /\ g.custodian = Setting(b, "custodian", Unset)
             /\ g.stake = b.stake
             /\ g.authority = b.authority
             /\ g.remaining = << >>
  BY <1>2 DEF Filled, Setting, Usual
<1> HIDE DEF f, g
<1>3. ASSUME {"stake", "authority"} \subseteq DOMAIN b
      PROVE  SetLockup(f)
               = set_lockup(b.stake, Change(b, Setting(b, "custodian", Unset)),
                            b.authority)
  BY <1>3, <1>1, SetLockupList DEF Change
<1>4. ASSUME {"stake", "authority"} \subseteq DOMAIN b
      PROVE  SetLockupCpi(g)
               = set_lockup(b.stake, Change(b, Setting(b, "custodian", Unset)),
                            b.authority)
  BY <1>4, <1>2, SetLockupList DEF Change
<1>5. SetLockupBuilder(b) = Built(b, {"stake", "authority"}, SetLockup(f))
  BY DEF SetLockupBuilder, f
<1>6. SetLockupCpiBuilder(b) = Built(b, {"stake", "authority"}, SetLockupCpi(g))
  BY DEF SetLockupCpiBuilder, g
<1> QED
  BY <1>3, <1>4, <1>5, <1>6 DEF Agree, Built

LEMMA SetLockupCheckedList ==
  ASSUME NEW b, b.remaining = << >>, NEW custodian,
         b.new_authority = IF custodian = Unset THEN NoKey ELSE custodian
  PROVE  /\ SetLockupChecked(b)
             = set_lockup_checked(b.stake,
                                  [unix_timestamp |-> b.unix_timestamp,
                                   epoch |-> b.epoch, custodian |-> custodian],
                                  b.authority)
         /\ SetLockupCheckedCpi(b) = SetLockupChecked(b)
<1> DEFINE metas == << Writable(b.stake, FALSE), Readonly(b.authority, TRUE) >>
           list == WithOptional(metas, b.new_authority)
<1>1. list \o << >> = list
  BY DEF WithOptional
<1> HIDE DEF list
<1>2. StakeInstruction[13] = "SetLockupChecked"
  BY DEF StakeInstruction
<1>3. SetLockupChecked(b)
      = Instruction("SetLockupChecked",
                    [unix_timestamp |-> b.unix_timestamp, epoch |-> b.epoch],
                    list)
  BY <1>1, <1>2 DEF SetLockupChecked, Discriminated, list
<1>4. SetLockupCheckedCpi(b) = SetLockupChecked(b)
  BY DEF SetLockupChecked, SetLockupCheckedCpi
<1> QED
  BY <1>3, <1>4 DEF list, set_lockup_checked

LEMMA SetLockupCheckedAgrees ==
  ASSUME NEW b, Usual(b)
  PROVE  Agree(b, SetLockupCheckedBuilder(b), SetLockupCheckedCpiBuilder(b),
               {"stake", "authority"}, {},
               set_lockup_checked(b.stake, Change(b, NewCustodian(b)),
                                  b.authority))
<1> DEFINE f == Filled(b,
         [unix_timestamp |-> Unset, epoch |-> Unset, new_authority |-> NoKey])
<1>1. ASSUME {"stake", "authority"} \subseteq DOMAIN b
      PROVE  /\ f.unix_timestamp = Setting(b, "unix_timestamp", Unset)
             /\ f.epoch = Setting(b, "epoch", Unset)
             /\ f.stake = b.stake
             /\ f.authority = b.authority
             /\ f.new_authority = Setting(b, "new_authority", NoKey)
             /\ f.remaining = << >>
  BY <1>1 DEF Filled, Setting, Usual
<1> DEFINE g == Filled(b,
         [unix_timestamp |-> Unset, epoch |-> Unset, new_authority |-> NoKey])
<1>2. ASSUME {"stake", "authority"} \subseteq DOMAIN b
      PROVE  /\ g.unix_timestamp = Setting(b, "unix_timestamp", Unset)
             /\ g.epoch = Setting(b, "epoch", Unset)
             /\ g.stake = b.stake
             /\ g.authority = b.authority
             /\ g.new_authority = Setting(b, "new_authority", NoKey)
             /\ g.remaining = << >>
  BY <1>2 DEF Filled, Setting, Usual
<1> HIDE DEF f, g
<1>3. ASSUME {"stake", "authority"} \subseteq DOMAIN b
      PROVE  SetLockupChecked(f)
               = set_lockup_checked(b.stake, Change(b, NewCustodian(b)),
                                    b.authority)
  BY <1>3, <1>1, SetLockupCheckedList DEF Usual, Change, NewCustodian
<1>4. ASSUME {"stake", "authority"} \subseteq DOMAIN b
      PROVE  SetLockupCheckedCpi(g)
               = set_lockup_checked(b.stake, Change(b, NewCustodian(b)),
                                    b.authority)
  BY <1>4, <1>2, SetLockupCheckedList DEF Usual, Change, NewCustodian
<1>5. SetLockupCheckedBuilder(b) = Built(b, {"stake",
                "authority"}, SetLockupChecked(f))
  BY DEF SetLockupCheckedBuilder, f
<1>6. SetLockupCheckedCpiBuilder(b) = Built(b, {"stake",
                "authority"}, SetLockupCheckedCpi(g))
  BY DEF SetLockupCheckedCpiBuilder, g
<1> QED
  BY <1>3, <1>4, <1>5, <1>6 DEF Agree, Built

\* The same for the four forms of authorize and the two of set_lockup, with a
\* custodian or without one and with any of the lockup's fields left as they are.
THEOREM AuthorityAgrees ==
  \A b : Usual(b) =>
     /\ Agree(b, AuthorizeBuilder(b), AuthorizeCpiBuilder(b),
              {"stake", "authority", "arg0", "arg1"}, {"clock_sysvar"},
              authorize(b.stake, b.authority, b.arg0, b.arg1, Custodian(b)))
     /\ Agree(b, AuthorizeCheckedBuilder(b), AuthorizeCheckedCpiBuilder(b),
              {"stake", "authority", "new_authority", "stake_authorize"},
              {"clock_sysvar"},
              authorize_checked(b.stake, b.authority, b.new_authority,
                                b.stake_authorize, Custodian(b)))
     /\ Agree(b, AuthorizeWithSeedBuilder(b), AuthorizeWithSeedCpiBuilder(b),
              {"stake", "base", "new_authorized_pubkey", "stake_authorize",
               "authority_seed"}, {"clock_sysvar"},
              authorize_with_seed(b.stake, b.base, b.authority_seed,
                                  b.new_authorized_pubkey, b.stake_authorize,
                                  Custodian(b)))
     /\ Agree(b, AuthorizeCheckedWithSeedBuilder(b),
              AuthorizeCheckedWithSeedCpiBuilder(b),
              {"stake", "base", "new_authority", "stake_authorize",
               "authority_seed"}, {"clock_sysvar"},
              authorize_checked_with_seed(b.stake, b.base, b.authority_seed,
                                          b.new_authority, b.stake_authorize,
                                          Custodian(b)))
     /\ Agree(b, SetLockupBuilder(b), SetLockupCpiBuilder(b),
              {"stake", "authority"}, {},
              set_lockup(b.stake, Change(b, Setting(b, "custodian", Unset)),
                         b.authority))
     /\ Agree(b, SetLockupCheckedBuilder(b), SetLockupCheckedCpiBuilder(b),
              {"stake", "authority"}, {},
              set_lockup_checked(b.stake, Change(b, NewCustodian(b)),
                                 b.authority))
BY AuthorizeAgrees, AuthorizeCheckedAgrees, AuthorizeWithSeedAgrees,
   AuthorizeCheckedWithSeedAgrees, SetLockupAgrees, SetLockupCheckedAgrees

-----------------------------------------------------------------------------
(* Lamports.                                                               *)

LEMMA SplitList ==
  ASSUME NEW b, b.remaining = << >>
  PROVE  /\ Split(b) = _split(b.stake, b.stake_authority, b.args, b.split_stake)
         /\ SplitCpi(b) = Split(b)
<1> DEFINE list == << Writable(b.stake, FALSE), Writable(b.split_stake, FALSE),
                      Readonly(b.stake_authority, TRUE) >>
<1>1. list \o << >> = list
  OBVIOUS
<1> HIDE DEF list
<1>2. StakeInstruction[4] = "Split"
  BY DEF StakeInstruction
<1>3. Split(b) = Instruction("Split", [lamports |-> b.args], list)
  BY <1>1, <1>2 DEF Split, Discriminated, list
<1>4. SplitCpi(b) = Split(b)
  BY DEF Split, SplitCpi
<1> QED
  BY <1>3, <1>4 DEF list, _split

LEMMA SplitAgrees ==
  ASSUME NEW b, Usual(b)
  PROVE  Agree(b, SplitBuilder(b), SplitCpiBuilder(b),
               {"stake", "split_stake", "stake_authority", "args"}, {},
               _split(b.stake, b.stake_authority, b.args, b.split_stake))
<1> DEFINE f == Filled(b, << >>)
<1>1. ASSUME {"stake", "split_stake", "stake_authority",
              "args"} \subseteq DOMAIN b
      PROVE  /\ f.args = b.args
             /\ f.stake = b.stake
             /\ f.split_stake = b.split_stake
             /\ f.stake_authority = b.stake_authority
             /\ f.remaining = << >>
  BY <1>1 DEF Filled, Setting, Usual
<1> DEFINE g == Filled(b, << >>)
<1>2. ASSUME {"stake", "split_stake", "stake_authority",
              "args"} \subseteq DOMAIN b
      PROVE  /\ g.args = b.args
             /\ g.stake = b.stake
             /\ g.split_stake = b.split_stake
             /\ g.stake_authority = b.stake_authority
             /\ g.remaining = << >>
  BY <1>2 DEF Filled, Setting, Usual
<1> HIDE DEF f, g
<1>3. ASSUME {"stake", "split_stake", "stake_authority",
              "args"} \subseteq DOMAIN b
      PROVE  Split(f)
               = _split(b.stake, b.stake_authority, b.args, b.split_stake)
  BY <1>3, <1>1, SplitList
<1>4. ASSUME {"stake", "split_stake", "stake_authority",
              "args"} \subseteq DOMAIN b
      PROVE  SplitCpi(g)
               = _split(b.stake, b.stake_authority, b.args, b.split_stake)
  BY <1>4, <1>2, SplitList
<1>5. SplitBuilder(b) = Built(b, {"stake", "split_stake", "stake_authority",
                "args"}, Split(f))
  BY DEF SplitBuilder, f
<1>6. SplitCpiBuilder(b) = Built(b, {"stake", "split_stake", "stake_authority",
                "args"}, SplitCpi(g))
  BY DEF SplitCpiBuilder, g
<1> QED
  BY <1>3, <1>4, <1>5, <1>6 DEF Agree, Built

LEMMA MergeList ==
  ASSUME NEW b, b.remaining = << >>, b.clock_sysvar = CLOCK_ID,
         b.stake_history = STAKE_HISTORY_ID
  PROVE  /\ Merge(b)
             = merge(b.destination_stake, b.source_stake, b.stake_authority)[1]
         /\ MergeCpi(b) = Merge(b)
<1> DEFINE list == << Writable(b.destination_stake, FALSE),
                      Writable(b.source_stake, FALSE),
                      Readonly(b.clock_sysvar, FALSE),
                      Readonly(b.stake_history, FALSE),
                      Readonly(b.stake_authority, TRUE) >>
<1>1. list \o << >> = list
  OBVIOUS
<1> HIDE DEF list
<1>2. StakeInstruction[8] = "Merge"
  BY DEF StakeInstruction
<1>3. Merge(b) = Instruction("Merge", << >>, list)
  BY <1>1, <1>2 DEF Merge, Discriminated, list
<1>4. MergeCpi(b) = Merge(b)
  BY DEF Merge, MergeCpi
<1> QED
  BY <1>3, <1>4 DEF list, merge

LEMMA MergeAgrees ==
  ASSUME NEW b, Usual(b)
  PROVE  Agree(b, MergeBuilder(b), MergeCpiBuilder(b),
               {"destination_stake", "source_stake", "stake_authority"},
               {"clock_sysvar", "stake_history"},
               merge(b.destination_stake, b.source_stake, b.stake_authority)[1])
<1> DEFINE f == Filled(b,
         [clock_sysvar |-> CLOCK_ID, stake_history |-> STAKE_HISTORY_ID])
<1>1. ASSUME {"destination_stake", "source_stake",
              "stake_authority"} \subseteq DOMAIN b
      PROVE  /\ f.destination_stake = b.destination_stake
             /\ f.source_stake = b.source_stake
             /\ f.clock_sysvar = CLOCK_ID
             /\ f.stake_history = STAKE_HISTORY_ID
             /\ f.stake_authority = b.stake_authority
             /\ f.remaining = << >>
  BY <1>1 DEF Filled, Setting, Usual
<1> DEFINE g == Filled(b, << >>)
<1>2. ASSUME {"destination_stake", "source_stake", "clock_sysvar",
              "stake_history", "stake_authority"} \subseteq DOMAIN b
      PROVE  /\ g.destination_stake = b.destination_stake
             /\ g.source_stake = b.source_stake
             /\ g.clock_sysvar = CLOCK_ID
             /\ g.stake_history = STAKE_HISTORY_ID
             /\ g.stake_authority = b.stake_authority
             /\ g.remaining = << >>
  BY <1>2 DEF Filled, Setting, Usual
<1> HIDE DEF f, g
<1>3. ASSUME {"destination_stake", "source_stake",
              "stake_authority"} \subseteq DOMAIN b
      PROVE  Merge(f)
               = merge(b.destination_stake, b.source_stake,
                       b.stake_authority)[1]
  BY <1>3, <1>1, MergeList
<1>4. ASSUME {"destination_stake", "source_stake", "clock_sysvar",
              "stake_history", "stake_authority"} \subseteq DOMAIN b
      PROVE  MergeCpi(g)
               = merge(b.destination_stake, b.source_stake,
                       b.stake_authority)[1]
  BY <1>4, <1>2, MergeList
<1>5. MergeBuilder(b) = Built(b, {"destination_stake", "source_stake",
                "stake_authority"}, Merge(f))
  BY DEF MergeBuilder, f
<1>6. MergeCpiBuilder(b) = Built(b, {"destination_stake", "source_stake",
                "clock_sysvar", "stake_history",
                "stake_authority"}, MergeCpi(g))
  BY DEF MergeCpiBuilder, g
<1> QED
  BY <1>3, <1>4, <1>5, <1>6 DEF Agree, Built

LEMMA WithdrawList ==
  ASSUME NEW b, b.remaining = << >>, b.clock_sysvar = CLOCK_ID,
         b.stake_history = STAKE_HISTORY_ID
  PROVE  /\ Withdraw(b)
             = withdraw(b.stake, b.withdraw_authority, b.recipient, b.args,
                        b.lockup_authority)
         /\ WithdrawCpi(b) = Withdraw(b)
<1> DEFINE metas == << Writable(b.stake, FALSE), Writable(b.recipient, FALSE),
                       Readonly(b.clock_sysvar, FALSE),
                       Readonly(b.stake_history, FALSE),
                       Readonly(b.withdraw_authority, TRUE) >>
           list == WithOptional(metas, b.lockup_authority)
<1>1. list \o << >> = list
  BY DEF WithOptional
<1> HIDE DEF list
<1>2. StakeInstruction[5] = "Withdraw"
  BY DEF StakeInstruction
<1>3. Withdraw(b) = Instruction("Withdraw", [lamports |-> b.args], list)
  BY <1>1, <1>2 DEF Withdraw, Discriminated, list
<1>4. WithdrawCpi(b) = Withdraw(b)
  BY DEF Withdraw, WithdrawCpi
<1> QED
  BY <1>3, <1>4 DEF list, withdraw

LEMMA WithdrawAgrees ==
  ASSUME NEW b, Usual(b)
  PROVE  Agree(b, WithdrawBuilder(b), WithdrawCpiBuilder(b),
               {"stake", "recipient", "withdraw_authority", "args"},
               {"clock_sysvar", "stake_history"},
               withdraw(b.stake, b.withdraw_authority, b.recipient, b.args,
                        Custodian(b)))
<1> DEFINE f == Filled(b,
         [clock_sysvar |-> CLOCK_ID, stake_history |-> STAKE_HISTORY_ID,
          lockup_authority |-> NoKey])
<1>1. ASSUME {"stake", "recipient", "withdraw_authority",
              "args"} \subseteq DOMAIN b
      PROVE  /\ f.args = b.args
             /\ f.stake = b.stake
             /\ f.recipient = b.recipient
             /\ f.clock_sysvar = CLOCK_ID
             /\ f.stake_history = STAKE_HISTORY_ID
             /\ f.withdraw_authority = b.withdraw_authority
             /\ f.lockup_authority = Setting(b, "lockup_authority", NoKey)
             /\ f.remaining = << >>
  BY <1>1 DEF Filled, Setting, Usual
<1> DEFINE g == Filled(b, [lockup_authority |-> NoKey])
<1>2. ASSUME {"stake", "recipient", "clock_sysvar", "stake_history",
              "withdraw_authority", "args"} \subseteq DOMAIN b
      PROVE  /\ g.args = b.args
             /\ g.stake = b.stake
             /\ g.recipient = b.recipient
             /\ g.clock_sysvar = CLOCK_ID
             /\ g.stake_history = STAKE_HISTORY_ID
             /\ g.withdraw_authority = b.withdraw_authority
             /\ g.lockup_authority = Setting(b, "lockup_authority", NoKey)
             /\ g.remaining = << >>
  BY <1>2 DEF Filled, Setting, Usual
<1> HIDE DEF f, g
<1>3. ASSUME {"stake", "recipient", "withdraw_authority",
              "args"} \subseteq DOMAIN b
      PROVE  Withdraw(f)
               = withdraw(b.stake, b.withdraw_authority, b.recipient, b.args,
                          Custodian(b))
  BY <1>3, <1>1, WithdrawList DEF Custodian
<1>4. ASSUME {"stake", "recipient", "clock_sysvar", "stake_history",
              "withdraw_authority", "args"} \subseteq DOMAIN b
      PROVE  WithdrawCpi(g)
               = withdraw(b.stake, b.withdraw_authority, b.recipient, b.args,
                          Custodian(b))
  BY <1>4, <1>2, WithdrawList DEF Custodian
<1>5. WithdrawBuilder(b) = Built(b, {"stake", "recipient", "withdraw_authority",
                "args"}, Withdraw(f))
  BY DEF WithdrawBuilder, f
<1>6. WithdrawCpiBuilder(b) = Built(b, {"stake", "recipient", "clock_sysvar",
                "stake_history", "withdraw_authority", "args"}, WithdrawCpi(g))
  BY DEF WithdrawCpiBuilder, g
<1> QED
  BY <1>3, <1>4, <1>5, <1>6 DEF Agree, Built

LEMMA MoveStakeList ==
  ASSUME NEW b, b.remaining = << >>
  PROVE  /\ MoveStake(b)
             = move_stake(b.source_stake, b.destination_stake,
                          b.stake_authority, b.args)
         /\ MoveStakeCpi(b) = MoveStake(b)
<1> DEFINE list == << Writable(b.source_stake, FALSE),
                      Writable(b.destination_stake, FALSE),
                      Readonly(b.stake_authority, TRUE) >>
<1>1. list \o << >> = list
  OBVIOUS
<1> HIDE DEF list
<1>2. StakeInstruction[17] = "MoveStake"
  BY DEF StakeInstruction
<1>3. MoveStake(b) = Instruction("MoveStake", [lamports |-> b.args], list)
  BY <1>1, <1>2 DEF MoveStake, Discriminated, list
<1>4. MoveStakeCpi(b) = MoveStake(b)
  BY DEF MoveStake, MoveStakeCpi
<1> QED
  BY <1>3, <1>4 DEF list, move_stake

LEMMA MoveStakeAgrees ==
  ASSUME NEW b, Usual(b)
  PROVE  Agree(b, MoveStakeBuilder(b), MoveStakeCpiBuilder(b),
               {"source_stake", "destination_stake", "stake_authority", "args"},
               {},
               move_stake(b.source_stake, b.destination_stake,
                          b.stake_authority, b.args))
<1> DEFINE f == Filled(b, << >>)
<1>1. ASSUME {"source_stake", "destination_stake", "stake_authority",
              "args"} \subseteq DOMAIN b
      PROVE  /\ f.args = b.args
             /\ f.source_stake = b.source_stake
             /\ f.destination_stake = b.destination_stake
             /\ f.stake_authority = b.stake_authority
             /\ f.remaining = << >>
  BY <1>1 DEF Filled, Setting, Usual
<1> DEFINE g == Filled(b, << >>)
<1>2. ASSUME {"source_stake", "destination_stake", "stake_authority",
              "args"} \subseteq DOMAIN b
      PROVE  /\ g.args = b.args
             /\ g.source_stake = b.source_stake
             /\ g.destination_stake = b.destination_stake
             /\ g.stake_authority = b.stake_authority
             /\ g.remaining = << >>
  BY <1>2 DEF Filled, Setting, Usual
<1> HIDE DEF f, g
<1>3. ASSUME {"source_stake", "destination_stake", "stake_authority",
              "args"} \subseteq DOMAIN b
      PROVE  MoveStake(f)
               = move_stake(b.source_stake, b.destination_stake,
                            b.stake_authority, b.args)
  BY <1>3, <1>1, MoveStakeList
<1>4. ASSUME {"source_stake", "destination_stake", "stake_authority",
              "args"} \subseteq DOMAIN b
      PROVE  MoveStakeCpi(g)
               = move_stake(b.source_stake, b.destination_stake,
                            b.stake_authority, b.args)
  BY <1>4, <1>2, MoveStakeList
<1>5. MoveStakeBuilder(b) = Built(b, {"source_stake", "destination_stake",
                "stake_authority", "args"}, MoveStake(f))
  BY DEF MoveStakeBuilder, f
<1>6. MoveStakeCpiBuilder(b) = Built(b, {"source_stake", "destination_stake",
                "stake_authority", "args"}, MoveStakeCpi(g))
  BY DEF MoveStakeCpiBuilder, g
<1> QED
  BY <1>3, <1>4, <1>5, <1>6 DEF Agree, Built

LEMMA MoveLamportsList ==
  ASSUME NEW b, b.remaining = << >>
  PROVE  /\ MoveLamports(b)
             = move_lamports(b.source_stake, b.destination_stake,
                             b.stake_authority, b.args)
         /\ MoveLamportsCpi(b) = MoveLamports(b)
<1> DEFINE list == << Writable(b.source_stake, FALSE),
                      Writable(b.destination_stake, FALSE),
                      Readonly(b.stake_authority, TRUE) >>
<1>1. list \o << >> = list
  OBVIOUS
<1> HIDE DEF list
<1>2. StakeInstruction[18] = "MoveLamports"
  BY DEF StakeInstruction
<1>3. MoveLamports(b) = Instruction("MoveLamports", [lamports |-> b.args], list)
  BY <1>1, <1>2 DEF MoveLamports, Discriminated, list
<1>4. MoveLamportsCpi(b) = MoveLamports(b)
  BY DEF MoveLamports, MoveLamportsCpi
<1> QED
  BY <1>3, <1>4 DEF list, move_lamports

LEMMA MoveLamportsAgrees ==
  ASSUME NEW b, Usual(b)
  PROVE  Agree(b, MoveLamportsBuilder(b), MoveLamportsCpiBuilder(b),
               {"source_stake", "destination_stake", "stake_authority", "args"},
               {},
               move_lamports(b.source_stake, b.destination_stake,
                             b.stake_authority, b.args))
<1> DEFINE f == Filled(b, << >>)
<1>1. ASSUME {"source_stake", "destination_stake", "stake_authority",
              "args"} \subseteq DOMAIN b
      PROVE  /\ f.args = b.args
             /\ f.source_stake = b.source_stake
             /\ f.destination_stake = b.destination_stake
             /\ f.stake_authority = b.stake_authority
             /\ f.remaining = << >>
  BY <1>1 DEF Filled, Setting, Usual
<1> DEFINE g == Filled(b, << >>)
<1>2. ASSUME {"source_stake", "destination_stake", "stake_authority",
              "args"} \subseteq DOMAIN b
      PROVE  /\ g.args = b.args
             /\ g.source_stake = b.source_stake
             /\ g.destination_stake = b.destination_stake
             /\ g.stake_authority = b.stake_authority
             /\ g.remaining = << >>
  BY <1>2 DEF Filled, Setting, Usual
<1> HIDE DEF f, g
<1>3. ASSUME {"source_stake", "destination_stake", "stake_authority",
              "args"} \subseteq DOMAIN b
      PROVE  MoveLamports(f)
               = move_lamports(b.source_stake, b.destination_stake,
                               b.stake_authority, b.args)
  BY <1>3, <1>1, MoveLamportsList
<1>4. ASSUME {"source_stake", "destination_stake", "stake_authority",
              "args"} \subseteq DOMAIN b
      PROVE  MoveLamportsCpi(g)
               = move_lamports(b.source_stake, b.destination_stake,
                               b.stake_authority, b.args)
  BY <1>4, <1>2, MoveLamportsList
<1>5. MoveLamportsBuilder(b) = Built(b, {"source_stake", "destination_stake",
                "stake_authority", "args"}, MoveLamports(f))
  BY DEF MoveLamportsBuilder, f
<1>6. MoveLamportsCpiBuilder(b) = Built(b, {"source_stake", "destination_stake",
                "stake_authority", "args"}, MoveLamportsCpi(g))
  BY DEF MoveLamportsCpiBuilder, g
<1> QED
  BY <1>3, <1>4, <1>5, <1>6 DEF Agree, Built

LEMMA GetMinimumDelegationList ==
  ASSUME NEW b, b.remaining = << >>
  PROVE  /\ GetMinimumDelegation(b) = get_minimum_delegation
         /\ GetMinimumDelegationCpi(b) = GetMinimumDelegation(b)
BY DEF GetMinimumDelegation, GetMinimumDelegationCpi, Discriminated,
       StakeInstruction, get_minimum_delegation

LEMMA GetMinimumDelegationAgrees ==
  ASSUME NEW b, Usual(b)
  PROVE  Agree(b, GetMinimumDelegationBuilder(b),
               GetMinimumDelegationCpiBuilder(b),
               {}, {},
               get_minimum_delegation)
<1> DEFINE f == Filled(b, << >>)
<1>1. f.remaining = << >>
  BY DEF Filled, Setting, Usual
<1> DEFINE g == Filled(b, << >>)
<1>2. g.remaining = << >>
  BY DEF Filled, Setting, Usual
<1> HIDE DEF f, g
<1> QED
  BY <1>1, <1>2, GetMinimumDelegationList
  DEF GetMinimumDelegationBuilder, GetMinimumDelegationCpiBuilder, Agree,
      Built, f, g

\* The same for _split, merge, withdraw, move_stake, move_lamports and
\* get_minimum_delegation.
THEOREM LamportsAgree ==
  \A b : Usual(b) =>
     /\ Agree(b, SplitBuilder(b), SplitCpiBuilder(b),
              {"stake", "split_stake", "stake_authority", "args"}, {},
              _split(b.stake, b.stake_authority, b.args, b.split_stake))
     /\ Agree(b, MergeBuilder(b), MergeCpiBuilder(b),
              {"destination_stake", "source_stake", "stake_authority"},
              {"clock_sysvar", "stake_history"},
              merge(b.destination_stake, b.source_stake, b.stake_authority)[1])
     /\ Agree(b, WithdrawBuilder(b), WithdrawCpiBuilder(b),
              {"stake", "recipient", "withdraw_authority", "args"},
              {"clock_sysvar", "stake_history"},
              withdraw(b.stake, b.withdraw_authority, b.recipient, b.args,
                       Custodian(b)))
     /\ Agree(b, MoveStakeBuilder(b), MoveStakeCpiBuilder(b),
              {"source_stake", "destination_stake", "stake_authority", "args"},
              {},
              move_stake(b.source_stake, b.destination_stake, b.stake_authority,
                         b.args))
     /\ Agree(b, MoveLamportsBuilder(b), MoveLamportsCpiBuilder(b),
              {"source_stake", "destination_stake", "stake_authority", "args"},
              {},
              move_lamports(b.source_stake, b.destination_stake,
                            b.stake_authority, b.args))
     /\ Agree(b, GetMinimumDelegationBuilder(b),
              GetMinimumDelegationCpiBuilder(b),
              {}, {},
              get_minimum_delegation)
BY SplitAgrees, MergeAgrees, WithdrawAgrees, MoveStakeAgrees,
   MoveLamportsAgrees, GetMinimumDelegationAgrees
=============================================================================
