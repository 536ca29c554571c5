------------------------ MODULE StakeActivationProofs ------------------------
(***************************************************************************)
(* Bounds of the warmup and cooldown loops, and of the status computed     *)
(* from them, for every delegation and every history.                      *)
(***************************************************************************)
EXTENDS StakeActivation, FiniteSetTheorems, WellFoundedInduction, TLAPS

\* A stake history with well-formed entries.
IsHistory(history) == \A e \in DOMAIN history : history[e] \in Entry

\* What the status depends on in a delegation.
IsDelegation(d) ==
    /\ d.stake \in Nat
    /\ d.activation_epoch \in Nat
    /\ d.deactivation_epoch \in Nat

-----------------------------------------------------------------------------
(* Induction on a set of numbers.                                          *)

Less == {ss \in Nat \X Nat : ss[1] < ss[2]}

\* The order of the numbers, as a set of pairs, is well-founded.
LEMMA LessWellFounded == IsWellFoundedOn(Less, Nat)
<1>1. Less = OpToRel(<, Nat)
  BY Zenon DEF OpToRel, Less
<1>. QED
  BY <1>1, NatLessThanWellFounded

\* A set with 0, and with the successor of each of its members below bound,
\* has every number up to bound.
LEMMA BoundedInduction ==
  ASSUME NEW bound \in Nat, NEW T, 0 \in T,
         \A n \in Nat : n \in T /\ n < bound => n + 1 \in T
  PROVE  \A n \in 0..bound : n \in T
<1>. DEFINE Missing == {n \in 0..bound : n \notin T}
<1>1. SUFFICES ASSUME Missing # {} PROVE FALSE
  OBVIOUS
<1>2. PICK x \in Missing : \A y \in Missing : ~ (<<y, x>> \in Less)
  <2>1. Missing \in SUBSET Nat
    OBVIOUS
  <2>. QED
    BY <1>1, <2>1, LessWellFounded, WFMin
<1>3. x \in Nat /\ x # 0 /\ x <= bound /\ x \notin T
  BY <1>2
<1>4. x - 1 \in Nat /\ x - 1 < bound /\ (x - 1) + 1 = x
  BY <1>3
<1>5. x - 1 \in T
  <2>1. SUFFICES ASSUME x - 1 \notin T PROVE FALSE
    OBVIOUS
  <2>2. x - 1 \in Missing /\ <<x - 1, x>> \in Less
    BY <1>3, <1>4, <2>1 DEF Less
  <2>. QED
    BY <1>2, <2>2
<1>. QED
  BY <1>3, <1>4, <1>5

-----------------------------------------------------------------------------
(* The allowance.                                                          *)

\* A product of positive numbers is positive, a product of numbers a number.
LEMMA ProductPositive ==
  ASSUME NEW a \in Nat, NEW b \in Nat
  PROVE  /\ a * b \in Nat
         /\ a # 0 /\ b # 0 => a * b # 0
OBVIOUS

\* Products saturate at a number, and only products of zero are zero.
LEMMA SatMulType ==
  ASSUME NEW a \in Nat, NEW b \in Nat
  PROVE  /\ SatMul(a, b) \in Nat
         /\ a # 0 /\ b # 0 => SatMul(a, b) # 0
<1>1. MaxU128 \in Nat /\ MaxU128 # 0
  <2>1. MaxU64 * BasisPoints \in Nat /\ MaxU64 * BasisPoints # 0
    BY ProductPositive, ActivationConstants
  <2>. QED
    BY <2>1, ActivationConstants
<1>. QED
  BY <1>1, ProductPositive DEF SatMul, Least

\* A quotient of numbers is a number.
LEMMA QuotientType ==
  ASSUME NEW a \in Nat, NEW b \in Nat, b # 0
  PROVE  a \div b \in Nat
OBVIOUS

(***************************************************************************)
(* No account is ever allowed more than its own stake, whatever the        *)
(* cluster's totals, and however the products saturate.                    *)
(***************************************************************************)
THEOREM AllowanceBounded ==
  ASSUME NEW portion \in Nat, NEW clusterPortion \in Nat,
         NEW clusterEffective \in Nat
  PROVE  StakeChangeAllowance(portion, clusterPortion, clusterEffective)
            \in 0..portion
<1>1. CASE 0 \in {portion, clusterPortion, clusterEffective}
  BY <1>1 DEF StakeChangeAllowance
<1>2. CASE 0 \notin {portion, clusterPortion, clusterEffective}
  <2>. DEFINE product == SatMul(SatMul(portion, clusterEffective), RateBps)
              divisor == SatMul(clusterPortion, BasisPoints)
  <2>1. product \in Nat /\ divisor \in Nat /\ divisor # 0
    <3>1. SatMul(portion, clusterEffective) \in Nat
      BY SatMulType
    <3>2. RateBps \in Nat /\ BasisPoints \in Nat /\ BasisPoints # 0
      BY ActivationConstants
    <3>3. product \in Nat
      BY <3>1, <3>2, SatMulType
    <3>4. divisor \in Nat /\ divisor # 0
      BY <1>2, <3>2, SatMulType
    <3>. QED
      BY <3>3, <3>4
  <2>2. product \div divisor \in Nat
    <3>. HIDE DEF product, divisor
    <3>. QED
      BY <2>1, QuotientType
  <2>3. StakeChangeAllowance(portion, clusterPortion, clusterEffective)
          = Least(product \div divisor, portion)
    BY <1>2 DEF StakeChangeAllowance
  <2>. HIDE DEF product, divisor
  <2>. QED
    BY <2>2, <2>3 DEF Least
<1>. QED
  BY <1>1, <1>2

-----------------------------------------------------------------------------
(* The epochs a loop visits.                                               *)

\* A loop that does k iterations visits the k epochs from the first on.
LEMMA LoopEpochsPrefix ==
  ASSUME NEW field, NEW history, NEW first \in Nat, NEW last \in Int,
         NEW now \in Nat,
         NEW n \in Nat, n # 0,
         n <= Cardinality(LoopEpochs(field, first, last, history, now))
  PROVE  first + n - 1 \in LoopEpochs(field, first, last, history, now)
<1>. DEFINE Visited == LoopEpochs(field, first, last, history, now)
<1>1. SUFFICES ASSUME first + n - 1 \notin Visited PROVE FALSE
  OBVIOUS
<1>2. first + n - 2 \in Int /\ IsFiniteSet(first..(first + n - 2))
      /\ Cardinality(first..(first + n - 2)) = n - 1
  <2>1. \A last2 \in Int :
            /\ IsFiniteSet(first..last2)
            /\ Cardinality(first..last2)
                  = IF first > last2 THEN 0 ELSE last2 - first + 1
    BY FS_Interval
  <2>. QED
    BY <2>1
<1>3. Visited \subseteq first..(first + n - 2)
  <2>1. SUFFICES ASSUME NEW e \in Visited, e > first + n - 2 PROVE FALSE
    BY DEF LoopEpochs
  <2>2. first + n - 1 \in first..last /\ first + n - 1 <= e
    BY <2>1 DEF LoopEpochs
  <2>3. first..(first + n - 1) \subseteq first..e
    BY <2>1, <2>2 DEF LoopEpochs
  <2>4. first + n - 1 \in Visited
    BY <2>1, <2>2, <2>3 DEF LoopEpochs
  <2>. QED
    BY <1>1, <2>4
<1>4. Cardinality(Visited) <= n - 1
  BY <1>2, <1>3, FS_Subset
<1>5. Cardinality(Visited) \in Nat
  BY <1>2, <1>3, FS_Subset, FS_CardinalityType
<1>. QED
  BY <1>4, <1>5

\* The number of iterations is a number, and each visits an entry.
LEMMA LoopVisitsEntries ==
  ASSUME NEW field, NEW history, IsHistory(history), NEW first \in Nat,
         NEW last \in Int, NEW now \in Nat
  PROVE  LET count == Cardinality(LoopEpochs(field, first, last, history, now))
         IN  /\ count \in Nat
             /\ \A n \in 1..count : history[first + n - 1] \in Entry
<1>. DEFINE Visited == LoopEpochs(field, first, last, history, now)
<1>1. Cardinality(Visited) \in Nat
  <2>1. Visited \in SUBSET (first..last)
    BY DEF LoopEpochs
  <2>2. IsFiniteSet(first..last)
    BY FS_Interval
  <2>. QED
    BY <2>1, <2>2, FS_Subset, FS_CardinalityType
<1>2. ASSUME NEW n \in 1..Cardinality(Visited)
      PROVE  history[first + n - 1] \in Entry
  <2>1. first + n - 1 \in Visited
    BY <1>1, LoopEpochsPrefix
  <2>2. first + n - 1 \in DOMAIN history
    BY <2>1 DEF LoopEpochs, HasEntry
  <2>. QED
    BY <2>2 DEF IsHistory
<1>. QED
  BY <1>1, <1>2

-----------------------------------------------------------------------------
(* Warmup.                                                                 *)

\* One iteration adds at least a lamport, up to the whole delegation.
LEMMA WarmupStepBounded ==
  ASSUME NEW d, IsDelegation(d), NEW history, NEW n \in Nat,
         history[d.activation_epoch + n - 1] \in Entry,
         NEW before \in 0..d.stake
  PROVE  /\ WarmupStep(d, history, n)[before] \in before..d.stake
         /\ WarmupStep(d, history, n)[before] >= Least(before + 1, d.stake)
<1>. DEFINE entry == history[d.activation_epoch + n - 1]
            share == ActivationAllowance(d.stake - before, entry)
<1>1. d.stake \in Nat /\ before \in Nat /\ d.stake - before \in Nat
  BY DEF IsDelegation
<1>2. entry.activating \in Nat /\ entry.effective \in Nat
  BY DEF Entry
<1>3. share \in 0..(d.stake - before)
  <2>. HIDE DEF entry
  <2>. QED
    BY <1>1, <1>2, AllowanceBounded DEF ActivationAllowance
<1>4. WarmupStep(d, history, n)[before]
        = Least(before + Greatest(share, 1), d.stake)
  BY <1>1 DEF WarmupStep
<1>. HIDE DEF share
<1>. QED
  BY <1>1, <1>3, <1>4 DEF Least, Greatest

\* The recursive function of the loop, unfolded.
LEMMA WarmupUnfolded ==
  ASSUME NEW d, NEW history
  PROVE  Warmup(d, history) =
           [n \in Nat |->
              IF n = 0 THEN 0
              ELSE WarmupStep(d, history, n)[Warmup(d, history)[n - 1]]]
BY DEF Warmup

\* Each iteration of the warmup loop applies one WarmupStep.
LEMMA WarmupNext ==
  ASSUME NEW d, NEW history, NEW n \in Nat
  PROVE  /\ Warmup(d, history)[0] = 0
         /\ Warmup(d, history)[n + 1]
               = WarmupStep(d, history, n + 1)[Warmup(d, history)[n]]
<1>1. n + 1 \in Nat /\ n + 1 # 0 /\ (n + 1) - 1 = n
  OBVIOUS
<1>. QED
  BY <1>1, WarmupUnfolded

(***************************************************************************)
(* After n epochs of warmup at least n lamports are effective, or the      *)
(* whole delegation, and never more than the delegation: no account waits  *)
(* for ever, however small its share of the cluster's allowance.           *)
(***************************************************************************)
THEOREM WarmupBounded ==
  ASSUME NEW d, IsDelegation(d), NEW history, NEW count \in Nat,
         \A n \in 1..count : history[d.activation_epoch + n - 1] \in Entry
  PROVE  \A n \in 0..count :
            /\ Warmup(d, history)[n] \in 0..d.stake
            /\ Warmup(d, history)[n] >= Least(n, d.stake)
<1>. DEFINE W(n) == Warmup(d, history)[n]
            T == {n \in Nat : W(n) \in 0..d.stake /\ W(n) >= Least(n, d.stake)}
<1>1. d.stake \in Nat
  BY DEF IsDelegation
<1>2. 0 \in T
  BY <1>1, WarmupNext DEF Least
<1>3. ASSUME NEW n \in Nat, n \in T, n < count
      PROVE  n + 1 \in T
  <2>1. n + 1 \in 1..count /\ n + 1 \in Nat
    BY <1>3
  <2>2. history[d.activation_epoch + (n + 1) - 1] \in Entry
    BY <2>1
  <2>3. W(n) \in 0..d.stake /\ W(n) >= Least(n, d.stake)
    BY <1>3
  <2>4. W(n + 1) = WarmupStep(d, history, n + 1)[W(n)]
    BY WarmupNext
  <2>5. /\ W(n + 1) \in W(n)..d.stake
        /\ W(n + 1) >= Least(W(n) + 1, d.stake)
    <3>. HIDE DEF W
    <3>. QED
      BY <2>1, <2>2, <2>3, <2>4, WarmupStepBounded
  <2>. HIDE DEF W
  <2>. QED
    BY <1>1, <2>1, <2>3, <2>5 DEF Least
<1>4. \A n \in 0..count : n \in T
  <2>. HIDE DEF T
  <2>. QED
    BY <1>2, <1>3, BoundedInduction
<1>. QED
  BY <1>4

-----------------------------------------------------------------------------
(* Cooldown.                                                               *)

\* One iteration takes at least a lamport, while there is any.
LEMMA CooldownStepBounded ==
  ASSUME NEW d, NEW history, NEW n \in Nat,
         history[d.deactivation_epoch + n - 1] \in Entry,
         NEW before \in Nat
  PROVE  CooldownStep(d, history, n)[before] \in 0..SatSub(before, 1)
<1>. DEFINE entry == history[d.deactivation_epoch + n - 1]
            share == DeactivationAllowance(before, entry)
<1>1. entry.deactivating \in Nat /\ entry.effective \in Nat
  BY DEF Entry
<1>2. share \in 0..before
  <2>. HIDE DEF entry
  <2>. QED
    BY <1>1, AllowanceBounded DEF DeactivationAllowance
<1>3. CooldownStep(d, history, n)[before] = SatSub(before, Greatest(share, 1))
  BY DEF CooldownStep
<1>. HIDE DEF share
<1>. QED
  BY <1>2, <1>3 DEF SatSub, Greatest

\* The recursive function of the loop, unfolded.
LEMMA CooldownUnfolded ==
  ASSUME NEW d, NEW history, NEW start
  PROVE  Cooldown(d, history, start) =
           [n \in Nat |->
              IF n = 0 THEN start
              ELSE CooldownStep(d, history, n)[Cooldown(d, history, start)[n - 1]]]
BY DEF Cooldown

\* Each iteration of the cooldown loop applies one CooldownStep.
LEMMA CooldownNext ==
  ASSUME NEW d, NEW history, NEW start, NEW n \in Nat
  PROVE  /\ Cooldown(d, history, start)[0] = start
         /\ Cooldown(d, history, start)[n + 1]
               = CooldownStep(d, history, n + 1)[Cooldown(d, history, start)[n]]
<1>1. n + 1 \in Nat /\ n + 1 # 0 /\ (n + 1) - 1 = n
  OBVIOUS
<1>. QED
  BY <1>1, CooldownUnfolded

(***************************************************************************)
(* After n epochs of cooldown at least n lamports less are effective than  *)
(* at the start, or none: a deactivated account can always be withdrawn    *)
(* from in the end.                                                        *)
(***************************************************************************)
THEOREM CooldownBounded ==
  ASSUME NEW d, NEW history, NEW start \in Nat, NEW count \in Nat,
         \A n \in 1..count : history[d.deactivation_epoch + n - 1] \in Entry
  PROVE  \A n \in 0..count : Cooldown(d, history, start)[n] \in 0..SatSub(start, n)
<1>. DEFINE C(n) == Cooldown(d, history, start)[n]
            T == {n \in Nat : C(n) \in 0..SatSub(start, n)}
<1>1. 0 \in T
  BY CooldownNext DEF SatSub
<1>2. ASSUME NEW n \in Nat, n \in T, n < count
      PROVE  n + 1 \in T
  <2>1. n + 1 \in 1..count /\ n + 1 \in Nat
    BY <1>2
  <2>2. history[d.deactivation_epoch + (n + 1) - 1] \in Entry
    BY <2>1
  <2>3. C(n) \in 0..SatSub(start, n) /\ C(n) \in Nat
    BY <1>2 DEF SatSub
  <2>4. C(n + 1) = CooldownStep(d, history, n + 1)[C(n)]
    BY CooldownNext
  <2>5. C(n + 1) \in 0..SatSub(C(n), 1)
    <3>. HIDE DEF C
    <3>. QED
      BY <2>1, <2>2, <2>3, <2>4, CooldownStepBounded
  <2>. HIDE DEF C
  <2>. QED
    BY <2>1, <2>3, <2>5 DEF SatSub
<1>3. \A n \in 0..count : n \in T
  <2>. HIDE DEF T
  <2>. QED
    BY <1>1, <1>2, BoundedInduction
<1>. QED
  BY <1>3

-----------------------------------------------------------------------------
(* The status.                                                             *)

\* Before any deactivation is applied, all of the delegation is effective or
\* activating, or none of it when it cannot have started to warm up.
LEMMA StakeAndActivatingBounded ==
  ASSUME NEW d, IsDelegation(d), NEW history, IsHistory(history),
         NEW now \in Nat
  PROVE  LET s == StakeAndActivating(d, history, now)
         IN  /\ s.effective \in 0..d.stake
             /\ s.activating \in 0..d.stake
             /\ \/ s.effective + s.activating = d.stake
                \/ /\ s.effective = 0 /\ s.activating = 0
                   /\ d.activation_epoch # Never
                   /\ \/ d.activation_epoch = d.deactivation_epoch
                      \/ now < d.activation_epoch
<1>. DEFINE count == WarmupIterations(d, history, now)
            last == Least(now, Greatest(d.deactivation_epoch,
                                        d.activation_epoch + 1)) - 1
            amount == Warmup(d, history)[count]
            s == StakeAndActivating(d, history, now)
<1>1. d.stake \in Nat /\ d.activation_epoch \in Nat
      /\ d.deactivation_epoch \in Nat
  BY DEF IsDelegation
<1>2. amount \in 0..d.stake
  <2>1. last \in Int
    BY <1>1 DEF Least, Greatest
  <2>2. /\ count \in Nat
        /\ \A n \in 1..count : history[d.activation_epoch + n - 1] \in Entry
    <3>1. count = Cardinality(LoopEpochs("activating", d.activation_epoch,
                                         last, history, now))
      BY DEF WarmupIterations
    <3>. HIDE DEF count, last
    <3>. QED
      BY <1>1, <2>1, <3>1, LoopVisitsEntries
  <2>. HIDE DEF count, last, s
  <2>3. \A n \in 0..count : Warmup(d, history)[n] \in 0..d.stake
    BY <2>2, WarmupBounded
  <2>. QED
    BY <2>2, <2>3
<1>3. CASE d.activation_epoch = Never
  BY <1>1, <1>3 DEF StakeAndActivating
<1>4. CASE /\ d.activation_epoch # Never
           /\ \/ d.activation_epoch = d.deactivation_epoch
              \/ now < d.activation_epoch
  BY <1>1, <1>4 DEF StakeAndActivating
<1>5. CASE ~ \/ d.activation_epoch = Never
             \/ d.activation_epoch = d.deactivation_epoch
             \/ now < d.activation_epoch
  <2>1. s = IF now > d.activation_epoch
                /\ ~HasEntry(history, now, d.activation_epoch)
            THEN [effective |-> d.stake, activating |-> d.stake - d.stake]
            ELSE [effective |-> amount, activating |-> d.stake - amount]
    BY <1>5 DEF StakeAndActivating
  <2>. HIDE DEF amount, s
  <2>2. /\ s.effective \in 0..d.stake
        /\ s.activating \in 0..d.stake
        /\ s.effective + s.activating = d.stake
    BY <1>1, <1>2, <2>1
  <2>. QED
    BY <2>2 DEF s
<1>. QED
  BY <1>3, <1>4, <1>5

(***************************************************************************)
(* The status of a delegation never counts more than is delegated.  Until  *)
(* it is deactivated nothing is deactivating and the effective and the     *)
(* activating part make up the delegation; afterwards nothing is           *)
(* activating and what is effective is deactivating.                       *)
(***************************************************************************)
THEOREM StatusBounded ==
  ASSUME NEW d, IsDelegation(d), NEW history, IsHistory(history),
         NEW now \in Nat
  PROVE  LET s == StakeActivatingAndDeactivating(d, history, now)
         IN  /\ s.effective \in 0..d.stake
             /\ s.activating \in 0..d.stake
             /\ s.deactivating \in 0..d.stake
             /\ now >= d.deactivation_epoch =>
                   s.activating = 0 /\ s.deactivating = s.effective
             /\ /\ now < d.deactivation_epoch
                /\ d.activation_epoch <= now
                => s.deactivating = 0 /\ s.effective + s.activating = d.stake
<1>. DEFINE b == StakeAndActivating(d, history, now)
            s == StakeActivatingAndDeactivating(d, history, now)
            count == CooldownIterations(d, history, now)
            cooled == Cooldown(d, history, b.effective)[count]
            left == IF now = d.deactivation_epoch THEN b.effective
                    ELSE IF HasEntry(history, now, d.deactivation_epoch)
                         THEN cooled ELSE 0
<1>1. d.stake \in Nat /\ d.activation_epoch \in Nat
      /\ d.deactivation_epoch \in Nat
  BY DEF IsDelegation
<1>2. /\ b.effective \in 0..d.stake
      /\ b.activating \in 0..d.stake
      /\ /\ now < d.deactivation_epoch
         /\ d.activation_epoch <= now
         => b.effective + b.activating = d.stake
  BY <1>1, StakeAndActivatingBounded
<1>3. cooled \in 0..d.stake
  <2>1. now - 1 \in Int /\ b.effective \in Nat
    BY <1>1, <1>2
  <2>2. /\ count \in Nat
        /\ \A n \in 1..count : history[d.deactivation_epoch + n - 1] \in Entry
    <3>1. count = Cardinality(LoopEpochs("deactivating", d.deactivation_epoch,
                                         now - 1, history, now))
      BY DEF CooldownIterations
    <3>. HIDE DEF count
    <3>. QED
      BY <1>1, <2>1, <3>1, LoopVisitsEntries
  <2>3. cooled \in 0..SatSub(b.effective, count)
    <3>. HIDE DEF count, b
    <3>1. \A n \in 0..count : Cooldown(d, history, b.effective)[n]
                                \in 0..SatSub(b.effective, n)
      BY <2>1, <2>2, CooldownBounded
    <3>2. count \in 0..count
      BY <2>2
    <3>. QED
      BY <3>1, <3>2
  <2>. HIDE DEF cooled, count, b
  <2>. QED
    BY <1>1, <1>2, <2>1, <2>2, <2>3 DEF SatSub
<1>4. s = IF now < d.deactivation_epoch
          THEN [effective |-> b.effective, activating |-> b.activating,
                deactivating |-> 0]
          ELSE [effective |-> left, activating |-> 0, deactivating |-> left]
  BY DEF StakeActivatingAndDeactivating
<1>5. left \in 0..d.stake
  <2>. HIDE DEF cooled, b
  <2>. QED
    BY <1>1, <1>2, <1>3
<1>. HIDE DEF b, left, s
<1>6. /\ s.effective \in 0..d.stake
      /\ s.activating \in 0..d.stake
      /\ s.deactivating \in 0..d.stake
      /\ now >= d.deactivation_epoch =>
            s.activating = 0 /\ s.deactivating = s.effective
      /\ /\ now < d.deactivation_epoch
         /\ d.activation_epoch <= now
         => s.deactivating = 0 /\ s.effective + s.activating = d.stake
  BY <1>1, <1>2, <1>4, <1>5
<1>. QED
  BY <1>6 DEF s

-----------------------------------------------------------------------------
(* From one epoch to the next.                                             *)

\* What the history g of epoch now + 1 has in common with h, that of epoch now.
Extends(g, h, now) ==
    /\ DOMAIN h = 0..(now - 1) /\ DOMAIN g = 0..now
    /\ \A e \in 0..(now - 1) : g[e] = h[e]

\* The number of iterations, and what has been visited after some of them.
LEMMA LoopCount ==
  ASSUME NEW field, NEW history, NEW first \in Nat, NEW last \in Int,
         NEW now \in Nat
  PROVE  LET visited == LoopEpochs(field, first, last, history, now)
         IN  /\ IsFiniteSet(visited)
             /\ Cardinality(visited) \in Nat
             /\ \A n \in 1..Cardinality(visited) :
                   /\ first + n - 1 \in first..last
                   /\ HasEntry(history, now, first + n - 1)
<1>. DEFINE visited == LoopEpochs(field, first, last, history, now)
<1>1. IsFiniteSet(visited) /\ Cardinality(visited) \in Nat
  <2>1. visited \in SUBSET (first..last)
    BY DEF LoopEpochs
  <2>2. IsFiniteSet(first..last)
    BY FS_Interval
  <2>. QED
    BY <2>1, <2>2, FS_Subset, FS_CardinalityType
<1>2. ASSUME NEW n \in 1..Cardinality(visited)
      PROVE  /\ first + n - 1 \in first..last
             /\ HasEntry(history, now, first + n - 1)
  <2>1. first + n - 1 \in visited
    BY <1>1, LoopEpochsPrefix
  <2>2. first + n - 1 \in first..last /\ first + n - 1 \in first..(first + n - 1)
    BY <1>1, <2>1 DEF LoopEpochs
  <2>. QED
    BY <2>1, <2>2 DEF LoopEpochs
<1>. QED
  BY <1>1, <1>2

\* As long as the first epoch is not forgotten, a loop of the next epoch that
\* goes as far does every iteration of this epoch's.
LEMMA LoopContinues ==
  ASSUME NEW now \in Nat, NEW h, NEW g, Extends(g, h, now), NEW field,
         NEW first \in Nat, first >= now + 1 - MaxEntries,
         NEW last \in Int, NEW later \in Int, last <= later
  PROVE  Cardinality(LoopEpochs(field, first, last, h, now))
            <= Cardinality(LoopEpochs(field, first, later, g, now + 1))
<1>. DEFINE before == LoopEpochs(field, first, last, h, now)
            after == LoopEpochs(field, first, later, g, now + 1)
<1>1. before \subseteq after
  <2>1. SUFFICES ASSUME NEW e \in before PROVE e \in after
    OBVIOUS
  <2>2. e \in first..later
    BY DEF LoopEpochs
  <2>3. ASSUME NEW past \in first..e
        PROVE  HasEntry(g, now + 1, past) /\ g[past][field] # 0
    <3>1. HasEntry(h, now, past) /\ h[past][field] # 0
      BY <2>3 DEF LoopEpochs
    <3>. QED
      BY <2>3, <3>1, ActivationConstants DEF HasEntry, Extends
  <2>. QED
    BY <2>2, <2>3 DEF LoopEpochs
<1>2. IsFiniteSet(after)
  BY LoopCount
<1>. QED
  BY <1>1, <1>2, FS_Subset

\* A loop over past epochs does the same iterations in the next epoch.
LEMMA LoopRepeats ==
  ASSUME NEW now \in Nat, NEW h, NEW g, Extends(g, h, now), NEW field,
         NEW first \in Nat, first >= now + 1 - MaxEntries,
         NEW last \in Int, last < now
  PROVE  LoopEpochs(field, first, last, g, now + 1)
            = LoopEpochs(field, first, last, h, now)
<1>1. ASSUME NEW past \in first..last
      PROVE  /\ HasEntry(g, now + 1, past) <=> HasEntry(h, now, past)
             /\ g[past] = h[past]
  BY ActivationConstants DEF HasEntry, Extends
<1>2. \A e \in first..last : \A past \in first..e : past \in first..last
  OBVIOUS
<1>. QED
  BY <1>1, <1>2 DEF LoopEpochs

\* The warmup only depends on the entries its iterations visit.
LEMMA WarmupAgrees ==
  ASSUME NEW d, NEW h, NEW g, NEW count \in Nat,
         \A n \in 1..count : g[d.activation_epoch + n - 1]
                                = h[d.activation_epoch + n - 1]
  PROVE  \A n \in 0..count : Warmup(d, g)[n] = Warmup(d, h)[n]
<1>. DEFINE T == {n \in Nat : Warmup(d, g)[n] = Warmup(d, h)[n]}
<1>1. 0 \in T
  BY WarmupNext
<1>2. ASSUME NEW n \in Nat, n \in T, n < count
      PROVE  n + 1 \in T
  <2>1. n + 1 \in 1..count
    BY <1>2
  <2>2. WarmupStep(d, g, n + 1) = WarmupStep(d, h, n + 1)
    BY <2>1 DEF WarmupStep
  <2>. QED
    BY <1>2, <2>2, WarmupNext
<1>3. \A n \in 0..count : n \in T
  <2>. HIDE DEF T
  <2>. QED
    BY <1>1, <1>2, BoundedInduction
<1>. QED
  BY <1>3

\* More iterations never warm up less.
LEMMA WarmupGrows ==
  ASSUME NEW d, IsDelegation(d), NEW history, NEW count \in Nat,
         \A n \in 1..count : history[d.activation_epoch + n - 1] \in Entry,
         NEW m \in 0..count
  PROVE  Warmup(d, history)[m] <= Warmup(d, history)[count]
<1>. DEFINE W(n) == Warmup(d, history)[n]
            T == {n \in Nat : m <= n => W(m) <= W(n)}
<1>1. d.stake \in Nat /\ \A n \in 0..count : W(n) \in 0..d.stake
  BY WarmupBounded DEF IsDelegation
<1>2. 0 \in T
  BY <1>1
<1>3. ASSUME NEW n \in Nat, n \in T, n < count
      PROVE  n + 1 \in T
  <2>1. n + 1 \in 1..count /\ n \in 0..count /\ n + 1 \in 0..count
    BY <1>3
  <2>2. W(n) \in 0..d.stake /\ W(n + 1) \in 0..d.stake /\ W(m) \in 0..d.stake
    BY <1>1, <2>1
  <2>3. W(n + 1) = WarmupStep(d, history, n + 1)[W(n)]
    BY WarmupNext
  <2>4. W(n + 1) >= W(n)
    <3>1. history[d.activation_epoch + (n + 1) - 1] \in Entry
      BY <2>1
    <3>. HIDE DEF W
    <3>2. WarmupStep(d, history, n + 1)[W(n)] \in W(n)..d.stake
      BY <2>1, <2>2, <3>1, WarmupStepBounded
    <3>. QED
      BY <1>1, <2>2, <2>3, <3>2
  <2>5. m <= n => W(m) <= W(n)
    BY <1>3
  <2>. HIDE DEF W
  <2>6. m <= n + 1 => W(m) <= W(n + 1)
    BY <1>1, <2>2, <2>4, <2>5
  <2>. QED
    BY <2>6 DEF W
<1>4. \A n \in 0..count : n \in T
  <2>. HIDE DEF T
  <2>. QED
    BY <1>2, <1>3, BoundedInduction
<1>. QED
  BY <1>4

\* The cooldown only depends on the entries its iterations visit.
LEMMA CooldownAgrees ==
  ASSUME NEW d, NEW h, NEW g, NEW start, NEW count \in Nat,
         \A n \in 1..count : g[d.deactivation_epoch + n - 1]
                                = h[d.deactivation_epoch + n - 1]
  PROVE  \A n \in 0..count : Cooldown(d, g, start)[n] = Cooldown(d, h, start)[n]
<1>. DEFINE T == {n \in Nat : Cooldown(d, g, start)[n] = Cooldown(d, h, start)[n]}
<1>1. 0 \in T
  BY CooldownNext
<1>2. ASSUME NEW n \in Nat, n \in T, n < count
      PROVE  n + 1 \in T
  <2>1. n + 1 \in 1..count
    BY <1>2
  <2>2. CooldownStep(d, g, n + 1) = CooldownStep(d, h, n + 1)
    BY <2>1 DEF CooldownStep
  <2>. QED
    BY <1>2, <2>2, CooldownNext
<1>3. \A n \in 0..count : n \in T
  <2>. HIDE DEF T
  <2>. QED
    BY <1>1, <1>2, BoundedInduction
<1>. QED
  BY <1>3

\* More iterations never leave more.
LEMMA CooldownShrinks ==
  ASSUME NEW d, NEW history, NEW start \in Nat, NEW count \in Nat,
         \A n \in 1..count : history[d.deactivation_epoch + n - 1] \in Entry,
         NEW m \in 0..count
  PROVE  Cooldown(d, history, start)[count] <= Cooldown(d, history, start)[m]
<1>. DEFINE C(n) == Cooldown(d, history, start)[n]
            T == {n \in Nat : m <= n => C(n) <= C(m)}
<1>1. \A n \in 0..count : C(n) \in Nat
  BY CooldownBounded DEF SatSub
<1>2. 0 \in T
  BY <1>1
<1>3. ASSUME NEW n \in Nat, n \in T, n < count
      PROVE  n + 1 \in T
  <2>1. n + 1 \in 1..count /\ n \in 0..count /\ n + 1 \in 0..count
    BY <1>3
  <2>2. C(n) \in Nat /\ C(n + 1) \in Nat /\ C(m) \in Nat
    BY <1>1, <2>1
  <2>3. C(n + 1) = CooldownStep(d, history, n + 1)[C(n)]
    BY CooldownNext
  <2>4. C(n + 1) <= C(n)
    <3>1. history[d.deactivation_epoch + (n + 1) - 1] \in Entry
      BY <2>1
    <3>. HIDE DEF C
    <3>2. CooldownStep(d, history, n + 1)[C(n)] \in 0..SatSub(C(n), 1)
      BY <2>1, <2>2, <3>1, CooldownStepBounded
    <3>. QED
      BY <2>2, <2>3, <3>2 DEF SatSub
  <2>5. m <= n => C(n) <= C(m)
    BY <1>3
  <2>. HIDE DEF C
  <2>6. m <= n + 1 => C(n + 1) <= C(m)
    BY <2>2, <2>4, <2>5
  <2>. QED
    BY <2>6 DEF C
<1>4. \A n \in 0..count : n \in T
  <2>. HIDE DEF T
  <2>. QED
    BY <1>2, <1>3, BoundedInduction
<1>. QED
  BY <1>4

\* The status of a delegation in an epoch between its activation and Never,
\* with the recursion and the cases that cannot occur taken out.
LEMMA StartUnfolded ==
  ASSUME NEW d, IsDelegation(d), NEW history, NEW now \in Nat,
         d.activation_epoch <= now, now < Never
  PROVE  LET start == StakeAndActivating(d, history, now).effective
         IN  /\ d.activation_epoch = d.deactivation_epoch => start = 0
             /\ d.activation_epoch # d.deactivation_epoch =>
                   start = IF /\ now > d.activation_epoch
                              /\ ~HasEntry(history, now, d.activation_epoch)
                           THEN d.stake
                           ELSE Warmup(d, history)[WarmupIterations(d, history, now)]
<1>1. d.activation_epoch \in Nat /\ d.activation_epoch # Never
      /\ ~(now < d.activation_epoch)
  BY ActivationConstants DEF IsDelegation, Never
<1>2. CASE d.activation_epoch = d.deactivation_epoch
  BY <1>1, <1>2 DEF StakeAndActivating
<1>3. CASE d.activation_epoch # d.deactivation_epoch
  <2>. DEFINE amount == Warmup(d, history)[WarmupIterations(d, history, now)]
              forgotten == now > d.activation_epoch
                             /\ ~HasEntry(history, now, d.activation_epoch)
  <2>1. StakeAndActivating(d, history, now)
          = IF forgotten
            THEN [effective |-> d.stake, activating |-> d.stake - d.stake]
            ELSE [effective |-> amount, activating |-> d.stake - amount]
    BY <1>1, <1>3 DEF StakeAndActivating
  <2>. HIDE DEF amount, forgotten
  <2>2. StakeAndActivating(d, history, now).effective
          = IF forgotten THEN d.stake ELSE amount
    BY <2>1
  <2>. QED
    BY <1>3, <2>2 DEF amount, forgotten
<1>. QED
  BY <1>2, <1>3

\* What is left of the stake that was effective at the deactivation.
LEMMA EffectiveUnfolded ==
  ASSUME NEW d, NEW history, NEW now \in Nat, d.deactivation_epoch \in Nat
  PROVE  LET start     == StakeAndActivating(d, history, now).effective
             effective == StakeActivatingAndDeactivating(d, history, now).effective
         IN  /\ now <= d.deactivation_epoch => effective = start
             /\ now > d.deactivation_epoch =>
                   effective =
                     IF HasEntry(history, now, d.deactivation_epoch)
                     THEN Cooldown(d, history, start)
                            [CooldownIterations(d, history, now)]
                     ELSE 0
<1>1. CASE now < d.deactivation_epoch
  BY <1>1 DEF StakeActivatingAndDeactivating
<1>2. CASE now = d.deactivation_epoch
  BY <1>2 DEF StakeActivatingAndDeactivating
<1>3. CASE now > d.deactivation_epoch
  BY <1>3 DEF StakeActivatingAndDeactivating
<1>. QED
  BY <1>1, <1>2, <1>3

\* The iterations of the warmup loop visit entries of epochs before now.
LEMMA WarmupVisits ==
  ASSUME NEW d, IsDelegation(d), NEW history, IsHistory(history),
         NEW now \in Nat
  PROVE  LET count == WarmupIterations(d, history, now)
         IN  /\ count \in Nat
             /\ \A n \in 1..count :
                   /\ d.activation_epoch + n - 1 \in 0..(now - 1)
                   /\ history[d.activation_epoch + n - 1] \in Entry
<1>. DEFINE last == Least(now, Greatest(d.deactivation_epoch,
                                        d.activation_epoch + 1)) - 1
            visited == LoopEpochs("activating", d.activation_epoch, last,
                                  history, now)
<1>1. d.activation_epoch \in Nat /\ last \in Int /\ last <= now - 1
  BY DEF IsDelegation, Least, Greatest
<1>2. WarmupIterations(d, history, now) = Cardinality(visited)
  BY DEF WarmupIterations
<1>. HIDE DEF last
<1>3. /\ Cardinality(visited) \in Nat
      /\ \A n \in 1..Cardinality(visited) :
            /\ d.activation_epoch + n - 1 \in d.activation_epoch..last
            /\ HasEntry(history, now, d.activation_epoch + n - 1)
  BY <1>1, LoopCount
<1>4. \A n \in 1..Cardinality(visited) :
         /\ d.activation_epoch + n - 1 \in 0..(now - 1)
         /\ history[d.activation_epoch + n - 1] \in Entry
  BY <1>1, <1>3 DEF HasEntry, IsHistory
<1>. QED
  BY <1>2, <1>3, <1>4

\* So do those of the cooldown loop.
LEMMA CooldownVisits ==
  ASSUME NEW d, IsDelegation(d), NEW history, IsHistory(history),
         NEW now \in Nat
  PROVE  LET count == CooldownIterations(d, history, now)
         IN  /\ count \in Nat
             /\ \A n \in 1..count :
                   /\ d.deactivation_epoch + n - 1 \in 0..(now - 1)
                   /\ history[d.deactivation_epoch + n - 1] \in Entry
<1>. DEFINE visited == LoopEpochs("deactivating", d.deactivation_epoch, now - 1,
                                  history, now)
<1>1. d.deactivation_epoch \in Nat /\ now - 1 \in Int
  BY DEF IsDelegation
<1>2. CooldownIterations(d, history, now) = Cardinality(visited)
  BY DEF CooldownIterations
<1>3. /\ Cardinality(visited) \in Nat
      /\ \A n \in 1..Cardinality(visited) :
            /\ d.deactivation_epoch + n - 1 \in d.deactivation_epoch..(now - 1)
            /\ HasEntry(history, now, d.deactivation_epoch + n - 1)
  BY <1>1, LoopCount
<1>4. \A n \in 1..Cardinality(visited) :
         /\ d.deactivation_epoch + n - 1 \in 0..(now - 1)
         /\ history[d.deactivation_epoch + n - 1] \in Entry
  BY <1>1, <1>3 DEF HasEntry, IsHistory
<1>. QED
  BY <1>2, <1>3, <1>4

\* Stake that is not deactivated warms up further in the next epoch.
LEMMA WarmupAdvances ==
  ASSUME NEW d, IsDelegation(d), NEW now \in Nat, NEW h, NEW g,
         IsHistory(h), IsHistory(g), Extends(g, h, now),
         d.activation_epoch <= now, now + 1 < Never,
         d.deactivation_epoch = Never
  PROVE  StakeAndActivating(d, g, now + 1).effective
            >= StakeAndActivating(d, h, now).effective
<1>. DEFINE first  == d.activation_epoch
            before == WarmupIterations(d, h, now)
            after  == WarmupIterations(d, g, now + 1)
<1>1. /\ d.stake \in Nat /\ first \in Nat /\ Never \in Nat /\ first # Never
      /\ now < Never /\ MaxEntries \in Nat \ {0}
  BY ActivationConstants DEF IsDelegation, Never
<1>2. /\ StakeAndActivating(d, h, now).effective \in 0..d.stake
      /\ StakeAndActivating(d, g, now + 1).effective \in 0..d.stake
  BY <1>1, StakeAndActivatingBounded
<1>3. CASE first < now + 1 - MaxEntries
  <2>1. now + 1 > first /\ ~HasEntry(g, now + 1, first)
    BY <1>1, <1>3 DEF HasEntry
  <2>2. StakeAndActivating(d, g, now + 1).effective = d.stake
    BY <1>1, <2>1, StartUnfolded
  <2>. QED
    BY <1>1, <1>2, <2>2
<1>4. CASE first >= now + 1 - MaxEntries
  <2>1. /\ now > first => HasEntry(h, now, first)
        /\ now + 1 > first /\ HasEntry(g, now + 1, first)
    BY <1>1, <1>4 DEF HasEntry, Extends
  <2>2. /\ StakeAndActivating(d, h, now).effective = Warmup(d, h)[before]
        /\ StakeAndActivating(d, g, now + 1).effective = Warmup(d, g)[after]
    BY <1>1, <2>1, StartUnfolded
  <2>3. before \in Nat /\ after \in Nat /\ before <= after
    <3>1. before \in Nat /\ after \in Nat
      BY <1>1, WarmupVisits
    <3>2. /\ Least(now, Greatest(Never, first + 1)) - 1 = now - 1
          /\ Least(now + 1, Greatest(Never, first + 1)) - 1 = now
      BY <1>1 DEF Least, Greatest
    <3>3. /\ before = Cardinality(LoopEpochs("activating", first, now - 1, h, now))
          /\ after = Cardinality(LoopEpochs("activating", first, now, g, now + 1))
      BY <3>2 DEF WarmupIterations
    <3>. HIDE DEF before, after, first
    <3>. QED
      BY <1>1, <1>4, <3>1, <3>3, LoopContinues
  <2>4. /\ \A n \in 1..before : /\ first + n - 1 \in 0..(now - 1)
                                /\ h[first + n - 1] \in Entry
        /\ \A n \in 1..after : g[first + n - 1] \in Entry
    BY <1>1, WarmupVisits
  <2>5. Warmup(d, g)[before] = Warmup(d, h)[before]
    <3>1. \A n \in 1..before : g[first + n - 1] = h[first + n - 1]
      BY <2>4 DEF Extends
    <3>. HIDE DEF before
    <3>2. \A n \in 0..before : Warmup(d, g)[n] = Warmup(d, h)[n]
      BY <2>3, <3>1, WarmupAgrees
    <3>. QED
      BY <2>3, <3>2
  <2>6. Warmup(d, g)[before] <= Warmup(d, g)[after]
    <3>1. before \in 0..after
      BY <2>3
    <3>. HIDE DEF before, after
    <3>. QED
      BY <2>3, <2>4, <3>1, WarmupGrows
  <2>. QED
    BY <2>2, <2>5, <2>6
<1>. QED
  BY <1>1, <1>3, <1>4

\* The amount a deactivation starts from stays what it was, unless the history
\* forgets the activation of stake that had not warmed up in full.
LEMMA StartRemembered ==
  ASSUME NEW d, IsDelegation(d), NEW now \in Nat, NEW h, NEW g,
         IsHistory(h), IsHistory(g), Extends(g, h, now),
         d.activation_epoch <= now, now + 1 < Never,
         d.deactivation_epoch \in d.activation_epoch..now,
         \/ d.activation_epoch = d.deactivation_epoch
         \/ now < d.activation_epoch + MaxEntries
         \/ StakeAndActivating(d, h, now).effective = d.stake
  PROVE  StakeAndActivating(d, g, now + 1).effective
            = StakeAndActivating(d, h, now).effective
<1>. DEFINE first  == d.activation_epoch
            last   == d.deactivation_epoch - 1
            before == WarmupIterations(d, h, now)
            after  == WarmupIterations(d, g, now + 1)
<1>1. /\ d.stake \in Nat /\ first \in Nat /\ d.deactivation_epoch \in Nat
      /\ now < Never /\ MaxEntries \in Nat \ {0}
  BY ActivationConstants DEF IsDelegation, Never
<1>2. CASE first = d.deactivation_epoch
  BY <1>1, <1>2, StartUnfolded
<1>3. CASE first # d.deactivation_epoch /\ first < now + 1 - MaxEntries
  <2>1. now + 1 > first /\ ~HasEntry(g, now + 1, first)
    BY <1>1, <1>3 DEF HasEntry
  <2>2. StakeAndActivating(d, g, now + 1).effective = d.stake
    BY <1>1, <1>3, <2>1, StartUnfolded
  <2>3. ~(now < first + MaxEntries)
    BY <1>1, <1>3
  <2>. QED
    BY <1>3, <2>2, <2>3
<1>4. CASE first # d.deactivation_epoch /\ first >= now + 1 - MaxEntries
  <2>1. /\ now > first /\ HasEntry(h, now, first)
        /\ now + 1 > first /\ HasEntry(g, now + 1, first)
    BY <1>1, <1>4 DEF HasEntry, Extends
  <2>2. /\ StakeAndActivating(d, h, now).effective = Warmup(d, h)[before]
        /\ StakeAndActivating(d, g, now + 1).effective = Warmup(d, g)[after]
    BY <1>1, <1>4, <2>1, StartUnfolded
  <2>3. before = after
    <3>1. /\ Least(now, Greatest(d.deactivation_epoch, first + 1)) - 1 = last
          /\ Least(now + 1, Greatest(d.deactivation_epoch, first + 1)) - 1 = last
      BY <1>1, <1>4 DEF Least, Greatest
    <3>2. /\ before = Cardinality(LoopEpochs("activating", first, last, h, now))
          /\ after = Cardinality(LoopEpochs("activating", first, last, g, now + 1))
      BY <3>1 DEF WarmupIterations
    <3>3. last \in Int /\ last < now
      BY <1>1
    <3>. HIDE DEF before, after, first, last
    <3>. QED
      BY <1>1, <1>4, <3>2, <3>3, LoopRepeats
  <2>4. before \in Nat /\ \A n \in 1..before : first + n - 1 \in 0..(now - 1)
    BY <1>1, WarmupVisits
  <2>5. Warmup(d, g)[before] = Warmup(d, h)[before]
    <3>1. \A n \in 1..before : g[first + n - 1] = h[first + n - 1]
      BY <2>4 DEF Extends
    <3>. HIDE DEF before
    <3>2. \A n \in 0..before : Warmup(d, g)[n] = Warmup(d, h)[n]
      BY <2>4, <3>1, WarmupAgrees
    <3>. QED
      BY <2>4, <3>2
  <2>. QED
    BY <2>2, <2>3, <2>5
<1>. QED
  BY <1>1, <1>2, <1>3, <1>4

\* Deactivated stake cools down further in the next epoch.
LEMMA CooldownAdvances ==
  ASSUME NEW d, IsDelegation(d), NEW now \in Nat, NEW h, NEW g,
         IsHistory(h), IsHistory(g), Extends(g, h, now),
         d.deactivation_epoch \in 0..now,
         StakeAndActivating(d, g, now + 1).effective
            = StakeAndActivating(d, h, now).effective
  PROVE  StakeActivatingAndDeactivating(d, g, now + 1).effective
            <= StakeActivatingAndDeactivating(d, h, now).effective
<1>. DEFINE first  == d.deactivation_epoch
            start  == StakeAndActivating(d, h, now).effective
            before == CooldownIterations(d, h, now)
            after  == CooldownIterations(d, g, now + 1)
            left(history, n) == Cooldown(d, history, start)[n]
            old == StakeActivatingAndDeactivating(d, h, now).effective
            new == StakeActivatingAndDeactivating(d, g, now + 1).effective
<1>1. first \in Nat /\ now + 1 \in Nat /\ MaxEntries \in Nat \ {0}
  BY ActivationConstants DEF IsDelegation
<1>2. start \in Nat /\ old \in Nat /\ new \in Nat
  <2>1. start \in 0..d.stake /\ old \in 0..d.stake /\ new \in 0..d.stake
    BY <1>1, StakeAndActivatingBounded, StatusBounded
  <2>. QED
    BY <2>1 DEF IsDelegation
<1>3. /\ after \in Nat
      /\ \A n \in 1..after : g[first + n - 1] \in Entry
  BY <1>1, CooldownVisits
<1>4. /\ before \in Nat
      /\ \A n \in 1..before : first + n - 1 \in 0..(now - 1)
  BY <1>1, CooldownVisits
<1>5. CASE ~HasEntry(g, now + 1, first)
  <2>1. new = 0
    BY <1>1, <1>5, EffectiveUnfolded
  <2>. QED
    BY <1>2, <2>1
<1>6. CASE HasEntry(g, now + 1, first)
  <2>1. new = left(g, after)
    BY <1>1, <1>6, EffectiveUnfolded
  <2>2. CASE now = first
    <3>1. old = start
      BY <1>1, <2>2, EffectiveUnfolded
    <3>2. left(g, after) <= left(g, 0)
      <4>1. 0 \in 0..after
        BY <1>3
      <4>. HIDE DEF after, start
      <4>. QED
        BY <1>2, <1>3, <4>1, CooldownShrinks
    <3>3. left(g, 0) = start
      BY CooldownNext
    <3>. QED
      BY <2>1, <3>1, <3>2, <3>3
  <2>3. CASE now # first
    <3>1. first >= now + 1 - MaxEntries /\ HasEntry(h, now, first) /\ now > first
      BY <1>1, <1>6, <2>3 DEF HasEntry, Extends
    <3>2. old = left(h, before)
      BY <1>1, <3>1, EffectiveUnfolded
    <3>3. left(g, before) = left(h, before)
      <4>1. \A n \in 1..before : g[first + n - 1] = h[first + n - 1]
        BY <1>4 DEF Extends
      <4>. HIDE DEF before, start
      <4>2. \A n \in 0..before : left(g, n) = left(h, n)
        BY <1>4, <4>1, CooldownAgrees
      <4>. QED
        BY <1>4, <4>2
    <3>4. before <= after
      <4>1. /\ before = Cardinality(LoopEpochs("deactivating", first, now - 1, h, now))
            /\ after = Cardinality(LoopEpochs("deactivating", first, now, g, now + 1))
        BY DEF CooldownIterations
      <4>2. now - 1 \in Int /\ now \in Int /\ now - 1 <= now
        OBVIOUS
      <4>. HIDE DEF before, after, first
      <4>. QED
        BY <1>1, <3>1, <4>1, <4>2, LoopContinues
    <3>5. left(g, after) <= left(g, before)
      <4>1. before \in 0..after
        BY <1>3, <1>4, <3>4
      <4>. HIDE DEF after, before, start
      <4>. QED
        BY <1>2, <1>3, <4>1, CooldownShrinks
    <3>. QED
      BY <2>1, <3>2, <3>3, <3>5
  <2>. QED
    BY <2>2, <2>3
<1>. QED
  BY <1>5, <1>6

(***************************************************************************)
(* When an epoch ends, a delegation that is not deactivated loses no       *)
(* effective stake, and one that is deactivated gains none: unless the     *)
(* history, which keeps MaxEntries epochs, forgets when stake was          *)
(* activated that had not warmed up in full.  The code then takes the      *)
(* whole delegation for what the cooldown started from.                    *)
(***************************************************************************)
THEOREM StatusAdvances ==
  ASSUME NEW d, IsDelegation(d), NEW now \in Nat, NEW h, NEW g,
         IsHistory(h), IsHistory(g), Extends(g, h, now),
         d.activation_epoch <= now, now + 1 < Never,
         d.deactivation_epoch \in {Never} \cup d.activation_epoch..now
  PROVE  LET old == StakeActivatingAndDeactivating(d, h, now).effective
             new == StakeActivatingAndDeactivating(d, g, now + 1).effective
         IN  /\ d.deactivation_epoch = Never => new >= old
             /\ /\ d.deactivation_epoch # Never
                /\ \/ d.activation_epoch = d.deactivation_epoch
                   \/ now < d.activation_epoch + MaxEntries
                   \/ StakeAndActivating(d, h, now).effective = d.stake
                => new <= old
<1>1. CASE d.deactivation_epoch = Never
  <2>1. now <= Never /\ now + 1 <= Never /\ Never \in Nat
    BY ActivationConstants DEF Never
  <2>2. /\ StakeActivatingAndDeactivating(d, h, now).effective
              = StakeAndActivating(d, h, now).effective
        /\ StakeActivatingAndDeactivating(d, g, now + 1).effective
              = StakeAndActivating(d, g, now + 1).effective
    BY <1>1, <2>1, EffectiveUnfolded
  <2>. QED
    BY <1>1, <2>2, WarmupAdvances
<1>2. CASE d.deactivation_epoch # Never
  <2>1. d.deactivation_epoch \in d.activation_epoch..now
        /\ d.deactivation_epoch \in 0..now
    BY <1>2 DEF IsDelegation
  <2>. QED
    BY <1>2, <2>1, StartRemembered, CooldownAdvances
<1>. QED
  BY <1>1, <1>2

\* Stake delegated in this epoch is activating as a whole.
LEMMA FreshActivates ==
  ASSUME NEW d, IsDelegation(d), NEW history, IsHistory(history),
         NEW now \in Nat, now < Never,
         d.activation_epoch = now, d.deactivation_epoch = Never
  PROVE  StakeActivatingAndDeactivating(d, history, now).activating = d.stake
<1>. DEFINE count == WarmupIterations(d, history, now)
<1>1. count = 0
  <2>1. /\ count \in Nat
        /\ \A n \in 1..count : d.activation_epoch + n - 1 \in 0..(now - 1)
    BY WarmupVisits
  <2>2. 1 \notin 1..count
    BY <2>1
  <2>. QED
    BY <2>1, <2>2
<1>2. StakeAndActivating(d, history, now).effective = 0
  <2>1. now # Never /\ ~(now > d.activation_epoch) /\ d.activation_epoch <= now
    OBVIOUS
  <2>. QED
    BY <1>1, <2>1, StartUnfolded, WarmupNext
<1>3. StakeActivatingAndDeactivating(d, history, now).effective = 0
  <2>1. now <= Never /\ Never \in Nat
    BY ActivationConstants DEF Never
  <2>. QED
    BY <1>2, <2>1, EffectiveUnfolded
<1>4. LET s == StakeActivatingAndDeactivating(d, history, now)
      IN  /\ s.activating \in 0..d.stake
          /\ s.effective + s.activating = d.stake
  BY StatusBounded DEF IsDelegation
<1>. QED
  BY <1>3, <1>4 DEF IsDelegation

\* Stake from an earlier epoch has started to warm up, when the history has
\* counted it in its activation epoch.
LEMMA StartedIsEffective ==
  ASSUME NEW d, IsDelegation(d), d.stake # 0, NEW now \in Nat, now < Never,
         NEW history, IsHistory(history), DOMAIN history = 0..(now - 1),
         d.activation_epoch < now, d.deactivation_epoch = Never,
         history[d.activation_epoch].activating # 0
  PROVE  StakeActivatingAndDeactivating(d, history, now).effective # 0
<1>. DEFINE first == d.activation_epoch
            count == WarmupIterations(d, history, now)
<1>1. d.stake \in Nat /\ first \in Nat /\ Never \in Nat /\ first # Never
  BY ActivationConstants DEF IsDelegation, Never
<1>2. StakeActivatingAndDeactivating(d, history, now).effective
        = StakeAndActivating(d, history, now).effective
  BY <1>1, EffectiveUnfolded
<1>3. CASE ~HasEntry(history, now, first)
  <2>1. StakeAndActivating(d, history, now).effective = d.stake
    BY <1>1, <1>3, StartUnfolded
  <2>. QED
    BY <1>2, <2>1
<1>4. CASE HasEntry(history, now, first)
  <2>1. StakeAndActivating(d, history, now).effective = Warmup(d, history)[count]
    BY <1>1, <1>4, StartUnfolded
  <2>2. /\ count \in Nat
        /\ \A n \in 1..count : history[first + n - 1] \in Entry
    BY WarmupVisits
  <2>3. count # 0
    <3>. DEFINE visited == LoopEpochs("activating", first, now - 1, history, now)
    <3>1. Least(now, Greatest(Never, first + 1)) - 1 = now - 1
      BY <1>1 DEF Least, Greatest
    <3>2. count = Cardinality(visited)
      BY <3>1 DEF WarmupIterations
    <3>3. first \in visited
      <4>1. first \in first..(now - 1) /\ \A past \in first..first : past = first
        BY <1>1
      <4>. QED
        BY <1>4, <4>1 DEF LoopEpochs
    <3>4. IsFiniteSet(visited)
      <4>1. now - 1 \in Int
        OBVIOUS
      <4>. QED
        BY <1>1, <4>1, LoopCount
    <3>. HIDE DEF visited, count
    <3>. QED
      BY <3>2, <3>3, <3>4, FS_EmptySet
  <2>4. Warmup(d, history)[count] >= Least(count, d.stake)
    <3>1. count \in 0..count
      BY <2>2
    <3>. HIDE DEF count
    <3>. QED
      BY <2>2, <3>1, WarmupBounded
  <2>5. Warmup(d, history)[count] # 0
    <3>1. Warmup(d, history)[count] \in 0..d.stake
      <4>1. StakeAndActivating(d, history, now).effective \in 0..d.stake
        BY StakeAndActivatingBounded
      <4>. QED
        BY <2>1, <4>1
    <3>. HIDE DEF count
    <3>. QED
      BY <1>1, <2>2, <2>3, <2>4, <3>1 DEF Least
  <2>. QED
    BY <1>2, <2>1, <2>5
<1>. QED
  BY <1>3, <1>4

\* A lamport less is effective for each epoch since the deactivation, when the
\* history has counted deactivating stake in each of them.
LEMMA CooledByTheEpoch ==
  ASSUME NEW d, IsDelegation(d), NEW now \in Nat,
         NEW history, IsHistory(history), DOMAIN history = 0..(now - 1),
         d.deactivation_epoch < now,
         \A e \in d.deactivation_epoch..(now - 1) : history[e].deactivating # 0
  PROVE  StakeActivatingAndDeactivating(d, history, now).effective
            <= SatSub(d.stake, now - d.deactivation_epoch)
<1>. DEFINE first == d.deactivation_epoch
            start == StakeAndActivating(d, history, now).effective
            count == CooldownIterations(d, history, now)
<1>1. first \in Nat /\ d.stake \in Nat /\ start \in 0..d.stake
  BY StakeAndActivatingBounded DEF IsDelegation
<1>2. CASE ~HasEntry(history, now, first)
  <2>1. StakeActivatingAndDeactivating(d, history, now).effective = 0
    BY <1>1, <1>2, EffectiveUnfolded
  <2>. QED
    BY <1>1, <2>1 DEF SatSub
<1>3. CASE HasEntry(history, now, first)
  <2>1. StakeActivatingAndDeactivating(d, history, now).effective
          = Cooldown(d, history, start)[count]
    BY <1>1, <1>3, EffectiveUnfolded
  <2>2. /\ count \in Nat
        /\ \A n \in 1..count : history[first + n - 1] \in Entry
    BY CooldownVisits
  <2>3. count = now - first
    <3>1. LoopEpochs("deactivating", first, now - 1, history, now)
            = first..(now - 1)
      <4>1. \A e \in first..(now - 1) : HasEntry(history, now, e)
        BY <1>1, <1>3, ActivationConstants DEF HasEntry
      <4>2. \A e \in first..(now - 1) : \A past \in first..e :
               past \in first..(now - 1)
        BY <1>1
      <4>. QED
        BY <4>1, <4>2 DEF LoopEpochs
    <3>2. Cardinality(first..(now - 1)) = now - first
      <4>1. \A a, b \in Int :
               Cardinality(a..b) = IF a > b THEN 0 ELSE b - a + 1
        BY FS_Interval
      <4>2. first \in Int /\ now - 1 \in Int /\ ~(first > now - 1)
            /\ (now - 1) - first + 1 = now - first
        BY <1>1
      <4>. HIDE DEF first
      <4>. QED
        BY <4>1, <4>2
    <3>. QED
      BY <1>1, <3>1, <3>2 DEF CooldownIterations
  <2>4. Cooldown(d, history, start)[count] \in 0..SatSub(start, count)
    <3>1. count \in 0..count /\ start \in Nat
      BY <1>1, <2>2
    <3>. HIDE DEF count, start
    <3>. QED
      BY <2>2, <3>1, CooldownBounded
  <2>. HIDE DEF start, count
  <2>. QED
    BY <1>1, <2>1, <2>2, <2>3, <2>4 DEF SatSub
<1>. QED
  BY <1>2, <1>3

(***************************************************************************)
(* While nothing of a delegation is effective, nothing would be of another *)
(* amount with its epochs either, or if it were deactivated now: the first *)
(* epoch that counts makes something of any delegation effective.          *)
(***************************************************************************)
LEMMA NotYetEffective ==
  ASSUME NEW d, IsDelegation(d), d.stake # 0, NEW e, IsDelegation(e),
         NEW history, IsHistory(history), NEW now \in Nat, now < Never,
         d.activation_epoch <= now, now <= d.deactivation_epoch,
         e.activation_epoch = d.activation_epoch,
         \/ e.deactivation_epoch = d.deactivation_epoch
         \/ e.deactivation_epoch = now /\ d.deactivation_epoch = Never,
         StakeActivatingAndDeactivating(d, history, now).effective = 0
  PROVE  StakeActivatingAndDeactivating(e, history, now).effective = 0
<1>. DEFINE count == WarmupIterations(d, history, now)
            start(x) == StakeAndActivating(x, history, now).effective
<1>1. now <= Never /\ Never \in Nat /\ d.activation_epoch \in Nat /\ d.stake \in Nat
  BY ActivationConstants DEF Never, IsDelegation
<1>2. start(d) = 0 /\ now <= e.deactivation_epoch
  BY <1>1, EffectiveUnfolded DEF IsDelegation
<1>3. start(e) = 0
  <2>1. CASE e.activation_epoch = e.deactivation_epoch
    BY <2>1, StartUnfolded
  <2>2. CASE e.activation_epoch # e.deactivation_epoch
    <3>1. d.activation_epoch # d.deactivation_epoch
      BY <1>1, <2>2
    <3>2. ~(now > d.activation_epoch /\ ~HasEntry(history, now, d.activation_epoch))
      BY <1>2, <3>1, StartUnfolded
    <3>3. WarmupIterations(e, history, now) = count
      <4>1. CASE e.deactivation_epoch = d.deactivation_epoch
        BY <4>1 DEF WarmupIterations
      <4>2. CASE e.deactivation_epoch = now /\ d.deactivation_epoch = Never
        <5>1. /\ Least(now, Greatest(Never, d.activation_epoch + 1)) = now
              /\ Least(now, Greatest(now, d.activation_epoch + 1)) = now
          BY <1>1 DEF Least, Greatest
        <5>. QED
          BY <4>2, <5>1 DEF WarmupIterations
      <4>. QED
        BY <4>1, <4>2
    <3>4. start(d) = Warmup(d, history)[count] /\ start(e) = Warmup(e, history)[count]
      BY <2>2, <3>1, <3>2, <3>3, StartUnfolded
    <3>5. /\ count \in Nat
          /\ \A n \in 1..count : history[d.activation_epoch + n - 1] \in Entry
      BY WarmupVisits
    <3>6. Warmup(d, history)[count] >= Least(count, d.stake)
      <4>. HIDE DEF count
      <4>1. count \in 0..count
        BY <3>5
      <4>. QED
        BY <3>5, <4>1, WarmupBounded
    <3>7. count = 0
      <4>. HIDE DEF count
      <4>. QED
        BY <1>1, <1>2, <3>4, <3>5, <3>6 DEF Least
    <3>8. Warmup(e, history)[0] = 0
      BY WarmupNext
    <3>. QED
      BY <3>4, <3>7, <3>8
  <2>. QED
    BY <2>1, <2>2
<1>. QED
  BY <1>2, <1>3, EffectiveUnfolded DEF IsDelegation

-----------------------------------------------------------------------------
(* Epochs that limit no account.                                           *)

(***************************************************************************)
(* No account of at most `most' lamports is limited by the rate, in an     *)
(* epoch in which `moving' lamports warm up or cool down while `effective' *)
(* are effective: these are a small enough part of them, and the products  *)
(* do not saturate.                                                        *)
(***************************************************************************)
Ample(moving, effective, most) ==
    /\ moving * BasisPoints <= effective * RateBps
    /\ most * (moving * BasisPoints) <= MaxU128

\* A history of which every epoch is so.
AmpleHistory(history, most) ==
    \A e \in DOMAIN history :
        /\ Ample(history[e].activating, history[e].effective, most)
        /\ Ample(history[e].deactivating, history[e].effective, most)

\* Products are ordered as their factors are, and can be bracketed anew.
LEMMA ProductsOrdered ==
  ASSUME NEW a \in Nat, NEW b \in Nat, NEW c \in Nat
  PROVE  /\ a <= b => c * a <= c * b /\ a * c <= b * c
         /\ (c * a) * b = c * (a * b)
OBVIOUS

\* A quotient is at least what its divisor goes into the dividend.
LEMMA QuotientCovers ==
  ASSUME NEW a \in Nat, NEW b \in Nat, b # 0, NEW p \in Nat, p * b <= a
  PROVE  p <= a \div b
<1>. DEFINE q == a \div b
<1>1. q \in Nat /\ a < b * (q + 1)
  OBVIOUS
<1>. HIDE DEF q
<1>2. SUFFICES ASSUME q + 1 <= p PROVE FALSE
  BY <1>1 DEF q
<1>3. (q + 1) * b <= p * b /\ (q + 1) * b = b * (q + 1)
  BY <1>1, <1>2, ProductsOrdered
<1>. QED
  BY <1>1, <1>3

\* In such an epoch all of an account's stake is let through.
LEMMA AllowanceWhole ==
  ASSUME NEW most \in Nat, NEW portion \in 0..most, NEW moving \in Nat, moving # 0,
         NEW effective \in Nat, Ample(moving, effective, most)
  PROVE  StakeChangeAllowance(portion, moving, effective) = portion
<1>. DEFINE limit   == moving * BasisPoints
            cluster == effective * RateBps
            inner   == SatMul(portion, effective)
            product == SatMul(inner, RateBps)
            divisor == SatMul(moving, BasisPoints)
<1>1. CASE portion = 0
  BY <1>1 DEF StakeChangeAllowance
<1>2. CASE portion # 0
  <2>1. /\ RateBps \in Nat /\ RateBps >= 1 /\ BasisPoints \in Nat /\ BasisPoints # 0
        /\ MaxU128 \in Nat
    BY ActivationConstants
  <2>2. limit \in Nat /\ limit # 0 /\ cluster \in Nat
    BY <2>1, ProductPositive
  <2>3. limit <= cluster /\ most * limit <= MaxU128
    BY DEF Ample
  <2>4. effective # 0
    <3>1. effective = 0 => cluster = 0
      BY <2>1
    <3>. HIDE DEF limit, cluster
    <3>. QED
      BY <2>2, <2>3, <3>1
  <2>5. /\ divisor \in Nat /\ divisor # 0 /\ divisor <= limit
        /\ inner \in Nat /\ product \in Nat
    <3>1. divisor \in Nat /\ divisor # 0
      BY <2>1, SatMulType
    <3>2. divisor <= limit
      BY <2>1, <2>2 DEF SatMul, Least
    <3>3. inner \in Nat
      <4>1. portion \in Nat
        OBVIOUS
      <4>. QED
        BY <4>1, SatMulType
    <3>4. product \in Nat
      <4>. HIDE DEF inner
      <4>. QED
        BY <2>1, <3>3, SatMulType
    <3>. QED
      BY <3>1, <3>2, <3>3, <3>4
  <2>6. /\ portion * divisor \in Nat /\ portion * limit \in Nat
        /\ portion * cluster \in Nat
        /\ portion * divisor <= portion * limit
        /\ portion * limit <= portion * cluster
        /\ portion * limit <= MaxU128
    <3>1. portion * limit <= most * limit
      <4>. HIDE DEF limit
      <4>. QED
        BY <2>2, ProductsOrdered
    <3>2. most * limit \in Nat
      <4>. HIDE DEF limit
      <4>. QED
        BY <2>2, ProductPositive
    <3>. HIDE DEF limit, cluster, divisor
    <3>3. /\ portion * divisor \in Nat /\ portion * limit \in Nat
          /\ portion * cluster \in Nat
      BY <2>2, <2>5, ProductPositive
    <3>4. portion * divisor <= portion * limit /\ portion * limit <= portion * cluster
      BY <2>2, <2>3, <2>5, ProductsOrdered
    <3>. QED
      BY <2>1, <2>3, <3>1, <3>2, <3>3, <3>4
  <2>7. portion * divisor <= product
    <3>1. CASE portion * effective <= MaxU128
      <4>1. inner = portion * effective
        BY <3>1 DEF SatMul, Least
      <4>2. (portion * effective) * RateBps = portion * cluster
        BY <2>1, ProductsOrdered
      <4>3. product = Least(portion * cluster, MaxU128)
        BY <4>1, <4>2 DEF SatMul
      <4>. HIDE DEF product, cluster, limit, divisor
      <4>. QED
        BY <2>1, <2>6, <4>3 DEF Least
    <3>2. CASE ~(portion * effective <= MaxU128)
      <4>1. inner = MaxU128
        BY <3>2 DEF SatMul, Least
      <4>2. MaxU128 * RateBps \in Nat /\ MaxU128 * 1 <= MaxU128 * RateBps
            /\ MaxU128 * 1 = MaxU128
        BY <2>1, ProductPositive, ProductsOrdered
      <4>3. product = MaxU128
        BY <2>1, <4>1, <4>2 DEF SatMul, Least
      <4>. HIDE DEF product, cluster, limit, divisor
      <4>. QED
        BY <2>1, <2>6, <4>3
    <3>. QED
      BY <3>1, <3>2
  <2>8. portion <= product \div divisor /\ product \div divisor \in Nat
    <3>. HIDE DEF product, divisor
    <3>. QED
      BY <2>5, <2>7, QuotientCovers, QuotientType
  <2>9. StakeChangeAllowance(portion, moving, effective)
          = Least(product \div divisor, portion)
    BY <1>2, <2>4 DEF StakeChangeAllowance
  <2>. HIDE DEF product, divisor
  <2>. QED
    BY <2>8, <2>9 DEF Least
<1>. QED
  BY <1>1, <1>2

\* Stake of an earlier epoch has warmed up as a whole, when the history has
\* counted its activation.
LEMMA StartWhole ==
  ASSUME NEW d, IsDelegation(d), NEW most \in Nat, d.stake <= most,
         NEW now \in Nat, now < Never,
         NEW history, IsHistory(history), DOMAIN history = 0..(now - 1),
         AmpleHistory(history, most),
         d.activation_epoch < now, d.deactivation_epoch # d.activation_epoch,
         d.deactivation_epoch >= d.activation_epoch,
         history[d.activation_epoch].activating # 0
  PROVE  StakeAndActivating(d, history, now).effective = d.stake
<1>. DEFINE first == d.activation_epoch
            count == WarmupIterations(d, history, now)
            start == StakeAndActivating(d, history, now).effective
            entry == history[first]
<1>1. d.stake \in Nat /\ first \in Nat /\ d.deactivation_epoch \in Nat
  BY DEF IsDelegation
<1>2. start \in 0..d.stake
  BY StakeAndActivatingBounded
<1>3. CASE ~HasEntry(history, now, first)
  BY <1>1, <1>3, StartUnfolded
<1>4. CASE HasEntry(history, now, first)
  <2>1. start = Warmup(d, history)[count]
    BY <1>1, <1>4, StartUnfolded
  <2>2. /\ count \in Nat
        /\ \A n \in 1..count : history[first + n - 1] \in Entry
    BY WarmupVisits
  <2>3. count # 0
    <3>. DEFINE last == Least(now, Greatest(d.deactivation_epoch, first + 1)) - 1
                visited == LoopEpochs("activating", first, last, history, now)
    <3>1. last \in Int /\ first <= last
      BY <1>1 DEF Least, Greatest
    <3>2. count = Cardinality(visited)
      BY DEF WarmupIterations
    <3>. HIDE DEF last
    <3>3. first \in visited
      <4>1. first \in first..last /\ \A past \in first..first : past = first
        BY <1>1, <3>1
      <4>. QED
        BY <1>4, <4>1 DEF LoopEpochs
    <3>4. IsFiniteSet(visited)
      BY <1>1, <3>1, LoopCount
    <3>. HIDE DEF visited, count
    <3>. QED
      BY <3>2, <3>3, <3>4, FS_EmptySet
  <2>4. Warmup(d, history)[1] = d.stake
    <3>1. /\ entry \in Entry /\ entry.activating \in Nat /\ entry.effective \in Nat
          /\ entry.activating # 0 /\ Ample(entry.activating, entry.effective, most)
      BY <1>4 DEF HasEntry, IsHistory, Entry, AmpleHistory
    <3>2. ActivationAllowance(d.stake, entry) = d.stake
      <4>1. d.stake \in 0..most
        BY <1>1
      <4>. HIDE DEF entry
      <4>. QED
        BY <3>1, <4>1, AllowanceWhole DEF ActivationAllowance
    <3>3. WarmupStep(d, history, 1)[0]
            = Least(0 + Greatest(ActivationAllowance(d.stake - 0, entry), 1), d.stake)
      <4>1. first + 1 - 1 = first
        BY <1>1
      <4>. QED
        BY <4>1 DEF WarmupStep
    <3>4. Warmup(d, history)[1] = WarmupStep(d, history, 1)[0]
      <4>1. 0 \in Nat /\ 1 \in Nat /\ 1 # 0 /\ 1 - 1 = 0
        OBVIOUS
      <4>. QED
        BY <4>1, WarmupUnfolded
    <3>5. d.stake - 0 = d.stake
      BY <1>1
    <3>6. Least(0 + Greatest(d.stake, 1), d.stake) = d.stake
      BY <1>1 DEF Least, Greatest
    <3>. QED
      BY <3>2, <3>3, <3>4, <3>5, <3>6
  <2>5. Warmup(d, history)[1] <= Warmup(d, history)[count]
    <3>1. 1 \in 0..count
      BY <2>2, <2>3
    <3>. HIDE DEF count
    <3>. QED
      BY <2>2, <3>1, WarmupGrows
  <2>. HIDE DEF start, count
  <2>. QED
    BY <1>1, <1>2, <2>1, <2>4, <2>5 DEF start
<1>. QED
  BY <1>3, <1>4

\* Nothing of a delegation is effective in its activation epoch.
LEMMA StartsFromNothing ==
  ASSUME NEW d, IsDelegation(d), NEW now \in Nat, now < Never,
         NEW history, IsHistory(history), d.activation_epoch = now
  PROVE  StakeAndActivating(d, history, now).effective = 0
<1>. DEFINE count == WarmupIterations(d, history, now)
<1>1. count = 0
  <2>1. /\ count \in Nat
        /\ \A n \in 1..count : d.activation_epoch + n - 1 \in 0..(now - 1)
    BY WarmupVisits
  <2>2. 1 \notin 1..count
    BY <2>1
  <2>. QED
    BY <2>1, <2>2
<1>2. ~(now > d.activation_epoch) /\ d.activation_epoch <= now
  OBVIOUS
<1>. QED
  BY <1>1, <1>2, StartUnfolded, WarmupNext

\* Deactivated stake has cooled down as a whole in the next epoch, when the
\* history has counted its deactivation.
LEMMA CooledWhole ==
  ASSUME NEW d, IsDelegation(d), NEW most \in Nat, d.stake <= most,
         NEW now \in Nat,
         NEW history, IsHistory(history), DOMAIN history = 0..(now - 1),
         AmpleHistory(history, most),
         d.deactivation_epoch < now,
         history[d.deactivation_epoch].deactivating # 0
  PROVE  StakeActivatingAndDeactivating(d, history, now).effective = 0
<1>. DEFINE first == d.deactivation_epoch
            count == CooldownIterations(d, history, now)
            start == StakeAndActivating(d, history, now).effective
            entry == history[first]
<1>1. d.stake \in Nat /\ first \in Nat /\ start \in 0..d.stake
  BY StakeAndActivatingBounded DEF IsDelegation
<1>2. CASE ~HasEntry(history, now, first)
  BY <1>1, <1>2, EffectiveUnfolded
<1>3. CASE HasEntry(history, now, first)
  <2>1. StakeActivatingAndDeactivating(d, history, now).effective
          = Cooldown(d, history, start)[count]
    BY <1>1, <1>3, EffectiveUnfolded
  <2>2. /\ count \in Nat
        /\ \A n \in 1..count : history[first + n - 1] \in Entry
    BY CooldownVisits
  <2>3. count # 0
    <3>. DEFINE visited == LoopEpochs("deactivating", first, now - 1, history, now)
    <3>1. count = Cardinality(visited)
      BY DEF CooldownIterations
    <3>2. first \in visited
      <4>1. first \in first..(now - 1) /\ \A past \in first..first : past = first
        BY <1>1
      <4>. QED
        BY <1>3, <4>1 DEF LoopEpochs
    <3>3. IsFiniteSet(visited)
      <4>1. now - 1 \in Int
        OBVIOUS
      <4>. QED
        BY <1>1, <4>1, LoopCount
    <3>. HIDE DEF visited, count
    <3>. QED
      BY <3>1, <3>2, <3>3, FS_EmptySet
  <2>4. Cooldown(d, history, start)[1] = 0
    <3>1. /\ entry.deactivating \in Nat /\ entry.effective \in Nat
          /\ entry.deactivating # 0 /\ Ample(entry.deactivating, entry.effective, most)
      BY <1>3 DEF HasEntry, IsHistory, Entry, AmpleHistory
    <3>2. DeactivationAllowance(start, entry) = start
      <4>1. start \in 0..most
        BY <1>1
      <4>. HIDE DEF entry, start
      <4>. QED
        BY <3>1, <4>1, AllowanceWhole DEF DeactivationAllowance
    <3>3. CooldownStep(d, history, 1)[start]
            = SatSub(start, Greatest(DeactivationAllowance(start, entry), 1))
      <4>1. first + 1 - 1 = first /\ start \in Nat
        BY <1>1
      <4>. HIDE DEF start
      <4>. QED
        BY <4>1 DEF CooldownStep
    <3>4. Cooldown(d, history, start)[1] = CooldownStep(d, history, 1)[start]
      <4>1. 0 \in Nat /\ 1 \in Nat /\ 1 # 0 /\ 1 - 1 = 0
        OBVIOUS
      <4>. HIDE DEF start
      <4>. QED
        BY <4>1, CooldownUnfolded
    <3>5. SatSub(start, Greatest(start, 1)) = 0
      <4>1. start \in Nat
        BY <1>1
      <4>. HIDE DEF start
      <4>. QED
        BY <4>1 DEF SatSub, Greatest
    <3>. HIDE DEF start
    <3>. QED
      BY <3>2, <3>3, <3>4, <3>5
  <2>5. /\ Cooldown(d, history, start)[count] <= Cooldown(d, history, start)[1]
        /\ Cooldown(d, history, start)[count] \in Nat
    <3>1. 1 \in 0..count /\ count \in 0..count /\ start \in Nat
      BY <1>1, <2>2, <2>3
    <3>2. StakeActivatingAndDeactivating(d, history, now).effective \in 0..d.stake
      BY StatusBounded
    <3>. HIDE DEF count, start
    <3>. QED
      BY <1>1, <2>1, <2>2, <3>1, <3>2, CooldownShrinks
  <2>. HIDE DEF start, count
  <2>. QED
    BY <2>1, <2>4, <2>5
<1>. QED
  BY <1>2, <1>3

(***************************************************************************)
(* Where no epoch limits an account, all of its stake is effective from    *)
(* the epoch after the activation to that of the deactivation, and nothing *)
(* before and after: the loops do in one iteration all there is to do.     *)
(***************************************************************************)
THEOREM StatusWhole ==
  ASSUME NEW d, IsDelegation(d), NEW most \in Nat, d.stake <= most,
         NEW now \in Nat, now < Never,
         NEW history, IsHistory(history), DOMAIN history = 0..(now - 1),
         AmpleHistory(history, most),
         d.activation_epoch <= now,
         d.deactivation_epoch \in {Never} \cup d.activation_epoch..now,
         /\ d.activation_epoch < now
         /\ d.deactivation_epoch # d.activation_epoch
         => history[d.activation_epoch].activating # 0,
         d.deactivation_epoch < now =>
           \/ StakeActivatingAndDeactivating(d, history, now).effective = 0
           \/ history[d.deactivation_epoch].deactivating # 0
  PROVE  StakeActivatingAndDeactivating(d, history, now).effective
           = IF d.activation_epoch < now /\ now <= d.deactivation_epoch
             THEN d.stake ELSE 0
<1>. DEFINE first == d.activation_epoch
            end   == d.deactivation_epoch
            start == StakeAndActivating(d, history, now).effective
            effective == StakeActivatingAndDeactivating(d, history, now).effective
<1>1. first \in Nat /\ end \in Nat /\ Never \in Nat /\ end >= first
  BY ActivationConstants DEF IsDelegation, Never
<1>2. now <= end => effective = start
  BY <1>1, EffectiveUnfolded
<1>3. CASE first < now /\ now <= end
  <2>1. start = d.stake
    BY <1>1, <1>3, StartWhole
  <2>. QED
    BY <1>2, <1>3, <2>1
<1>4. CASE first = now
  <2>1. start = 0 /\ now <= end
    BY <1>1, <1>4, StartsFromNothing
  <2>. QED
    BY <1>2, <1>4, <2>1
<1>5. CASE end < now
  <2>1. effective = 0
    BY <1>5, CooledWhole
  <2>. HIDE DEF effective
  <2>2. ~(now <= end)
    BY <1>1, <1>5
  <2>. HIDE DEF end
  <2>. QED
    BY <2>1, <2>2 DEF effective, end
<1>. QED
  BY <1>1, <1>3, <1>4, <1>5

-----------------------------------------------------------------------------
(* Parts of a delegation.                                                  *)

\* What one iteration of either loop leaves of the stake that is yet to move.
Rest(portion, moving, effective) ==
    SatSub(portion, Greatest(StakeChangeAllowance(portion, moving, effective), 1))

(***************************************************************************)
(* An epoch in which the products do not saturate for any account of at    *)
(* most `most' lamports.                                                   *)
(***************************************************************************)
Roomy(moving, effective, most) ==
    /\ most * (effective * RateBps) <= MaxU128
    /\ moving * BasisPoints <= MaxU128

\* A history of which every epoch is so.
RoomyHistory(history, most) ==
    \A e \in DOMAIN history :
        /\ Roomy(history[e].activating, history[e].effective, most)
        /\ Roomy(history[e].deactivating, history[e].effective, most)

\* Two numbers that differ by at most k.
Near(a, b, k) == a <= b + k /\ b <= a + k

\* A quotient is less than what goes over the dividend.
LEMMA QuotientWithin ==
  ASSUME NEW a \in Nat, NEW b \in Nat, b # 0, NEW p \in Nat, a < p * b
  PROVE  a \div b < p
<1>. DEFINE q == a \div b
<1>1. q \in Nat /\ b * q <= a
  OBVIOUS
<1>. HIDE DEF q
<1>2. SUFFICES ASSUME p <= q PROVE FALSE
  BY <1>1 DEF q
<1>3. p * b <= q * b /\ q * b = b * q
  BY <1>1, <1>2, ProductsOrdered
<1>4. p * b \in Nat /\ q * b \in Nat
  BY <1>1, ProductPositive
<1>. QED
  BY <1>1, <1>3, <1>4

\* Rounding down a sum of two quotients loses at most one.
LEMMA QuotientOfSum ==
  ASSUME NEW a \in Nat, NEW b \in Nat, NEW c \in Nat, c # 0
  PROVE  /\ a \div c \in Nat /\ b \div c \in Nat /\ (a + b) \div c \in Nat
         /\ (a + b) \div c >= a \div c + b \div c
         /\ (a + b) \div c <= a \div c + b \div c + 1
<1>. DEFINE p == a \div c
            q == b \div c
<1>1. p \in Nat /\ c * p <= a /\ a < c * (p + 1)
  OBVIOUS
<1>2. q \in Nat /\ c * q <= b /\ b < c * (q + 1)
  OBVIOUS
<1>. HIDE DEF p, q
<1>3. /\ (p + q) * c = c * p + c * q
      /\ (p + q + 2) * c = c * (p + 1) + c * (q + 1)
      /\ c * p \in Nat /\ c * q \in Nat /\ c * (p + 1) \in Nat /\ c * (q + 1) \in Nat
  BY <1>1, <1>2
<1>4. (p + q) * c <= a + b /\ a + b < (p + q + 2) * c
  <2>. DEFINE cp == c * p  cq == c * q  dp == c * (p + 1)  dq == c * (q + 1)
  <2>1. cp <= a /\ cq <= b /\ a < dp /\ b < dq
    BY <1>1, <1>2
  <2>2. (p + q) * c = cp + cq /\ (p + q + 2) * c = dp + dq
    BY <1>3
  <2>3. cp \in Nat /\ cq \in Nat /\ dp \in Nat /\ dq \in Nat
    BY <1>3
  <2>. HIDE DEF cp, cq, dp, dq
  <2>. QED
    BY <2>1, <2>2, <2>3
<1>5. a + b \in Nat /\ p + q \in Nat /\ p + q + 2 \in Nat /\ (a + b) \div c \in Nat
  BY <1>1, <1>2, QuotientType
<1>6. p + q <= (a + b) \div c
  BY <1>4, <1>5, QuotientCovers
<1>7. (a + b) \div c < p + q + 2
  BY <1>4, <1>5, QuotientWithin
<1>. QED
  BY <1>1, <1>2, <1>5, <1>6, <1>7 DEF p, q

\* Where nothing saturates the allowance is a rounded share, or everything.
LEMMA AllowanceShare ==
  ASSUME NEW most \in Nat, NEW portion \in 0..most, NEW moving \in Nat, moving # 0,
         NEW effective \in Nat, Roomy(moving, effective, most)
  PROVE  StakeChangeAllowance(portion, moving, effective)
           = Least((portion * (effective * RateBps)) \div (moving * BasisPoints), portion)
<1>. DEFINE limit   == moving * BasisPoints
            cluster == effective * RateBps
<1>1. /\ RateBps \in Nat /\ RateBps >= 1 /\ BasisPoints \in Nat /\ BasisPoints # 0
      /\ MaxU128 \in Nat
  BY ActivationConstants
<1>2. limit \in Nat /\ limit # 0 /\ cluster \in Nat
  BY <1>1, ProductPositive
<1>3. most * cluster <= MaxU128 /\ limit <= MaxU128
  BY DEF Roomy
<1>4. CASE portion = 0 \/ effective = 0
  <2>1. portion * cluster = 0
    BY <1>1, <1>4
  <2>2. 0 \div limit = 0
    <3>. HIDE DEF limit, cluster
    <3>1. 0 < 1 * limit
      BY <1>2
    <3>. QED
      BY <1>2, <3>1, QuotientWithin, QuotientType
  <2>3. StakeChangeAllowance(portion, moving, effective) = 0
    BY <1>4 DEF StakeChangeAllowance
  <2>. HIDE DEF limit, cluster
  <2>4. Least((portion * cluster) \div limit, portion) = 0
    BY <2>1, <2>2 DEF Least
  <2>. QED
    BY <2>3, <2>4 DEF limit, cluster
<1>5. CASE portion # 0 /\ effective # 0
  <2>1. /\ portion * cluster \in Nat /\ portion * effective \in Nat
        /\ (portion * effective) * RateBps = portion * cluster
    BY <1>1, <1>2, ProductPositive, ProductsOrdered
  <2>2. portion * cluster <= MaxU128
    <3>1. portion * cluster <= most * cluster /\ most * cluster \in Nat
      <4>. HIDE DEF cluster
      <4>. QED
        BY <1>2, ProductsOrdered, ProductPositive
    <3>. HIDE DEF cluster
    <3>. QED
      BY <1>1, <1>3, <2>1, <3>1
  <2>3. portion * effective <= portion * cluster
    <3>1. (portion * effective) * 1 <= (portion * effective) * RateBps
      BY <1>1, <2>1, ProductsOrdered
    <3>. HIDE DEF cluster
    <3>. QED
      BY <2>1, <3>1
  <2>4. SatMul(portion, effective) = portion * effective
    <3>. DEFINE inner == portion * effective  outer == portion * cluster
    <3>1. inner \in Nat /\ outer \in Nat /\ inner <= outer /\ outer <= MaxU128
      BY <2>1, <2>2, <2>3
    <3>2. SatMul(portion, effective) = Least(inner, MaxU128)
      BY DEF SatMul
    <3>. HIDE DEF inner, outer
    <3>3. Least(inner, MaxU128) = inner
      BY <1>1, <3>1 DEF Least
    <3>. QED
      BY <3>2, <3>3 DEF inner
  <2>5. SatMul(SatMul(portion, effective), RateBps) = portion * cluster
    <3>1. SatMul(SatMul(portion, effective), RateBps) = Least(portion * cluster, MaxU128)
      BY <2>1, <2>4 DEF SatMul
    <3>. HIDE DEF cluster
    <3>. QED
      BY <1>1, <2>1, <2>2, <3>1 DEF Least
  <2>6. SatMul(moving, BasisPoints) = limit
    BY <1>3 DEF SatMul, Least
  <2>. HIDE DEF limit, cluster
  <2>7. StakeChangeAllowance(portion, moving, effective)
          = Least((portion * cluster) \div limit, portion)
    BY <1>5, <2>5, <2>6 DEF StakeChangeAllowance
  <2>. QED
    BY <2>7 DEF limit, cluster
<1>. QED
  BY <1>4, <1>5

(***************************************************************************)
(* More stake has as much left or more, and no more than it is more by;    *)
(* and two parts have left what their sum has, up to a lamport: one may be *)
(* lost to rounding, one gained by the part that is too small for a share. *)
(***************************************************************************)
LEMMA RestOfSum ==
  ASSUME NEW most \in Nat, NEW x \in Nat, NEW y \in Nat, x + y <= most,
         NEW moving \in Nat, moving # 0, NEW effective \in Nat,
         Roomy(moving, effective, most)
  PROVE  LET rest(r) == Rest(r, moving, effective)
         IN  /\ rest(x) \in 0..x
             /\ rest(x) <= rest(x + y) /\ rest(x + y) <= rest(x) + y
             /\ Near(rest(x) + rest(y), rest(x + y), 1)
<1>. DEFINE limit   == moving * BasisPoints
            cluster == effective * RateBps
            share(r) == (r * cluster) \div limit
            allowance(r) == StakeChangeAllowance(r, moving, effective)
<1>1. limit \in Nat /\ limit # 0 /\ cluster \in Nat
  <2>1. RateBps \in Nat /\ BasisPoints \in Nat /\ BasisPoints # 0
    BY ActivationConstants
  <2>. QED
    BY <2>1, ProductPositive
<1>2. ASSUME NEW r \in 0..most
      PROVE  allowance(r) = Least(share(r), r)
  BY AllowanceShare
<1>3. x \in 0..most /\ y \in 0..most /\ x + y \in 0..most
  OBVIOUS
<1>4. /\ allowance(x) = Least(share(x), x)
      /\ allowance(y) = Least(share(y), y)
      /\ allowance(x + y) = Least(share(x + y), x + y)
  <2>. HIDE DEF allowance, share
  <2>. QED
    BY <1>2, <1>3
<1>5. /\ share(x) \in Nat /\ share(y) \in Nat /\ share(x + y) \in Nat
      /\ share(x + y) >= share(x) + share(y)
      /\ share(x + y) <= share(x) + share(y) + 1
  <2>. HIDE DEF limit, cluster
  <2>1. x * cluster \in Nat /\ y * cluster \in Nat
    BY <1>1, ProductPositive
  <2>2. (x + y) * cluster = x * cluster + y * cluster
    BY <1>1
  <2>3. QED
    BY <1>1, <2>1, <2>2, QuotientOfSum
<1>6. limit <= cluster =>
        share(x) >= x /\ share(y) >= y /\ share(x + y) >= x + y
  <2>1. ASSUME NEW r \in Nat, limit <= cluster PROVE share(r) >= r
    <3>. HIDE DEF limit, cluster
    <3>1. r * limit <= r * cluster /\ r * cluster \in Nat
      BY <1>1, <2>1, ProductsOrdered, ProductPositive
    <3>2. r <= share(r)
      BY <1>1, <3>1, QuotientCovers
    <3>3. share(r) \in Nat
      BY <1>1, <3>1, QuotientType
    <3>. QED
      BY <3>2, <3>3
  <2>2. x \in Nat /\ y \in Nat /\ x + y \in Nat
    OBVIOUS
  <2>. HIDE DEF share, limit, cluster
  <2>. QED
    BY <2>1, <2>2
<1>7. cluster < limit =>
        /\ x # 0 => share(x) < x
        /\ y # 0 => share(y) < y
        /\ x + y # 0 => share(x + y) < x + y
        /\ x = 0 => share(x) = 0
        /\ y = 0 => share(y) = 0
  <2>1. ASSUME NEW r \in Nat, cluster < limit, r # 0 PROVE share(r) < r
    <3>. HIDE DEF limit, cluster
    <3>1. r * cluster < r * limit /\ r * cluster \in Nat
      <4>1. r * (cluster + 1) <= r * limit /\ r * (cluster + 1) = r * cluster + r
        BY <1>1, <2>1, ProductsOrdered
      <4>2. r * cluster \in Nat /\ r * limit \in Nat
        BY <1>1, ProductPositive
      <4>. QED
        BY <2>1, <4>1, <4>2
    <3>. QED
      BY <1>1, <3>1, QuotientWithin
  <2>2. share(0) = 0
    <3>. HIDE DEF limit, cluster
    <3>1. 0 * cluster = 0 /\ 0 < 1 * limit
      BY <1>1
    <3>2. 0 \div limit < 1 /\ 0 \div limit \in Nat
      BY <1>1, <3>1, QuotientWithin, QuotientType
    <3>. QED
      BY <3>1, <3>2
  <2>3. x \in Nat /\ y \in Nat /\ x + y \in Nat
    OBVIOUS
  <2>. HIDE DEF share, limit, cluster
  <2>. QED
    BY <2>1, <2>2, <2>3
<1>. DEFINE sx == share(x)  sy == share(y)  sz == share(x + y)
            ax == allowance(x)  ay == allowance(y)  az == allowance(x + y)
<1>8. /\ Rest(x, moving, effective) = SatSub(x, Greatest(ax, 1))
      /\ Rest(y, moving, effective) = SatSub(y, Greatest(ay, 1))
      /\ Rest(x + y, moving, effective) = SatSub(x + y, Greatest(az, 1))
  BY DEF Rest
<1>9. ax = Least(sx, x) /\ ay = Least(sy, y) /\ az = Least(sz, x + y)
  BY <1>4
<1>10. /\ sx \in Nat /\ sy \in Nat /\ sz \in Nat
       /\ sz >= sx + sy /\ sz <= sx + sy + 1
  BY <1>5
<1>11. \/ sx >= x /\ sy >= y /\ sz >= x + y
       \/ /\ x # 0 => sx < x
          /\ y # 0 => sy < y
          /\ x + y # 0 => sz < x + y
          /\ x = 0 => sx = 0
          /\ y = 0 => sy = 0
  <2>1. limit <= cluster \/ cluster < limit
    <3>. HIDE DEF limit, cluster
    <3>. QED
      BY <1>1
  <2>. HIDE DEF share
  <2>. QED
    BY <1>6, <1>7, <2>1
<1>. HIDE DEF sx, sy, sz, ax, ay, az, share, allowance, limit, cluster
<1>12. /\ Rest(x, moving, effective) \in 0..x
       /\ Rest(x, moving, effective) <= Rest(x + y, moving, effective)
       /\ Rest(x + y, moving, effective) <= Rest(x, moving, effective) + y
       /\ Near(Rest(x, moving, effective) + Rest(y, moving, effective),
               Rest(x + y, moving, effective), 1)
  BY <1>8, <1>9, <1>10, <1>11 DEF Near, Least, Greatest, SatSub
<1>. QED
  BY <1>12

\* Parts that are off by k are off by at most k + 1 after an iteration.
LEMMA RestNear ==
  ASSUME NEW most \in Nat, NEW x \in Nat, NEW y \in Nat, x + y <= most,
         NEW z \in 0..most, NEW k \in Nat, Near(x + y, z, k),
         NEW moving \in Nat, moving # 0, NEW effective \in Nat,
         Roomy(moving, effective, most)
  PROVE  LET rest(r) == Rest(r, moving, effective)
         IN  /\ rest(x) \in 0..x /\ rest(y) \in 0..y /\ rest(z) \in 0..z
             /\ Near(rest(x) + rest(y), rest(z), k + 1)
<1>. DEFINE rest(r) == Rest(r, moving, effective)
<1>1. ASSUME NEW a \in Nat, NEW b \in Nat, a + b <= most
      PROVE  /\ rest(a) \in 0..a
             /\ rest(a) <= rest(a + b) /\ rest(a + b) <= rest(a) + b
             /\ Near(rest(a) + rest(b), rest(a + b), 1)
  BY <1>1, RestOfSum
<1>. HIDE DEF rest
<1>2. rest(x) \in 0..x /\ Near(rest(x) + rest(y), rest(x + y), 1)
  BY <1>1
<1>3. rest(y) \in 0..y /\ rest(z) \in 0..z /\ rest(x + y) \in 0..(x + y)
  <2>1. ASSUME NEW r \in 0..most PROVE rest(r) \in 0..r
    <3>1. r \in Nat /\ 0 \in Nat /\ r + 0 <= most
      OBVIOUS
    <3>. QED
      BY <1>1, <3>1
  <2>2. y \in 0..most /\ x + y \in 0..most
    OBVIOUS
  <2>. QED
    BY <2>1, <2>2
<1>4. Near(rest(x + y), rest(z), k)
  <2>1. CASE x + y <= z
    <3>1. x + y \in Nat /\ z - (x + y) \in Nat /\ (x + y) + (z - (x + y)) = z /\ z <= most
      BY <2>1
    <3>2. rest(x + y) <= rest(z) /\ rest(z) <= rest(x + y) + (z - (x + y))
      BY <1>1, <3>1
    <3>. QED
      BY <1>3, <2>1, <3>2 DEF Near
  <2>2. CASE z < x + y
    <3>1. z \in Nat /\ (x + y) - z \in Nat /\ z + ((x + y) - z) = x + y
      BY <2>2
    <3>2. rest(z) <= rest(x + y) /\ rest(x + y) <= rest(z) + ((x + y) - z)
      BY <1>1, <3>1
    <3>. QED
      BY <1>3, <2>2, <3>2 DEF Near
  <2>. QED
    BY <2>1, <2>2
<1>5. Near(rest(x) + rest(y), rest(z), k + 1)
  BY <1>2, <1>3, <1>4 DEF Near
<1>. QED
  BY <1>2, <1>3, <1>5 DEF rest

\* An iteration of the warmup loop leaves that of what is not yet effective.
LEMMA WarmupRest ==
  ASSUME NEW d, IsDelegation(d), NEW history, NEW n \in Nat,
         history[d.activation_epoch + n - 1] \in Entry, NEW before \in 0..d.stake
  PROVE  LET entry == history[d.activation_epoch + n - 1]
         IN  d.stake - WarmupStep(d, history, n)[before]
               = Rest(d.stake - before, entry.activating, entry.effective)
<1>. DEFINE entry == history[d.activation_epoch + n - 1]
            allowance == StakeChangeAllowance(d.stake - before, entry.activating,
                                              entry.effective)
<1>1. d.stake \in Nat /\ before \in Nat /\ d.stake - before \in Nat
  BY DEF IsDelegation
<1>2. allowance \in 0..(d.stake - before)
  BY <1>1, AllowanceBounded DEF Entry
<1>3. WarmupStep(d, history, n)[before]
        = Least(before + Greatest(allowance, 1), d.stake)
  BY <1>1 DEF WarmupStep, ActivationAllowance
<1>4. Rest(d.stake - before, entry.activating, entry.effective)
        = SatSub(d.stake - before, Greatest(allowance, 1))
  BY DEF Rest
<1>. HIDE DEF allowance, entry
<1>5. d.stake - WarmupStep(d, history, n)[before]
        = Rest(d.stake - before, entry.activating, entry.effective)
  BY <1>1, <1>2, <1>3, <1>4 DEF Least, Greatest, SatSub
<1>. QED
  BY <1>5 DEF entry

\* And one of the cooldown loop, of what is left.
LEMMA CooldownRest ==
  ASSUME NEW d, NEW history, NEW n \in Nat, NEW before \in Nat
  PROVE  LET entry == history[d.deactivation_epoch + n - 1]
         IN  CooldownStep(d, history, n)[before]
               = Rest(before, entry.deactivating, entry.effective)
BY DEF CooldownStep, DeactivationAllowance, Rest

\* Delegations with the epochs of d that share out its amount.
Shares(d, e, f) ==
    /\ IsDelegation(d) /\ IsDelegation(e) /\ IsDelegation(f)
    /\ e.stake + f.stake = d.stake
    /\ e.activation_epoch = d.activation_epoch
    /\ f.activation_epoch = d.activation_epoch
    /\ e.deactivation_epoch = d.deactivation_epoch
    /\ f.deactivation_epoch = d.deactivation_epoch

\* In each epoch of the warmup a lamport may go to the parts, or be lost to them.
LEMMA WarmupShared ==
  ASSUME NEW most \in Nat, NEW d, NEW e, NEW f, Shares(d, e, f), d.stake <= most,
         NEW history, NEW count \in Nat,
         \A n \in 1..count :
            LET entry == history[d.activation_epoch + n - 1]
            IN  /\ entry \in Entry /\ entry.activating # 0
                /\ Roomy(entry.activating, entry.effective, most)
  PROVE  Near(Warmup(e, history)[count] + Warmup(f, history)[count],
              Warmup(d, history)[count], count)
<1>. DEFINE D(n) == Warmup(d, history)[n]
            E(n) == Warmup(e, history)[n]
            F(n) == Warmup(f, history)[n]
            T == {n \in Nat : /\ D(n) \in 0..d.stake /\ E(n) \in 0..e.stake
                              /\ F(n) \in 0..f.stake
                              /\ Near(E(n) + F(n), D(n), n)}
<1>1. d.stake \in Nat /\ e.stake \in Nat /\ f.stake \in Nat /\ e.stake + f.stake = d.stake
  BY DEF Shares, IsDelegation
<1>2. 0 \in T
  <2>1. D(0) = 0 /\ E(0) = 0 /\ F(0) = 0
    BY WarmupNext
  <2>. HIDE DEF D, E, F
  <2>. QED
    BY <1>1, <2>1 DEF Near
<1>3. ASSUME NEW n \in Nat, n \in T, n < count
      PROVE  n + 1 \in T
  <2>. DEFINE entry == history[d.activation_epoch + (n + 1) - 1]
              rest(r) == Rest(r, entry.activating, entry.effective)
  <2>1. n + 1 \in 1..count /\ n + 1 \in Nat
    BY <1>3
  <2>2. /\ entry \in Entry /\ entry.activating # 0
        /\ Roomy(entry.activating, entry.effective, most)
    BY <2>1
  <2>3. /\ D(n) \in 0..d.stake /\ E(n) \in 0..e.stake /\ F(n) \in 0..f.stake
        /\ Near(E(n) + F(n), D(n), n)
    BY <1>3
  <2>4. /\ D(n + 1) = WarmupStep(d, history, n + 1)[D(n)]
        /\ E(n + 1) = WarmupStep(e, history, n + 1)[E(n)]
        /\ F(n + 1) = WarmupStep(f, history, n + 1)[F(n)]
    BY WarmupNext
  <2>5. /\ D(n + 1) \in D(n)..d.stake /\ E(n + 1) \in E(n)..e.stake
        /\ F(n + 1) \in F(n)..f.stake
    <3>1. history[e.activation_epoch + (n + 1) - 1] = entry
          /\ history[f.activation_epoch + (n + 1) - 1] = entry
      BY DEF Shares
    <3>2. IsDelegation(d) /\ IsDelegation(e) /\ IsDelegation(f)
      BY DEF Shares
    <3>. HIDE DEF D, E, F
    <3>3. WarmupStep(d, history, n + 1)[D(n)] \in D(n)..d.stake
      BY <2>1, <2>2, <2>3, <3>2, WarmupStepBounded
    <3>4. WarmupStep(e, history, n + 1)[E(n)] \in E(n)..e.stake
      BY <2>1, <2>2, <2>3, <3>1, <3>2, WarmupStepBounded
    <3>5. WarmupStep(f, history, n + 1)[F(n)] \in F(n)..f.stake
      BY <2>1, <2>2, <2>3, <3>1, <3>2, WarmupStepBounded
    <3>. QED
      BY <2>4, <3>3, <3>4, <3>5
  <2>6. /\ d.stake - D(n + 1) = rest(d.stake - D(n))
        /\ e.stake - E(n + 1) = rest(e.stake - E(n))
        /\ f.stake - F(n + 1) = rest(f.stake - F(n))
    <3>1. history[e.activation_epoch + (n + 1) - 1] = entry
          /\ history[f.activation_epoch + (n + 1) - 1] = entry
      BY DEF Shares
    <3>2. IsDelegation(d) /\ IsDelegation(e) /\ IsDelegation(f)
      BY DEF Shares
    <3>. HIDE DEF D, E, F
    <3>3. d.stake - WarmupStep(d, history, n + 1)[D(n)] = rest(d.stake - D(n))
      BY <2>1, <2>2, <2>3, <3>2, WarmupRest
    <3>4. e.stake - WarmupStep(e, history, n + 1)[E(n)] = rest(e.stake - E(n))
      BY <2>1, <2>2, <2>3, <3>1, <3>2, WarmupRest
    <3>5. f.stake - WarmupStep(f, history, n + 1)[F(n)] = rest(f.stake - F(n))
      BY <2>1, <2>2, <2>3, <3>1, <3>2, WarmupRest
    <3>. QED
      BY <2>4, <3>3, <3>4, <3>5
  <2>7. Near(rest(e.stake - E(n)) + rest(f.stake - F(n)), rest(d.stake - D(n)), n + 1)
    <3>. DEFINE x == e.stake - E(n)
                y == f.stake - F(n)
                z == d.stake - D(n)
    <3>. HIDE DEF D, E, F
    <3>1. /\ x \in Nat /\ y \in Nat /\ x + y <= most /\ z \in 0..most
          /\ Near(x + y, z, n)
      BY <1>1, <2>3 DEF Near
    <3>2. entry.activating \in Nat /\ entry.effective \in Nat
      <4>. HIDE DEF entry
      <4>. QED
        BY <2>2 DEF Entry
    <3>. HIDE DEF x, y, z, entry
    <3>3. Near(rest(x) + rest(y), rest(z), n + 1)
      BY <2>2, <3>1, <3>2, RestNear
    <3>. QED
      BY <3>3 DEF x, y, z
  <2>. HIDE DEF rest, D, E, F
  <2>8. Near(E(n + 1) + F(n + 1), D(n + 1), n + 1)
    BY <1>1, <2>1, <2>3, <2>5, <2>6, <2>7 DEF Near
  <2>. QED
    BY <1>1, <2>1, <2>3, <2>5, <2>8
<1>4. \A n \in 0..count : n \in T
  <2>. HIDE DEF T
  <2>. QED
    BY <1>2, <1>3, BoundedInduction
<1>. QED
  BY <1>4

\* So in each epoch of the cooldown.
LEMMA CooldownShared ==
  ASSUME NEW most \in Nat, NEW d, NEW e, NEW f, Shares(d, e, f),
         NEW history, NEW count \in Nat,
         \A n \in 1..count :
            LET entry == history[d.deactivation_epoch + n - 1]
            IN  /\ entry \in Entry /\ entry.deactivating # 0
                /\ Roomy(entry.deactivating, entry.effective, most),
         NEW x \in Nat, NEW y \in Nat, x + y <= most, NEW z \in 0..most,
         NEW k \in Nat, Near(x + y, z, k)
  PROVE  Near(Cooldown(e, history, x)[count] + Cooldown(f, history, y)[count],
              Cooldown(d, history, z)[count], k + count)
<1>. DEFINE D(n) == Cooldown(d, history, z)[n]
            E(n) == Cooldown(e, history, x)[n]
            F(n) == Cooldown(f, history, y)[n]
            T == {n \in Nat : /\ D(n) \in 0..z /\ E(n) \in 0..x /\ F(n) \in 0..y
                              /\ Near(E(n) + F(n), D(n), k + n)}
<1>1. 0 \in T
  <2>1. D(0) = z /\ E(0) = x /\ F(0) = y
    BY CooldownNext
  <2>. HIDE DEF D, E, F
  <2>. QED
    BY <2>1 DEF Near
<1>2. ASSUME NEW n \in Nat, n \in T, n < count
      PROVE  n + 1 \in T
  <2>. DEFINE entry == history[d.deactivation_epoch + (n + 1) - 1]
              rest(r) == Rest(r, entry.deactivating, entry.effective)
  <2>1. n + 1 \in 1..count /\ n + 1 \in Nat
    BY <1>2
  <2>2. /\ entry \in Entry /\ entry.deactivating # 0
        /\ Roomy(entry.deactivating, entry.effective, most)
    BY <2>1
  <2>3. /\ D(n) \in 0..z /\ E(n) \in 0..x /\ F(n) \in 0..y
        /\ Near(E(n) + F(n), D(n), k + n)
    BY <1>2
  <2>4. /\ D(n + 1) = CooldownStep(d, history, n + 1)[D(n)]
        /\ E(n + 1) = CooldownStep(e, history, n + 1)[E(n)]
        /\ F(n + 1) = CooldownStep(f, history, n + 1)[F(n)]
    BY CooldownNext
  <2>5. D(n + 1) = rest(D(n)) /\ E(n + 1) = rest(E(n)) /\ F(n + 1) = rest(F(n))
    <3>1. history[e.deactivation_epoch + (n + 1) - 1] = entry
          /\ history[f.deactivation_epoch + (n + 1) - 1] = entry
      BY DEF Shares
    <3>2. D(n) \in Nat /\ E(n) \in Nat /\ F(n) \in Nat
      BY <2>3
    <3>. HIDE DEF D, E, F
    <3>3. CooldownStep(d, history, n + 1)[D(n)] = rest(D(n))
      BY <2>1, <3>2, CooldownRest
    <3>4. CooldownStep(e, history, n + 1)[E(n)] = rest(E(n))
      BY <2>1, <3>1, <3>2, CooldownRest
    <3>5. CooldownStep(f, history, n + 1)[F(n)] = rest(F(n))
      BY <2>1, <3>1, <3>2, CooldownRest
    <3>. QED
      BY <2>4, <3>3, <3>4, <3>5
  <2>6. /\ rest(E(n)) \in 0..E(n) /\ rest(F(n)) \in 0..F(n) /\ rest(D(n)) \in 0..D(n)
        /\ Near(rest(E(n)) + rest(F(n)), rest(D(n)), (k + n) + 1)
    <3>. HIDE DEF D, E, F
    <3>1. /\ E(n) \in Nat /\ F(n) \in Nat /\ E(n) + F(n) <= most /\ D(n) \in 0..most
          /\ k + n \in Nat
      BY <2>3
    <3>2. entry.deactivating \in Nat /\ entry.effective \in Nat
      <4>. HIDE DEF entry
      <4>. QED
        BY <2>2 DEF Entry
    <3>. HIDE DEF entry
    <3>. QED
      BY <2>2, <2>3, <3>1, <3>2, RestNear
  <2>. HIDE DEF rest, D, E, F
  <2>7. (k + n) + 1 = k + (n + 1)
    OBVIOUS
  <2>. QED
    BY <2>1, <2>3, <2>5, <2>6, <2>7
<1>3. \A n \in 0..count : n \in T
  <2>. HIDE DEF T
  <2>. QED
    BY <1>1, <1>2, BoundedInduction
<1>. QED
  BY <1>3

\* Both loops only visit epochs that moved stake, and no more than lie between
\* the activation, the deactivation, and now.
LEMMA IterationsWithin ==
  ASSUME NEW d, IsDelegation(d), NEW history, IsHistory(history), NEW now \in Nat,
         d.activation_epoch <= now
  PROVE  /\ WarmupIterations(d, history, now) \in Nat
         /\ d.activation_epoch < d.deactivation_epoch =>
              WarmupIterations(d, history, now)
                <= Least(now, d.deactivation_epoch) - d.activation_epoch
         /\ \A n \in 1..WarmupIterations(d, history, now) :
               LET past == d.activation_epoch + n - 1
               IN  past \in DOMAIN history /\ history[past].activating # 0
         /\ CooldownIterations(d, history, now) \in Nat
         /\ d.deactivation_epoch <= now =>
              CooldownIterations(d, history, now) <= now - d.deactivation_epoch
         /\ \A n \in 1..CooldownIterations(d, history, now) :
               LET past == d.deactivation_epoch + n - 1
               IN  past \in DOMAIN history /\ history[past].deactivating # 0
<1>. DEFINE start == d.activation_epoch
            stop == d.deactivation_epoch
            end == Least(now, Greatest(stop, start + 1)) - 1
            W == LoopEpochs("activating", start, end, history, now)
            C == LoopEpochs("deactivating", stop, now - 1, history, now)
            w == WarmupIterations(d, history, now)
            c == CooldownIterations(d, history, now)
<1>1. start \in Nat /\ stop \in Nat /\ end \in Int /\ now - 1 \in Int
  BY DEF IsDelegation, Least, Greatest
<1>2. w = Cardinality(W) /\ c = Cardinality(C)
  BY DEF WarmupIterations, CooldownIterations
<1>3. /\ w \in Nat /\ c \in Nat
      /\ \A n \in 1..w : start + n - 1 \in start..end
      /\ \A n \in 1..c : stop + n - 1 \in stop..(now - 1)
  <2>. HIDE DEF start, stop, end
  <2>1. Cardinality(W) \in Nat /\ \A n \in 1..Cardinality(W) : start + n - 1 \in start..end
    BY <1>1, LoopCount
  <2>2. /\ Cardinality(C) \in Nat
        /\ \A n \in 1..Cardinality(C) : stop + n - 1 \in stop..(now - 1)
    BY <1>1, LoopCount
  <2>. QED
    BY <1>2, <2>1, <2>2
<1>4. ASSUME NEW n \in 1..w
      PROVE  /\ start + n - 1 \in DOMAIN history
             /\ history[start + n - 1].activating # 0
  <2>1. n \in Nat /\ n # 0 /\ n <= Cardinality(W)
    BY <1>2, <1>3
  <2>2. start + n - 1 \in W
    <3>. HIDE DEF start, end
    <3>. QED
      BY <1>1, <2>1, LoopEpochsPrefix
  <2>3. start + n - 1 \in start..(start + n - 1)
    BY <1>1, <2>1
  <2>. HIDE DEF start, end
  <2>4. HasEntry(history, now, start + n - 1)
        /\ history[start + n - 1]["activating"] # 0
    BY <2>2, <2>3 DEF LoopEpochs
  <2>. QED
    BY <2>4 DEF HasEntry
<1>5. ASSUME NEW n \in 1..c
      PROVE  /\ stop + n - 1 \in DOMAIN history
             /\ history[stop + n - 1].deactivating # 0
  <2>1. n \in Nat /\ n # 0 /\ n <= Cardinality(C)
    BY <1>2, <1>3
  <2>2. stop + n - 1 \in C
    <3>. HIDE DEF stop
    <3>. QED
      BY <1>1, <2>1, LoopEpochsPrefix
  <2>3. stop + n - 1 \in stop..(stop + n - 1)
    BY <1>1, <2>1
  <2>. HIDE DEF stop
  <2>4. HasEntry(history, now, stop + n - 1)
        /\ history[stop + n - 1]["deactivating"] # 0
    BY <2>2, <2>3 DEF LoopEpochs
  <2>. QED
    BY <2>4 DEF HasEntry
<1>6. start < stop => w <= Least(now, stop) - start
  <2>1. CASE w = 0
    BY <1>1, <2>1 DEF Least
  <2>2. CASE w # 0
    <3>1. start + w - 1 \in start..end
      <4>1. w \in 1..w
        BY <1>3, <2>2
      <4>. HIDE DEF w, start, end
      <4>. QED
        BY <1>3, <4>1
    <3>2. start < stop => end = Least(now, stop) - 1
      BY <1>1 DEF Greatest
    <3>3. Least(now, stop) \in Int
      BY <1>1 DEF Least
    <3>. HIDE DEF w, start, end, stop
    <3>. QED
      BY <1>1, <1>3, <3>1, <3>2, <3>3
  <2>. QED
    BY <2>1, <2>2
<1>7. stop <= now => c <= now - stop
  <2>1. CASE c = 0
    BY <1>1, <2>1
  <2>2. CASE c # 0
    <3>1. stop + c - 1 \in stop..(now - 1)
      <4>1. c \in 1..c
        BY <1>3, <2>2
      <4>. HIDE DEF c, stop
      <4>. QED
        BY <1>3, <4>1
    <3>. HIDE DEF c, stop
    <3>. QED
      BY <1>1, <1>3, <3>1
  <2>. QED
    BY <2>1, <2>2
<1>. QED
  BY <1>3, <1>4, <1>5, <1>6, <1>7

\* What the parts have warmed up to, before any deactivation is applied.
LEMMA StartShared ==
  ASSUME NEW most \in Nat, NEW d, NEW e, NEW f, Shares(d, e, f), d.stake <= most,
         NEW history, IsHistory(history), RoomyHistory(history, most),
         NEW now \in Nat, d.activation_epoch <= now, now < Never
  PROVE  LET start(s) == StakeAndActivating(s, history, now).effective
             count    == IF d.activation_epoch < d.deactivation_epoch
                         THEN Least(now, d.deactivation_epoch) - d.activation_epoch
                         ELSE 0
         IN  d.deactivation_epoch >= d.activation_epoch =>
               count \in Nat /\ Near(start(e) + start(f), start(d), count)
<1>. DEFINE start(s) == StakeAndActivating(s, history, now).effective
            count == IF d.activation_epoch < d.deactivation_epoch
                     THEN Least(now, d.deactivation_epoch) - d.activation_epoch
                     ELSE 0
<1>. SUFFICES ASSUME d.deactivation_epoch >= d.activation_epoch
              PROVE  count \in Nat /\ Near(start(e) + start(f), start(d), count)
  OBVIOUS
<1>1. /\ IsDelegation(d) /\ IsDelegation(e) /\ IsDelegation(f)
      /\ d.stake \in Nat /\ e.stake \in Nat /\ f.stake \in Nat
      /\ e.stake + f.stake = d.stake
      /\ d.activation_epoch \in Nat /\ d.deactivation_epoch \in Nat
  BY DEF Shares, IsDelegation
<1>2. count \in Nat
  BY <1>1 DEF Least
<1>3. start(d) \in Nat /\ start(e) \in Nat /\ start(f) \in Nat
  <2>1. ASSUME NEW s, IsDelegation(s) PROVE start(s) \in Nat
    <3>1. start(s) \in 0..s.stake
      BY <2>1, StakeAndActivatingBounded
    <3>. HIDE DEF start
    <3>. QED
      BY <2>1, <3>1 DEF IsDelegation
  <2>. HIDE DEF start
  <2>. QED
    BY <1>1, <2>1
<1>4. CASE d.activation_epoch = d.deactivation_epoch
  <2>1. start(d) = 0 /\ start(e) = 0 /\ start(f) = 0
    <3>1. ASSUME NEW s, IsDelegation(s), s.activation_epoch <= now,
                 s.activation_epoch = s.deactivation_epoch
          PROVE  start(s) = 0
      BY <3>1, StartUnfolded
    <3>. HIDE DEF start
    <3>. QED
      BY <1>1, <1>4, <3>1 DEF Shares
  <2>. HIDE DEF start, count
  <2>. QED
    BY <1>2, <2>1 DEF Near
<1>5. CASE d.activation_epoch # d.deactivation_epoch
  <2>. DEFINE forgotten == now > d.activation_epoch
                           /\ ~HasEntry(history, now, d.activation_epoch)
              iterations == WarmupIterations(d, history, now)
  <2>1. ASSUME NEW s \in {d, e, f}
        PROVE  start(s) = IF forgotten THEN s.stake ELSE Warmup(s, history)[iterations]
    <3>1. /\ IsDelegation(s) /\ s.activation_epoch = d.activation_epoch
          /\ s.deactivation_epoch = d.deactivation_epoch
      BY <1>1 DEF Shares
    <3>2. WarmupIterations(s, history, now) = iterations
      BY <3>1 DEF WarmupIterations
    <3>3. start(s) = IF /\ now > s.activation_epoch
                        /\ ~HasEntry(history, now, s.activation_epoch)
                     THEN s.stake
                     ELSE Warmup(s, history)[WarmupIterations(s, history, now)]
      BY <1>5, <3>1, StartUnfolded
    <3>. HIDE DEF start, iterations
    <3>. QED
      BY <3>1, <3>2, <3>3
  <2>2. CASE forgotten
    <3>1. start(d) = d.stake /\ start(e) = e.stake /\ start(f) = f.stake
      BY <2>1, <2>2
    <3>. HIDE DEF start, count
    <3>. QED
      BY <1>1, <1>2, <3>1 DEF Near
  <2>3. CASE ~forgotten
    <3>1. iterations \in Nat /\ iterations <= count
      <4>1. d.activation_epoch < d.deactivation_epoch
        BY <1>1, <1>5
      <4>2. /\ iterations \in Nat
            /\ iterations <= Least(now, d.deactivation_epoch) - d.activation_epoch
        BY <1>1, <4>1, IterationsWithin
      <4>. HIDE DEF iterations
      <4>. QED
        BY <4>1, <4>2
    <3>2. ASSUME NEW n \in 1..iterations
          PROVE  LET entry == history[d.activation_epoch + n - 1]
                 IN  /\ entry \in Entry /\ entry.activating # 0
                     /\ Roomy(entry.activating, entry.effective, most)
      <4>. DEFINE past == d.activation_epoch + n - 1
      <4>1. past \in DOMAIN history /\ history[past].activating # 0
        BY <1>1, IterationsWithin
      <4>. HIDE DEF past
      <4>2. /\ history[past] \in Entry
            /\ Roomy(history[past].activating, history[past].effective, most)
        BY <4>1 DEF IsHistory, RoomyHistory
      <4>. QED
        BY <4>1, <4>2 DEF past
    <3>3. Near(Warmup(e, history)[iterations] + Warmup(f, history)[iterations],
               Warmup(d, history)[iterations], iterations)
      <4>. HIDE DEF iterations
      <4>. QED
        BY <3>1, <3>2, WarmupShared
    <3>4. Near(start(e) + start(f), start(d), iterations)
      BY <2>1, <2>3, <3>3
    <3>. HIDE DEF start, count, iterations
    <3>. QED
      BY <1>2, <1>3, <3>1, <3>4 DEF Near
  <2>. QED
    BY <2>2, <2>3
<1>. QED
  BY <1>4, <1>5

(***************************************************************************)
(* What is effective of two delegations with the same epochs is what is    *)
(* effective of one that has both their amounts, up to a lamport for each  *)
(* epoch since the activation: all that splitting an account can bring or  *)
(* cost is the rounding in the epochs of its warmup and its cooldown.      *)
(***************************************************************************)
THEOREM StatusShared ==
  ASSUME NEW most \in Nat, NEW d, NEW e, NEW f, Shares(d, e, f), d.stake <= most,
         NEW history, IsHistory(history), RoomyHistory(history, most),
         NEW now \in Nat, d.activation_epoch <= now, now < Never,
         d.deactivation_epoch \in {Never} \cup d.activation_epoch..now
  PROVE  LET effective(s) == StakeActivatingAndDeactivating(s, history, now).effective
         IN  Near(effective(e) + effective(f), effective(d), now - d.activation_epoch)
<1>. DEFINE effective(s) == StakeActivatingAndDeactivating(s, history, now).effective
            start(s) == StakeAndActivating(s, history, now).effective
            warm == IF d.activation_epoch < d.deactivation_epoch
                    THEN Least(now, d.deactivation_epoch) - d.activation_epoch
                    ELSE 0
<1>. SUFFICES Near(effective(e) + effective(f), effective(d), now - d.activation_epoch)
  OBVIOUS
<1>1. /\ IsDelegation(d) /\ IsDelegation(e) /\ IsDelegation(f)
      /\ d.stake \in Nat /\ e.stake \in Nat /\ f.stake \in Nat
      /\ e.stake + f.stake = d.stake
      /\ d.activation_epoch \in Nat /\ d.deactivation_epoch \in Nat
      /\ d.activation_epoch <= d.deactivation_epoch
  BY ActivationConstants DEF Shares, IsDelegation, Never
<1>2. warm \in Nat /\ Near(start(e) + start(f), start(d), warm)
  BY <1>1, StartShared
<1>3. start(d) \in 0..d.stake /\ start(e) \in 0..e.stake /\ start(f) \in 0..f.stake
  <2>1. ASSUME NEW s, IsDelegation(s) PROVE start(s) \in 0..s.stake
    BY <2>1, StakeAndActivatingBounded
  <2>. HIDE DEF start
  <2>. QED
    BY <1>1, <2>1
<1>4. CASE now <= d.deactivation_epoch
  <2>1. ASSUME NEW s \in {d, e, f} PROVE effective(s) = start(s)
    <3>1. s.deactivation_epoch = d.deactivation_epoch
      BY DEF Shares
    <3>. QED
      BY <1>1, <1>4, <3>1, EffectiveUnfolded
  <2>2. effective(d) = start(d) /\ effective(e) = start(e) /\ effective(f) = start(f)
    BY <2>1
  <2>3. warm <= now - d.activation_epoch
    BY <1>1, <1>4 DEF Least
  <2>. HIDE DEF effective, start, warm
  <2>. QED
    BY <1>1, <1>2, <1>3, <2>2, <2>3 DEF Near
<1>5. CASE d.deactivation_epoch < now
  <2>. DEFINE iterations == CooldownIterations(d, history, now)
  <2>1. ASSUME NEW s \in {d, e, f}
        PROVE  effective(s) = IF HasEntry(history, now, d.deactivation_epoch)
                              THEN Cooldown(s, history, start(s))[iterations]
                              ELSE 0
    <3>1. s.deactivation_epoch = d.deactivation_epoch
      BY DEF Shares
    <3>2. CooldownIterations(s, history, now) = iterations
      BY <3>1 DEF CooldownIterations
    <3>3. effective(s) = IF HasEntry(history, now, s.deactivation_epoch)
                         THEN Cooldown(s, history, start(s))
                                [CooldownIterations(s, history, now)]
                         ELSE 0
      BY <1>1, <1>5, <3>1, EffectiveUnfolded
    <3>. HIDE DEF effective, start, iterations
    <3>. QED
      BY <3>1, <3>2, <3>3
  <2>2. CASE ~HasEntry(history, now, d.deactivation_epoch)
    <3>1. effective(d) = 0 /\ effective(e) = 0 /\ effective(f) = 0
      BY <2>1, <2>2
    <3>. HIDE DEF effective
    <3>. QED
      BY <1>1, <3>1 DEF Near
  <2>3. CASE HasEntry(history, now, d.deactivation_epoch)
    <3>1. iterations \in Nat /\ iterations <= now - d.deactivation_epoch
      BY <1>1, <1>5, IterationsWithin
    <3>2. ASSUME NEW n \in 1..iterations
          PROVE  LET entry == history[d.deactivation_epoch + n - 1]
                 IN  /\ entry \in Entry /\ entry.deactivating # 0
                     /\ Roomy(entry.deactivating, entry.effective, most)
      <4>. DEFINE past == d.deactivation_epoch + n - 1
      <4>1. past \in DOMAIN history /\ history[past].deactivating # 0
        BY <1>1, IterationsWithin
      <4>. HIDE DEF past
      <4>2. /\ history[past] \in Entry
            /\ Roomy(history[past].deactivating, history[past].effective, most)
        BY <4>1 DEF IsHistory, RoomyHistory
      <4>. QED
        BY <4>1, <4>2 DEF past
    <3>3. Near(Cooldown(e, history, start(e))[iterations]
                 + Cooldown(f, history, start(f))[iterations],
               Cooldown(d, history, start(d))[iterations], warm + iterations)
      <4>. HIDE DEF iterations, start, warm
      <4>1. /\ start(e) \in Nat /\ start(f) \in Nat /\ start(e) + start(f) <= most
            /\ start(d) \in 0..most
        BY <1>1, <1>3
      <4>. QED
        BY <1>2, <3>1, <3>2, <4>1, CooldownShared
    <3>4. Near(effective(e) + effective(f), effective(d), warm + iterations)
      BY <2>1, <2>3, <3>3
    <3>5. warm + iterations <= now - d.activation_epoch
      <4>1. warm <= d.deactivation_epoch - d.activation_epoch
        BY <1>1, <1>5 DEF Least
      <4>. HIDE DEF warm, iterations
      <4>. QED
        BY <1>1, <1>2, <3>1, <4>1
    <3>6. effective(d) \in Nat /\ effective(e) \in Nat /\ effective(f) \in Nat
      <4>1. ASSUME NEW s, IsDelegation(s) PROVE effective(s) \in Nat
        <5>1. effective(s) \in 0..s.stake
          BY <4>1, StatusBounded
        <5>. HIDE DEF effective
        <5>. QED
          BY <4>1, <5>1 DEF IsDelegation
      <4>. HIDE DEF effective
      <4>. QED
        BY <1>1, <4>1
    <3>. HIDE DEF effective, warm, iterations
    <3>. QED
      BY <1>1, <1>2, <3>1, <3>4, <3>5, <3>6 DEF Near
  <2>. QED
    BY <2>2, <2>3
<1>. QED
  BY <1>1, <1>4, <1>5

\* Deactivating stake in this epoch, or taking that back, changes nothing yet.
LEMMA DeactivationTakesNothing ==
  ASSUME NEW d, IsDelegation(d), NEW e, IsDelegation(e),
         NEW history, IsHistory(history), NEW now \in Nat, now < Never,
         d.activation_epoch <= now, e.activation_epoch = d.activation_epoch,
         e.stake = d.stake, d.deactivation_epoch = Never, e.deactivation_epoch = now
  PROVE  StakeActivatingAndDeactivating(e, history, now).effective
           = StakeActivatingAndDeactivating(d, history, now).effective
<1>. DEFINE start(s) == StakeAndActivating(s, history, now).effective
<1>1. /\ d.activation_epoch \in Nat /\ Never \in Nat
      /\ StakeActivatingAndDeactivating(e, history, now).effective = start(e)
      /\ StakeActivatingAndDeactivating(d, history, now).effective = start(d)
  BY EffectiveUnfolded DEF IsDelegation
<1>2. CASE d.activation_epoch = now
  <2>1. start(d) = 0 /\ start(e) = 0
    BY <1>2, StartsFromNothing
  <2>. QED
    BY <1>1, <2>1
<1>3. CASE d.activation_epoch < now
  <2>. /\ d.activation_epoch # d.deactivation_epoch
       /\ e.activation_epoch # e.deactivation_epoch
       /\ e.activation_epoch <= now
    BY <1>1, <1>3
  <2>1. WarmupIterations(e, history, now) = WarmupIterations(d, history, now)
    <3>1. Least(now, Greatest(Never, d.activation_epoch + 1)) = now
      BY <1>1, <1>3 DEF Least, Greatest
    <3>2. Least(now, Greatest(now, d.activation_epoch + 1)) = now
      BY <1>1, <1>3 DEF Least, Greatest
    <3>. QED
      BY <3>1, <3>2 DEF WarmupIterations
  <2>2. Warmup(e, history) = Warmup(d, history)
    BY DEF Warmup, WarmupStep
  <2>3. start(d) = IF /\ now > d.activation_epoch
                      /\ ~HasEntry(history, now, d.activation_epoch)
                   THEN d.stake
                   ELSE Warmup(d, history)[WarmupIterations(d, history, now)]
    BY <1>3, StartUnfolded
  <2>4. start(e) = IF /\ now > e.activation_epoch
                      /\ ~HasEntry(history, now, e.activation_epoch)
                   THEN e.stake
                   ELSE Warmup(e, history)[WarmupIterations(e, history, now)]
    BY <1>3, StartUnfolded
  <2>. HIDE DEF start
  <2>. QED
    BY <1>1, <2>1, <2>2, <2>3, <2>4
<1>. QED
  BY <1>1, <1>2, <1>3

=============================================================================
